SPECIFICATION FairSpec
CONSTANTS
    Cap = 3
    MaxFrames = 1
    Sizes = {1, 2}
    WakeUnits = 3
    WakeRecords = 2
    MaxPos = 6
    MaxProduced = 3
INVARIANTS
    RecordIntact
    ContextExclusive
    HeldMeansDrained
    FramesCounted
PROPERTIES
    ImplementsQueue
    CallReturns
    FramesReplayed
