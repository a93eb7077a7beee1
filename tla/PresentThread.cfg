SPECIFICATION FairSpec
CONSTANTS
    N = 4
    MaxSlots = 4
    MaxSubmits = 9
INVARIANTS
    ShownInOrder
    TokensHeld
    StoppedClean
PROPERTIES
    SlotsRotate
    CallReturns
    FramesShown
