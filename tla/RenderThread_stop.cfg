SPECIFICATION Spec
CONSTANTS
    Cap = 2
    MaxFrames = 1
    Sizes = {1}
    WakeUnits = 9
    WakeRecords = 2
    MaxPos = 2
    MaxProduced = 1
INVARIANTS
    StopReturnsContext
