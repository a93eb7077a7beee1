SPECIFICATION Spec
CONSTANTS
    Arms <- MCArms
    SpuPeriod = 5
    HardCap = 4
    BatchSoft = 3
    Budget = 2
    Charges = {1, 2, 5}
    Writable = {"cdrom"}
    Delays = {0, 2}
    SpanWrites = TRUE
    Toggles = TRUE
    Snapshots = TRUE
    MaxDefer = 1
    MaxWork = 6
INVARIANTS
    LagBounded
