SPECIFICATION Spec
CONSTANTS
    Arms <- MCArms
    SpuPeriod = 5
    HardCap = 6
    BatchSoft = 3
    Budget = 2
    Charges = {1, 2, 6}
    Writable = {"cdrom"}
    Delays = {0, 2}
    SpanWrites = FALSE
    Toggles = FALSE
    Snapshots = FALSE
    MaxDefer = 1
    MaxWork = 8
INVARIANT
    AllCharged
