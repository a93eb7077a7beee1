SPECIFICATION RefSpec
CONSTANTS
    Arms <- MCArms
    SpuPeriod = 5
    HardCap = 6
    BatchSoft = 3
    Budget = 0
    Charges = {1, 2, 6}
    Writable = {"cdrom"}
    Delays = {0, 4}
    SpanWrites = FALSE
    Toggles = FALSE
    Snapshots = TRUE
    MaxDefer = 1
    MaxWork = 7
INVARIANTS
    ReplayExact
    OnTimeUnlessRearmed
    HandlerCurrent
    AllCharged
