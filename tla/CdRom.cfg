SPECIFICATION Spec
CONSTANTS
    Buffers = 2
    Distances = {0, 1}
    Hold = 3
    ReleaseDelay = 2
    IsrTime = 1
    DelayCap = 2
    Authentic = 3
    Period = 1
    FirstSector = 2
    Latency <- MCLatency
    LidTime = 2
    MaxStep = 1
    Sessions <- MCSessions
INVARIANTS
    TypeOK
    OneAtATime
    NoLostInterrupt
    AnnouncedReadable
    
    RestoreExact
PROPERTIES
    HandlerDrainsOwn
    CommandsEnd
    TrayCloses
CHECK_DEADLOCK FALSE
