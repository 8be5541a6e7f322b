CONSTANTS
    Data = {d1}
    NoData = NoData
    Modulus = 3
    Window = 2
    N2 = 1
    MaxBuf = 2
    MaxPolls = 1
SPECIFICATION Spec
INVARIANTS
    TypeOK
    WindowBound
    Supervised
    ClosedIsQuiet
    RetryBound
    NoIdleQueue
    DeferredAckTimed
CHECK_DEADLOCK FALSE
