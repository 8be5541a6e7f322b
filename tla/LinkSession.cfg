CONSTANTS
    s1 = s1
    s2 = s2
    Station = {s1, s2}
    Callers = {s1, s2}
    Listeners = {s1, s2}
    Senders = {s1}
    Repliers = {s2}
    Closers = {s1}
    Destroyers = {s2}
    PrematureT1 = {"CONNECTED"}
    PrematureT3 = FALSE
    Data = {1,2,3}
    NoData = NoData
    Modulus = 3
    Window = 2
    N2 = 1
    MaxConnects = 1
    MaxSend = 3
    MaxLoss = 1
    MaxPolls = 1
    MaxInFlight = 4
SPECIFICATION Spec
INVARIANTS
    TypeOK
    Consecutive
    WindowsAgree
PROPERTIES
    NoSilentLoss
    ImplementsService
CHECK_DEADLOCK FALSE
