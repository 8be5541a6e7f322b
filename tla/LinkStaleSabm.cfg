CONSTANTS
    s1 = s1
    s2 = s2
    Station = {s1, s2}
    Callers = {s1}
    Listeners = {s2}
    Senders = {s1, s2}
    Repliers = {}
    Closers = {}
    Destroyers = {}
    PrematureT1 = {"CONNECTING"}
    PrematureT3 = FALSE
    Data = {1,2}
    NoData = NoData
    Modulus = 3
    Window = 2
    N2 = 1
    MaxConnects = 1
    MaxSend = 2
    MaxLoss = 0
    MaxPolls = 2
    MaxInFlight = 4
SPECIFICATION Spec
PROPERTIES
    NoSilentLoss
CHECK_DEADLOCK FALSE
