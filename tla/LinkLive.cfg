CONSTANTS
    s1 = s1
    s2 = s2
    Station = {s1, s2}
    Callers = {s1}
    Listeners = {s2}
    Senders = {s1}
    Repliers = {}
    Closers = {s1}
    Destroyers = {s2}
    PrematureT1 = {}
    PrematureT3 = FALSE
    Data = {1,2}
    NoData = NoData
    Modulus = 2
    Window = 1
    N2 = 1
    MaxConnects = 1
    MaxSend = 2
    MaxLoss = 2
    MaxPolls = 6
    MaxInFlight = 8
SPECIFICATION FairSpec
PROPERTIES
    ChunksLeave
    Settles
    HalfOpenEnds
CHECK_DEADLOCK FALSE
