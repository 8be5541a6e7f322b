CONSTANTS
    Mode = {"bridge"}
    Methods = {"RTS"}
    Backend = "alsa"
    Conns = {"c1"}
    MaxFrames = 1
    Chunks = 1
    RingCap = 2
    PttFaults = {}
    AudioFaults = FALSE
SPECIFICATION Spec
PROPERTY Stops
