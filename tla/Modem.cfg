CONSTANTS
    Mode = {"bridge", "test_ptt", "test_tx"}
    Methods = {"RTS"}
    Backend = "coreaudio"
    Conns = {"c1"}
    MaxFrames = 3
    Chunks = 1
    RingCap = 2
    PttFaults = {"test_ptt", "test_tx"}
    AudioFaults = FALSE
SPECIFICATION Spec
INVARIANTS TypeOK HostOrder ReleasedAtExit
PROPERTIES PlaysKeyed StopsIfWoken FramesLeave
