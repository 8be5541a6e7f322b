CONSTANTS
    Users = {"u1", "u2"}
    Watched = "u1"
    Welcome = {"none", "script"}
    Texts <- MCTexts
    MaxFrames = 4
    MaxBatch = 2
    MaxVr = 2
SPECIFICATION Spec
INVARIANTS Inv
PROPERTIES LiveKept ClosedReaped Stops
