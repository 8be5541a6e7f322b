CONSTANTS
    Progs = {"tnc", "connect", "sim", "monitor", "unproto", "test"}
    Peers = {"p", "q"}
    Calls = {"N1", "N2"}
    FirstCall = "N1"
    MaxConns = 2
SPECIFICATION Spec
INVARIANTS Inv Attended TypedIsData
PROPERTIES HungUp Stops
