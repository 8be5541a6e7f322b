CONSTANTS
    a = a
    b = b
    Clients <- MCClients
    Slow <- MCSlow
    Kinds = {"BLE", "BT"}
    Modes = {"pty", "tcp", "test"}
    MaxReconnects = 1
    MaxFd = 5
SPECIFICATION Spec
INVARIANTS Inv NoLeak
PROPERTIES KeptClients EndsForCause LossNoticed Ends
