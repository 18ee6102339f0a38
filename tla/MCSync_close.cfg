CONSTANTS
    c1 = c1
    c2 = c2
    Clients = {c1}
    Faults = {"accept", "read", "write", "signal"}
    MaxWorld = 1
    MaxVer = 1
    MaxChats = 0
SPECIFICATION Spec
CHECK_DEADLOCK FALSE
INVARIANT
    CloseIsClean
