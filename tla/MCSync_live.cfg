CONSTANTS
    c1 = c1
    c2 = c2
    Clients = {c1}
    Faults = {"accept", "read", "write", "signal"}
    MaxWorld = 1
    MaxVer = 3
    MaxChats = 1
SPECIFICATION Spec
CHECK_DEADLOCK FALSE
INVARIANTS
    TypeOK
    SessionsExist
    WriteExclusive
    FailedIsSilent
PROPERTIES
    MainEnds
    SentIsWritten
