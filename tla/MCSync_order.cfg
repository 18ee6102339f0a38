CONSTANTS
    c1 = c1
    c2 = c2
    Clients = {c1, c2}
    Faults = {}
    MaxWorld = 3
    MaxVer = 5
    MaxChats = 0
SPECIFICATION Spec
CHECK_DEADLOCK FALSE
SYMMETRY ClientSymmetry
INVARIANTS
    FullComesFirst
    PatchesFit
    UpToDate
PROPERTIES
    NeverBackwards
