CONSTANTS
    c1 = c1
    c2 = c2
    Conns = {c1, c2}
    Scripts <- MCScripts
    Threads = 2
    Faults = {"bind", "accept"}
SPECIFICATION Spec
CHECK_DEADLOCK FALSE
INVARIANTS
    TypeOK
    InStep
    AsDocumented
    TogglesCount
PROPERTIES
    Served
    ConnectionsEnd
