CONSTANTS
    Width = 4
    Window = 2
    MaxTime = 7
SPECIFICATION Spec
CHECK_DEADLOCK FALSE
INVARIANTS
    TypeOK
    RateIsAverage
    WindowBounded
    WarmsUp
