SPECIFICATION Spec
CONSTANTS
    Keys = {a, b}
    Rate = 2
    Burst = 5
    Cost = 3
    MaxIdle = 3
    MaxTime = 7
INVARIANTS
    TypeOK
    WithinRate
PROPERTY
    ImplementsBuckets
CHECK_DEADLOCK FALSE
