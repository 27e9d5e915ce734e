SPECIFICATION Spec
CONSTANTS
    MaxClient = 3
    MaxUpstream = 2
    RequestTimeout = TRUE
INVARIANTS
    TypeOK
PROPERTIES
    ImplementsPipeUp
    ImplementsPipeDown
    ChunksArrive
    EndsArrive
    UpstreamIsReleased
CHECK_DEADLOCK FALSE
