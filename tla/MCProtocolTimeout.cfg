SPECIFICATION Spec
CONSTANTS
    Kinds = {"plain"}
    Bodies = {"stream"}
    IdleTimeout = TRUE
    RequestTimeout = TRUE
    RateLimit = FALSE
    MaxRequests = 2
    MaxChunks = 1
PROPERTY
    TimeoutsComeBetweenResponses
CHECK_DEADLOCK FALSE
