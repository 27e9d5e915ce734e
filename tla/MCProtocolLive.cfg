SPECIFICATION Spec
CONSTANTS
    Kinds = {"plain", "upgrade"}
    Bodies = {"stream"}
    IdleTimeout = TRUE
    RequestTimeout = TRUE
    RateLimit = FALSE
    MaxRequests = 2
    MaxChunks = 1
PROPERTIES
    RequestsAreAnswered
    DrainEndsConnection
    SilenceEndsConnection
CHECK_DEADLOCK FALSE
