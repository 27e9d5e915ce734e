SPECIFICATION Spec
CONSTANTS
    Kinds = {"plain"}
    Bodies = {"none"}
    IdleTimeout = TRUE
    RequestTimeout = TRUE
    RateLimit = FALSE
    MaxRequests = 2
    MaxChunks = 0
PROPERTY
    IdleCloseSparesRequests
CHECK_DEADLOCK FALSE
