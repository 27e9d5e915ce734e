SPECIFICATION Spec
CONSTANTS
    Kinds = {"plain", "close", "refused", "upgrade"}
    Bodies = {"none", "bytes", "file", "stream"}
    IdleTimeout = TRUE
    RequestTimeout = TRUE
    RateLimit = TRUE
    MaxRequests = 2
    MaxChunks = 1
INVARIANTS
    TypeOK
    TimersFollowParser
    OpenIsWatched
    LostIsReleased
    WaitersArePaused
    ResponsesInOrder
    AtMostOneLateRequest
PROPERTY
    ImplementsLifecycle
CHECK_DEADLOCK FALSE
