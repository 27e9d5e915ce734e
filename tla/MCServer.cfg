SPECIFICATION SSpec
CONSTANTS
    Conns = {c1, c2, c3}
    MaxConnections = 2
    MaxSignals = 2
    Worker = w1
    Others = {w2}
INVARIANTS
    TypeOK
    CapacityHeld
    SlotsAreLive
PROPERTIES
    ConnectionsFollowLifecycle
    ShutdownEnds
    StopReachesEveryWorker
CHECK_DEADLOCK FALSE
