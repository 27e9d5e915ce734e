SPECIFICATION Spec
CONSTANTS
    Streams <- MCStreams
    MaxOrdinary = 2
    MaxMessage = 3
    Sizes = {1, 4}
    MaxWrites = 1
INVARIANTS
    TypeOK
    DeliversMessages
    PongsAnswerPings
    ReaderWaitsForMore
    CloseEndsConnection
CHECK_DEADLOCK FALSE
