SPECIFICATION Spec
CONSTANTS
    Streams <- MCStreams
    MaxHead = 6
    MaxLine = 3
    MaxBody = 3
    HeadLengths = {2, 3, 5, 7}
    LineLengths = {1, 2, 4}
    TrailerLengths = {0, 2, 7}
    Sizes = {0, 1, 2, 4}
INVARIANTS
    TypeOK
    InStep
    DeliversWhatWasSent
    SameInAnySegments
    BufferBounded
CHECK_DEADLOCK FALSE
