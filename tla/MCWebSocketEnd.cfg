SPECIFICATION Spec
CONSTANTS
    Streams <- MCStreams
    MaxOrdinary = 0
    MaxMessage = 3
    Sizes = {1, 4}
    MaxWrites = 0
PROPERTY
    ReaderLearnsOfTheEnd
CHECK_DEADLOCK FALSE
