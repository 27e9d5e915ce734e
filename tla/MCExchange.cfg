SPECIFICATION Spec
CONSTANTS
    Requests <- MCRequests
    Responses <- MCResponses
    Answers <- MCAnswers
    Sizes = {0, 1, 2, 3}
    MaxOffload = 2
INVARIANTS
    TypeOK
    ClientStaysInStep
    PersistsOnlyIfAsked
    UpstreamIsReleased
CHECK_DEADLOCK FALSE
