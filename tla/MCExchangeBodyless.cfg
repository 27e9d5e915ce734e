SPECIFICATION Spec
CONSTANTS
    Requests <- MCRequests
    Responses <- EmptyResponses
    Answers <- EmptyResponses
    Sizes = {0, 1, 2, 3}
    MaxOffload = 2
INVARIANT
    BodylessHasNoBody
CHECK_DEADLOCK FALSE
