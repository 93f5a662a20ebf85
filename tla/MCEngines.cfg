CONSTANTS
    MaxRequests = 3
    MaxChunks = 1
SPECIFICATION Spec
INVARIANTS
    ResponseThenEvent
PROPERTIES
    UndividedIsSafe
    AnsweredUndisturbed
CHECK_DEADLOCK FALSE
