CONSTANTS
    MaxRequests = 4
    Methods <- AllMethods
    RecogMethods <- AllRecogMethods
    RecorderMethods <- AllRecorderMethods
    VerifierMethods <- AllVerifierMethods
    MaxRecogRequests = 3
    Pipeline = TRUE
    QueueRecognizes = TRUE
SPECIFICATION ResourceSpec
INVARIANTS
    InProgressMatchesState
    ReportedOnce
PROPERTIES
    ServedUndisturbed
CHECK_DEADLOCK FALSE
