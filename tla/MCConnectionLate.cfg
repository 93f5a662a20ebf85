SPECIFICATION Spec
CONSTANTS
    Channels = {c1, c2}
    MaxConnections = 1
    MaxRequests = 2
    MaxSharedUse = 2
    OfferNew = FALSE
    ForceNew = FALSE
    RequestTimeout = TRUE
    TerminationTimeout = TRUE
INVARIANTS RemainingIsUnhandled
CHECK_DEADLOCK FALSE
