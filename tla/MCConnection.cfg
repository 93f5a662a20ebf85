SPECIFICATION Spec
CONSTANTS
    Channels = {c1, c2}
    MaxConnections = 2
    MaxRequests = 2
    MaxSharedUse = 1
    OfferNew = FALSE
    ForceNew = FALSE
    RequestTimeout = TRUE
    TerminationTimeout = TRUE
INVARIANTS
    NoUseAfterDestroy
    NoLeak
    AnsweredAtMostOnce
CHECK_DEADLOCK FALSE
