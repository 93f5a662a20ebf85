SPECIFICATION FairSpec
CONSTANTS
    Channels = {c1, c2}
    MaxConnections = 1
    MaxRequests = 2
    MaxSharedUse = 2
    OfferNew = FALSE
    ForceNew = FALSE
    RequestTimeout = FALSE
    TerminationTimeout = TRUE
PROPERTIES
    ConnectionSettles
CHECK_DEADLOCK FALSE
