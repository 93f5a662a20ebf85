SPECIFICATION FairSpec
CONSTANTS
    Offers <- SeveralChannels
    MaxOffers = 2
    MaxControls = 1
    MaxChannels = 2
INVARIANTS
    NothingLeft
PROPERTIES
    SubrequestsExact
    TerminateCompletes
CHECK_DEADLOCK FALSE
