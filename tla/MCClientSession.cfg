SPECIFICATION FairSpec
CONSTANTS
    Channels = {1, 2}
    MediaChannels = {1}
    Scripts <- Sessions
INVARIANTS
    AnsweredInOrder
    NothingLeft
PROPERTIES
    SubrequestsExact
    RequestsAnswered
CHECK_DEADLOCK FALSE
