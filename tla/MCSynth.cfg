CONSTANTS
    MaxRequests = 3
    Methods <- AllMethods
    Pipeline = TRUE
    QueueSpeaks = TRUE
SPECIFICATION SynthSuiteSpec
INVARIANTS
    SpeakerMatchesState
    SpeaksInOrder
PROPERTIES
    AnswersActiveOnce
    DemoKeepsContract
    SynthServes
CHECK_DEADLOCK FALSE
