SPECIFICATION Spec
INVARIANTS
    TaskTreeConsistent
    PollerReliable
    MessagesExact
    ParamsObeyed
PROPERTIES
    ToolkitProgress
CHECK_DEADLOCK FALSE
