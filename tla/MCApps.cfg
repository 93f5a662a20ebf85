SPECIFICATION Spec
INVARIANTS
    AppsObjectsAlive
    AppsRequestsInOrder
    
PROPERTIES
    AppsSessionsEnd
CHECK_DEADLOCK FALSE
