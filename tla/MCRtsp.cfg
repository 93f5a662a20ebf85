SPECIFICATION Spec
INVARIANTS
    RtspSafe
PROPERTIES
    RtspSettles
CHECK_DEADLOCK FALSE
