SPECIFICATION Spec
INVARIANTS
    DigitsOnce
    MediaFlowsAsNegotiated
    PeersAgree
    RtpHousekeeping
    FramesInTime
PROPERTIES
    PlaysInOrder
    DetectorsReliable
CHECK_DEADLOCK FALSE
