SPECIFICATION TalkingSpec
CONSTANTS
    MaxBytes = 2
    MaxWaiting = 3
    MaxHandlers = 2
CHECK_DEADLOCK FALSE
INVARIANTS TypeOK PortOutlivesReader OneCommandLost WritesMeetPort
PROPERTIES GracefulShutdown NoLateHandler
