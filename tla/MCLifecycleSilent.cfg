SPECIFICATION FairSpec
CONSTANTS
    MaxBytes = 2
    MaxWaiting = 3
    MaxHandlers = 2
CHECK_DEADLOCK FALSE
PROPERTIES GracefulShutdown
