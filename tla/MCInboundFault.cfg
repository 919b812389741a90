SPECIFICATION Spec
CONSTANTS
    Absent = Absent
    Messages <- StatusMessages
    Shared = {}
    MaxRetries = 3
    MaxMessages = 2
    MaxFaults = 0
CHECK_DEADLOCK FALSE
INVARIANTS FaultShown
