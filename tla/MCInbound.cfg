SPECIFICATION Spec
CONSTANTS
    Absent = Absent
    Messages <- AllMessages
    Shared <- SharedMessages
    MaxRetries = 3
    MaxMessages = 2
    MaxFaults = 1
CHECK_DEADLOCK FALSE
INVARIANTS TypeOK FieldCurrent OncePerMessage EventsInOrder AnnouncedIsStored
