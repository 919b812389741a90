SPECIFICATION Spec
CONSTANTS
    Absent = Absent
    None = None
    Again = Again
    Numerals <- MCNumerals
    FieldValues <- MCFieldValues
    Fields <- VehicleField
    KnownCommands = {}
    OtherCommands = {}
    MaxSets = 1
    MaxPushes = 0
    MaxFaults = 0
CHECK_DEADLOCK FALSE
INVARIANTS CurrentStateSent
