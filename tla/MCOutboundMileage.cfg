SPECIFICATION Spec
CONSTANTS
    Absent = Absent
    None = None
    Again = Again
    Numerals <- MCNumerals
    FieldValues <- MCFieldValues
    Fields <- OdometerField
    KnownCommands = {}
    OtherCommands = {}
    MaxSets = 0
    MaxPushes = 0
    MaxFaults = 0
CHECK_DEADLOCK FALSE
INVARIANTS MileageSent
