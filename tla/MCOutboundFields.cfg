SPECIFICATION Spec
CONSTANTS
    Absent = Absent
    None = None
    Again = Again
    Numerals <- MCNumerals
    FieldValues <- MCFieldValues
    Fields <- MixedFields
    KnownCommands = {}
    OtherCommands = {}
    MaxSets = 2
    MaxPushes = 0
    MaxFaults = 2
CHECK_DEADLOCK FALSE
INVARIANTS TypeOK MirrorCurrent LevelRequested
