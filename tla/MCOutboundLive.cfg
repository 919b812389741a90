SPECIFICATION FairSpec
CONSTANTS
    Absent = Absent
    None = None
    Again = Again
    Numerals <- MCNumerals
    FieldValues <- MCFieldValues
    Fields <- VehicleField
    KnownCommands = {stop}
    OtherCommands = {other}
    MaxSets = 2
    MaxPushes = 3
    MaxFaults = 1
CHECK_DEADLOCK FALSE
PROPERTIES Converges CommandsDrain CommandsInOrder
