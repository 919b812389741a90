SPECIFICATION FairSpec
CONSTANTS
    Absent = Absent
    None = None
    Pins <- MCPins
    MaxShows = 2
    MaxDismissals = 1
    MaxRemoves = 1
    MaxFaults = 1
CHECK_DEADLOCK FALSE
INVARIANTS TypeOK RemovalsCaused PinAgrees
PROPERTIES PinSettles
