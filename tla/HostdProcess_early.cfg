SPECIFICATION FairSpec
CONSTANTS
    Starts = {c1}
    Stops = {p1}
    None = none
    SpawnMayFail = FALSE
PROPERTIES
    StopEndsStreaming
CHECK_DEADLOCK FALSE
