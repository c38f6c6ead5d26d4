SPECIFICATION FairSpec
CONSTANTS
    Starts = {c1, c2}
    Stops = {p1}
    None = none
    SpawnMayFail = TRUE
PROPERTIES
    StopKills
    StoppingEnds
CHECK_DEADLOCK FALSE
