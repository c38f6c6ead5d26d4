SPECIFICATION Spec
CONSTANTS
    Starts = {c1, c2}
    Stops = {p1, p2}
    None = none
    SpawnMayFail = FALSE
SYMMETRY CallSymmetry
INVARIANTS
    TypeOK
    ChildReachable
    SettledStateIsTrue
CHECK_DEADLOCK FALSE
