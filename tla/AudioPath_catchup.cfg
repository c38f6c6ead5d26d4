\* Latency is measured above the threshold once; nothing is lost or refused.
SPECIFICATION PathSpec
CONSTANTS
    Streams = {1}
    NoStream = 0
    MaxSeq = 20
    MaxWindow = 6
    FastLockOn = TRUE
    StartupBuffer = 3
    StartupLead = 1
    SteadyTarget = 2
    SteadyAfter = 2
    LateDropOn = TRUE
    MaxCatchup = 2
    StaleDropOn = FALSE
    MinTarget = 1
    MaxTarget = 3
    MaxReceived = 20
    NumStreams = 1
    NumFrames = 10
    MaxDelay = 1
    MaxBurst = 0
    CleanTail = 3
    Faults = FALSE
INVARIANTS
    SmallCatchUp
