\* One outage that loses more frames in a row than the jitter window spans,
\* then a clean network.
SPECIFICATION FairPathSpec
CONSTANTS
    Streams = {1}
    NoStream = 0
    MaxSeq = 20
    MaxWindow = 3
    FastLockOn = FALSE
    StartupBuffer = 2
    StartupLead = 1
    SteadyTarget = 2
    SteadyAfter = 2
    LateDropOn = FALSE
    MaxCatchup = 1
    StaleDropOn = FALSE
    MinTarget = 1
    MaxTarget = 2
    MaxReceived = 20
    NumStreams = 1
    NumFrames = 12
    MaxDelay = 1
    MaxBurst = 5
    CleanTail = 6
    Faults = FALSE
PROPERTIES
    TailHeard
