\* A lossy, reordering network. hostd is started twice, and datagrams of its
\* first run arrive during the second; or once, with decoder and sink failures.
SPECIFICATION PartsSpec
CONSTANTS
    Streams = {1, 2}
    NoStream = 0
    MaxSeq = 20
    MaxWindow = 6
    FastLockOn = TRUE
    StartupBuffer = 3
    StartupLead = 1
    SteadyTarget = 2
    SteadyAfter = 2
    LateDropOn = FALSE
    MaxCatchup = 1
    StaleDropOn = TRUE
    MinTarget = 1
    MaxTarget = 3
    MaxReceived = 20
    NumStreams = 2
    NumFrames = 7
    MaxDelay = 2
    MaxBurst = 1
    CleanTail = 3
    Faults = FALSE
INVARIANTS
    PathTypeOK
PROPERTIES
    TailHeard
