\* hostd is started twice; the configuration of clientd, scaled: FastLock,
\* catch-up and the stale drop are on. Safety only: nothing is fair.
SPECIFICATION PathSpec
CONSTANTS
    Streams = {1, 2}
    NoStream = 0
    MaxSeq = 20
    MaxWindow = 6
    FastLockOn = TRUE
    StartupBuffer = 3
    StartupLead = 1
    SteadyTarget = 2
    SteadyAfter = 2
    LateDropOn = TRUE
    MaxCatchup = 1
    StaleDropOn = TRUE
    MinTarget = 1
    MaxTarget = 3
    MaxReceived = 20
    NumStreams = 2
    NumFrames = 5
    MaxDelay = 2
    MaxBurst = 1
    CleanTail = 0
    Faults = TRUE
INVARIANTS
    BacklogBounded
    FastLockNeverJumps
