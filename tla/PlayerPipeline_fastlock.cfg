\* The default configuration of PipelineConfig, scaled: FastLock, catch-up and
\* the stale drop are on.
SPECIFICATION Spec
CONSTANTS
    Streams = {A, B}
    NoStream = NoStream
    MaxSeq = 5
    MaxWindow = 3
    FastLockOn = TRUE
    StartupBuffer = 2
    StartupLead = 1
    SteadyTarget = 2
    SteadyAfter = 2
    LateDropOn = TRUE
    MaxCatchup = 1
    StaleDropOn = TRUE
    MinTarget = 1
    MaxTarget = 3
    MaxReceived = 6
SYMMETRY Symmetry
INVARIANTS
    TypeOK
    Window
    Accounting
PROPERTIES
    DrainExhausts
    RefinesOrderedPlayout
