SPECIFICATION FairAppSpec
CONSTANTS
    t1 = t1
    NoThread = NoThread
    Threads <- OneThread
    Diags <- NoDiags
    MaxRetries = 2
    FloatLimit = 2
    BackoffBound = 3
    TimelyThreads = FALSE
    RawBars <- SomeBars
INVARIANTS
    HealthyMeansSession
    GateHolds
    ReadsAreUndisturbed
    BarsAscendingLatest
PROPERTIES
    RequestsAnswered
    ServiceRestored
