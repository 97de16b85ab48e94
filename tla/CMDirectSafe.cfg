SPECIFICATION FairSpec
CONSTANTS
    t1 = t1
    t2 = t2
    d1 = d1
    NoThread = NoThread
    Threads <- MCThreads
    Diags <- OneDiag
    MaxRetries = 1
    FloatLimit = 1
    BackoffBound = 2
    TimelyThreads = TRUE
PROPERTIES
    LifecycleCallsReturn
