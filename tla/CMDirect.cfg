SPECIFICATION Spec
CONSTANTS
    t1 = t1
    t2 = t2
    d1 = d1
    NoThread = NoThread
    Threads <- MCThreads
    Diags <- OneDiag
    MaxRetries = 2
    FloatLimit = 3
    BackoffBound = 5
    TimelyThreads = TRUE
INVARIANT
    ConnectedMeansOpenSession
