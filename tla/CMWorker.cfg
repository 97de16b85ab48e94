SPECIFICATION FairSpec
CONSTANTS
    t1 = t1
    t2 = t2
    d1 = d1
    NoThread = NoThread
    Threads <- MCThreads
    Diags <- NoDiags
    MaxRetries = 2
    FloatLimit = 3
    BackoffBound = 5
    TimelyThreads = FALSE
INVARIANTS
    AtMostOneWorker
    ConnectedMeansOpenSession
    StopIsAtomicToReaders
    GivingUpIsVisible
PROPERTIES
    ParkedWorkerObeysStop
    StoppedWorkerExits
    WorkerReconnects
    ImplementsLifecycle
