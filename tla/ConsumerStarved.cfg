CONSTANTS
    r1 = r1
    r2 = r2
    g1 = g1
    k1 = k1
    k2 = k2
    RetryManager = retryManager
    Replicas <- MCOneReplica
    Groups <- MCOneGroup
    Keys <- MCKeys
    Wants <- MCWantsAll
    Poison <- MCPoison
    BatchSize = 1
    ScanSize = 2
    RetryEnabled = TRUE
    SlowHandlers = FALSE
    MaxMessages = 3
    MaxFaults = 1
SPECIFICATION FairSpec
PROPERTY PendingIsRecovered
