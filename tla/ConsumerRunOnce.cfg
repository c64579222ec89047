CONSTANTS
    r1 = r1
    r2 = r2
    g1 = g1
    k1 = k1
    k2 = k2
    RetryManager = retryManager
    Replicas <- MCOneReplica
    Groups <- MCOneGroup
    Keys <- MCOneKey
    Wants <- MCWantsAll
    Poison <- MCNoPoison
    BatchSize = 1
    ScanSize = 4
    RetryEnabled = TRUE
    SlowHandlers = FALSE
    MaxMessages = 1
    MaxFaults = 1
SPECIFICATION Spec
INVARIANT RunOnce
