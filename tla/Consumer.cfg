CONSTANTS
    r1 = r1
    r2 = r2
    g1 = g1
    k1 = k1
    k2 = k2
    RetryManager = retryManager
    Replicas <- MCOneReplica
    Groups <- MCOneGroup
    Keys <- MCKeys
    Wants <- MCWantsAll
    Poison <- MCPoison
    BatchSize = 2
    ScanSize = 4
    RetryEnabled = TRUE
    SlowHandlers = TRUE
    MaxMessages = 2
    MaxFaults = 2
SPECIFICATION FairSpec
INVARIANT AcknowledgedIsHandled
PROPERTY EventuallyProcessed
