CONSTANTS
    p1 = p1
    p2 = p2
    r1 = r1
    g1 = g1
    g2 = g2
    k1 = k1
    Operator = operator
    RetryManager = retryManager
    Producers <- MCProducers
    Replicas <- MCReplicas
    Groups <- MCGroups
    Keys <- MCKeys
    Wants <- MCWants
    Poison <- MCPoison
    BatchSize = 2
    ScanSize = 4
    RetryEnabled = TRUE
    SlowHandlers = FALSE
    MaxReplays = 0
    MaxFaults = 1
SPECIFICATION FairSpec
INVARIANT OkIsNeverLost
INVARIANT RunAgainOnlyIfInterrupted
PROPERTY OkIsProcessed
PROPERTY ContractSpec
