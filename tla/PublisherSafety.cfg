CONSTANTS
    p1 = p1
    p2 = p2
    k1 = k1
    k2 = k2
    Producers <- MCProducers
    Keys <- MCKeys
    Operator = operator
    MaxReplays = 1
    MaxFaults = 2
SPECIFICATION FairSpec
INVARIANT DispatchedOnce
INVARIANT OkIsFinal
PROPERTY RecordedIsDispatched
PROPERTY ContractSpec
