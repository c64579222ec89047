CONSTANTS
    p1 = p1
    p2 = p2
    k1 = k1
    k2 = k2
    Producers <- MCProducers
    Keys <- MCKeys
    Operator = operator
    MaxReplays = 1
    MaxFaults = 0
SPECIFICATION Spec
INVARIANT ReplayFailsOnlyOnFault
