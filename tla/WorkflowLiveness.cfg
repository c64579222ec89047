CONSTANTS
    r1 = r1
    r2 = r2
    m1 = m1
    m2 = m2
    Runners <- MCRunners
    Workflows <- MCWorkflows
    Mentions <- MCMentions
    Matches <- MCMatches
    Qualifies = {}
    Chain <- MCShortChain
    Configured <- MCConfigured
    Cap = 1
    MaxAged = 0
    MaxFaults = 1
SPECIFICATION FairSpec
CHECK_DEADLOCK FALSE
PROPERTY ExecutionEnds
PROPERTY EveryMatchRuns
