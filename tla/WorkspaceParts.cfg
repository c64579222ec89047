CONSTANTS
    x = x
    y = y
    m1 = m1
    w1 = w1
    l1 = l1
    l2 = l2
    Subs <- Two
    Hooks <- Two
    Creators <- Two
    KeywordLimit <- MCKeywordLimit
    MaxEvents = 3
    Crowded = 2
    Calls <- Two
    MaxAttempts = 3
    Purse = 1
    Senders <- Two
    Horizon = 1
    DueWindow = 2
    MinGap = 2
    MaxClaims = 2
    Runners <- Two
    Arrivals <- One
    LastInstant = 4
    RunWindow = 1
    RunGap = 2
    Lookback = 3
    RunTime = 1
    Requests <- Two
    Stores <- Two
    Readers <- Two
    Writers <- Writer1
    CacheTTL = 1
    LastSecond = 2
    MaxVersion = 1
    Leads <- TwoLeads
    Actors <- Two
    Processes <- Two
    Deployments <- MCDeployments
    DailyCap = 1
    WithEmail <- HasEmail
    Wanted <- MCWanted
    MaxHappenings = 3
SPECIFICATION PartsSpec
SYMMETRY Interchangeable
\* A history within the bounds ends; an answered chat action is over.
CHECK_DEADLOCK FALSE
INVARIANTS
    PartsTypeOK
    AllowanceOncePerPeriod
    PlanMatchesDodo
    KeywordOverrunBounded
    PaidOnceAtTreg
    ChargedForAnswer
    SentOncePerPeriod
    GapKept
    NoMentionHidden
    ToolRunsAtMostOnce
    StalenessBounded
    EnrichCapHolds
    PaidOncePerLead
    StageStands
    OneContactPerLead
    ContactNotBehind
