CONSTANTS
    a1 = a1
    a2 = a2
    api = api
    l1 = l1
    l2 = l2
    Leads <- TwoLeads
    Actors <- TwoActors
    Processes <- OneProcess
    Deployments <- Together
    DailyCap = 1
    WithEmail <- NoEmail
    Wanted <- NothingWanted
    MaxHappenings = 2
SPECIFICATION LeadSpec
\* A history within the bounds ends.
CHECK_DEADLOCK FALSE
INVARIANT CapNeverOverrun
