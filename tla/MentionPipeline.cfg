CONSTANTS
    p1 = p1
    p2 = p2
    p3 = p3
    Posts <- MCPosts
    Story <- MCStory
    TooShort <- MCTooShort
    Modes <- MCModes
    Allowance = 1
    BackfillLimit = 1
SPECIFICATION FairSpec
INVARIANTS
    DuplicateRowsNeedOverlap
    SecondLeadOnlyIfRescored
    HotMentionHasLead
    DecidedIsHanded
    ProcessedIsScored
PROPERTIES
    VerdictStands
    EventuallyScored
