CONSTANTS
    r1 = r1
    r2 = r2
    m1 = m1
    m2 = m2
    Runners <- MCRunners
    Workflows <- MCWorkflows
    Mentions <- MCMentions
    Matches <- MCMatches
    Qualifies <- MCQualifies
    Chain <- MCChain
    Configured <- MCConfigured
    Cap = 1
    MaxAged = 1
    MaxFaults = 1
SPECIFICATION Spec
SYMMETRY MCSymmetry
CHECK_DEADLOCK FALSE
INVARIANT CapOverrunBounded
INVARIANT RunsOncePerMention
INVARIANT OneLeadPerMention
INVARIANT ReportIsTrue
PROPERTY ExecutionsAreFinal
