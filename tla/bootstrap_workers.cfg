SPECIFICATION FairSpec
CONSTANTS
    Runs = {r1, r2}
    Workers = {k1, k2}
    Pairs <- TwoOrganizations
    ReposOf <- TwoOrganizationsRepos
    Needs <- Sourced
    Overlap = FALSE
    SkipTopics = {r1, r2}
    MaxSha = 2
    MaxFaults = 1
    MaxHuman = 0
    Rejected = Rejected
    None = None
    dotgithub = dotgithub
    harness = harness
    second = second
    alpha = alpha
    beta = beta
INVARIANT OnePinPerRun
PROPERTY ReRunsAreQuiet
PROPERTY AttemptsConverge
CHECK_DEADLOCK FALSE
