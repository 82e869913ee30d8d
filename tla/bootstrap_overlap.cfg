SPECIFICATION Spec
CONSTANTS
    Runs = {r1, r2}
    Workers = {k1}
    Pairs <- OneOrganization
    ReposOf <- OneOrganizationRepos
    Needs <- Sourced
    Overlap = TRUE
    SkipTopics = {r1}
    MaxSha = 2
    MaxFaults = 1
    MaxHuman = 2
    Rejected = Rejected
    None = None
    dotgithub = dotgithub
    harness = harness
    second = second
    alpha = alpha
    beta = beta
INVARIANT CleanExitBootstraps
INVARIANT PinsInOrder
PROPERTY NeverRewritten
CHECK_DEADLOCK FALSE
