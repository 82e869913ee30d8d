SPECIFICATION FairSpec
CONSTANTS
    Runs = {"rest", "graphql"}
    p1 = p1
    PRs = {p1}
    MaxHead = 1
    MaxEvents = 3
    MaxLosses = 2
    MaxPolls = 2
    Sound <- MCSound
    None = None
CHECK_DEADLOCK FALSE
INVARIANTS
    MergedWasValidated
    NoneLeftPromoted
    ObjectionsStop
PROPERTY
    RunEnds
