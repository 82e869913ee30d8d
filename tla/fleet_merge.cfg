SPECIFICATION FairSpec
CONSTANTS
    p1 = p1
    p2 = p2
    p3 = p3
    PRs = {p1, p2, p3}
    Searchable = {p1, p2}
    Target = 2
    MaxHead = 1
    MaxEvents = 2
    MaxPolls = 2
    MaxTries = 2
    FilesAt <- MCFilesAt
    SafeHeads <- MCSafeHeads
    None = None
CHECK_DEADLOCK FALSE
INVARIANTS
    NoneLeftPromoted
    ScannedHead
    ExactHead
    IsolatedMerges
    ReportedAreMerged
PROPERTY
    RunEnds
