SPECIFICATION FairSpec
CONSTANTS
    Repos <- MCRepos
    OrgRepos = {1, 2}
    Requested = {2}
    PageSize = 1
    Commits <- MCCommits
    Files <- MCFiles
    Targets <- MCTargets
    Tree <- MCTree
    Packages = {"d", "p", "pa", "pab", "q"}
    Versions = {"v1", "v2"}
    Root = 1
    Lock = 2
    Modules = 3
    MaxRequests = 14
    MaxRetries = 1
    MaxRepositories = 2
    MaxNodes = 7
    MaxEvents = 2
    None = None
CHECK_DEADLOCK FALSE
INVARIANTS
    CompleteIsWhole
    ScannedAtPin
    EvidenceIsNotTopology
    LimitPublishesNothing
PROPERTY
    RunEnds
