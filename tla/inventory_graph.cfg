SPECIFICATION Spec
CONSTANTS
    NodeIds <- MCNodeIds
    SelfLoops = {2}
CHECK_DEADLOCK FALSE
INVARIANTS
    ComponentsAreStrong
    DependenciesFirst
PROPERTY NothingTwice
