SPECIFICATION Spec
CONSTANTS
    Builders = {b1, b2}
    Files = {discovery, index, pkg}
    NoFile = NoFile
    Missing = Missing
    NoTree = NoTree
\* every builder ends
CHECK_DEADLOCK FALSE
INVARIANTS
    SuccessMeansPublished
    FailureRestores
PROPERTY
    ImplementsAtomic
