SPECIFICATION Spec
CONSTANTS
    Publishers = {p1, p2}
    Kinds = {"release", "packages"}
    MaxRuns = 3
    MaxAttests = 1
    None = None
SYMMETRY Symmetry
CHECK_DEADLOCK FALSE
INVARIANTS
    ReportedWasWhole
    RerunsRepair
    TagIsComplete
