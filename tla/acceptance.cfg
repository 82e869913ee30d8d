SPECIFICATION Spec
CONSTANT
    None = None
CHECK_DEADLOCK FALSE
INVARIANTS
    CorrectIsPassed
    FaultsAreSeen
