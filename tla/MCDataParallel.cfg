SPECIFICATION Spec
CONSTANTS
    N = 3
    NumSteps = 2
    None = None
INVARIANTS
    ReturnsClean
    AbandonedOnlyBehindDead
PROPERTIES
    Synchronous
    Finishes
CHECK_DEADLOCK FALSE
