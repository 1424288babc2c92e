SPECIFICATION Spec
CONSTANTS
    a1 = a1
    a2 = a2
    b1 = b1
    A = A
    B = B
    Workers = {a1, a2, b1}
    Processes = {A, B}
    ProcessOf <- TwoAndOne
    Keys = {1, 2}
    Cached = {1}
    Jobs = 1
    Limit = 1
    MaxAttempts = 2
    MaxRequests = 3
    MaxCrashes = 1
    MaxErrors = 1
    SlowCompiles = FALSE
    None = None
INVARIANTS
    TypeOK
    NeverMixed
    CompilesAlone
    WaitsAndReuses
PROPERTY
    Answered
CHECK_DEADLOCK FALSE
