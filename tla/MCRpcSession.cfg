SPECIFICATION Spec
CONSTANTS
    s1 = s1
    s2 = s2
    a = a
    b = b
    f = f
    None = None
    Sessions = {s1, s2}
    Names = {f}
    Contents = {a, b}
    Size <- MCSize
    Plans <- MCPlans
    MaxCalls = 4
    MaxCrashes = 1
    MaxInterrupts = 1
    MaxWorkers = 2
INVARIANTS
    AnswersMatch
    RightModel
    EveryWorkerOwned
    WholeUnlessClash
CHECK_DEADLOCK FALSE
PROPERTIES
    SessionSurvivesErrors
    CallsEnd
    WorkersEnd
