SPECIFICATION Spec
CONSTANTS
    Inputs = {1}
    Outputs = {7}
    Heads = {"Conv"}
    Tails = {"Relu"}
    Changes <- MCChanges
INVARIANTS
    FoundBoundary
    FewEvaluations
    
    
    UnitsDisjoint
CHECK_DEADLOCK FALSE
