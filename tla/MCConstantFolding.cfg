SPECIFICATION Spec
CONSTANTS
    NodeIds <- Four
    Order <- FourInOrder
    Fresh <- Spare
    GraphInputs <- InputNames
    Weights <- WeightNames
    GraphOutputs <- OutputNames
    WiringChoices <- SomeWirings
    KindChoices <- SomeKinds
    BrokenChoices <- AtMostOneBroken
    Bytes <- SomeBytes
    BatchBytes = 3
    BatchNodes = 4
    Capacity = 2
    MaxFlakes = 1
    MaxSurvivors = 1
INVARIANTS
    WellFormed
    ProvenanceKept
    WeightsUntouched
    FoldsAsOneByOne
    ConvergedIsComplete
PROPERTY
    Terminates
