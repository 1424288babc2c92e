CONSTANTS
  Models <- TwoModels
  TransformChoices <- MixedChoices
  OptionChoices <- OneOff
  IterChoices = {0, 1, 2}
  NoModel = NoModel
SPECIFICATION SimplifySpec
CHECK_DEADLOCK FALSE
INVARIANTS
  NoWarningMeansSettled
  RewriterNoWarningMeansSettled
  SimplifiedStaysSimplified
PROPERTY SimplifyTerminates
