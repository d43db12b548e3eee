SPECIFICATION Spec
CONSTANTS
  Size = 3
  Weights <- TwoWeights
INVARIANT
  IsShortest
PROPERTY
  DoesStages
CHECK_DEADLOCK FALSE
