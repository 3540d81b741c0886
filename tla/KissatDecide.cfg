CONSTANTS
  N = 4
  Instances <- TestInstances
  Vsids = "scores"
  Chb = "scores_chb"
  MaxStamp = 5
  One = 1
  MaxScore = 2
  MaxChb = 1
SPECIFICATION Spec
INVARIANT DecisionIsBest
INVARIANT StructuresSound
