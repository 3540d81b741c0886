SPECIFICATION Spec
CONSTANTS
  N = 4
  Tumble = TRUE
  XorSize = 3
  Extra = 0
  MaxLearned = 1
  LearnedSize = 3
  Formulas <- Everything
INVARIANT ModelExtended
INVARIANT NoModelLost
INVARIANT LearnedImplied
INVARIANT ImportsAgree
CHECK_DEADLOCK FALSE
