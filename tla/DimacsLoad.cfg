SPECIFICATION Spec
CONSTANTS
  Solvers = {1, 2}
  MaxLen = 5
  Texts <- MCTexts
CHECK_DEADLOCK FALSE
INVARIANTS ReadsTheNumbers
PROPERTY LoadsWellFormed
