SPECIFICATION Spec
CONSTANTS
  N = 2
  SAT = SAT
  UNSAT = UNSAT
  UNKNOWN = UNKNOWN
  Truth = UNSAT
  TimeoutSet = FALSE
  EarlyAnswer = FALSE
  SpuriousWakeups = FALSE
INVARIANT NoUseAfterDelete
