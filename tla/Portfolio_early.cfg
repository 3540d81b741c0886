SPECIFICATION SolvingSpec
CONSTANTS
  N = 2
  SAT = SAT
  UNSAT = UNSAT
  UNKNOWN = UNKNOWN
  Truth = SAT
  TimeoutSet = FALSE
  EarlyAnswer = TRUE
  SpuriousWakeups = FALSE
PROPERTIES Implements Termination
