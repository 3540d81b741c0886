SPECIFICATION TimedSpec
CONSTANTS
  N = 2
  SAT = SAT
  UNSAT = UNSAT
  UNKNOWN = UNKNOWN
  Truth = SAT
  TimeoutSet = TRUE
  EarlyAnswer = FALSE
  SpuriousWakeups = TRUE
INVARIANTS TypeOK QuietExit ClaimedIsPrinted ModelPrinted NoAbort
PROPERTIES Implements StickyVerdict Termination
