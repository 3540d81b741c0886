SPECIFICATION Spec
CONSTANTS
  s1 = s1
  s2 = s2
  Solvers = {s1, s2}
  Initial <- MCInitial
  MaxCalls = 4
CHECK_DEADLOCK FALSE
INVARIANTS RefsMatchHolders SettledMembership
PROPERTY RequestsServed
