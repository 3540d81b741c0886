CONSTANTS
  N = 4
  Problems <- TestProblems
  Tier1 = 1
  ConflictLimit = 3
  ClueueSize = 2
  ReduceInt = 1
  RephaseInt = 1
SPECIFICATION FairSpec
INVARIANT ClausesImplied
INVARIANT AnswerRight
INVARIANT WatchedTwice
INVARIANT NoMissedConflict
INVARIANT NothingLost
INVARIANT NoneSkipped
INVARIANT ReasonsHold
INVARIANT NoMissedUnit
PROPERTY Terminates
