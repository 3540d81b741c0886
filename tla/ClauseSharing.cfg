SPECIFICATION FairSpec
CONSTANTS
  s1 = s1
  s2 = s2
  s3 = s3
  Solvers = {s1, s2}
  From <- Both
  To <- Both
  Strategies = {"simple", "horde"}
  Clauses = {1, 2, 3}
  Size <- MCSize
  Lbd <- MCLbd
  BucketLimit = 3
  LbdLimit = 2
  LiteralPerRound = 1
  MaxLbd = 3
INVARIANTS RefsMatchHolders NoTouchFreed AtMostOnce
PROPERTY Spread
