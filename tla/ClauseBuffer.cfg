SPECIFICATION FairSpec
CONSTANTS
  Producers = {p1}
  Consumers = {c1}
  Nodes = {n1, n2, n3}
  NULL = NULL
  MaxAdds = 4
INVARIANTS NoUseAfterFree
PROPERTIES Implements NoFalseEmpty Delivered
