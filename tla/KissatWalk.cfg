CONSTANTS
  N = 4
  Instances <- TestInstances
  INVALID_BEST = INVALID_BEST
SPECIFICATION Spec
INVARIANT CountersExact
INVARIANT SavedIsBest
