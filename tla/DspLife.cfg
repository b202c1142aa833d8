SPECIFICATION FairSpec
CONSTANTS
  Loads = {l1, l2, l3}
  MaxFailures = 3
  l1 = l1
  l2 = l2
  l3 = l3
INVARIANT TypeOK
INVARIANT NothingForgotten
INVARIANT Watched
PROPERTY Recovers
CHECK_DEADLOCK FALSE
