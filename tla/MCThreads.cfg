SPECIFICATION FairSpec
CONSTANTS
  N = 3
INVARIANTS
  ListInv
  JoinInv
PROPERTIES
  JoinReturns
CHECK_DEADLOCK FALSE
