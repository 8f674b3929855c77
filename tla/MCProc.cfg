SPECIFICATION FairSpec
CONSTANTS
  N = 4
  K = 1
  ExitValues <- MCExitValues2
INVARIANTS
  ProcInv
PROPERTIES
  ImplementsProcTree
  WaitsEnd
CHECK_DEADLOCK FALSE
