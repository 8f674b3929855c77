SPECIFICATION Spec
CONSTANTS
  t1 = t1
  t2 = t2
  c1 = c1
  c2 = c2
  Threads <- MCThreads
  Cores <- MCCores
  BootThread = t1
  MFQ_QUEUES = 2
  MFQ_TIMESLICES = 2
  Timeouts <- MCTimeouts
  MaxClock = 1
SYMMETRY MCSymmetry
INVARIANTS
  SchedInv
  OneContext
PROPERTIES
  MutexPenaltyUndone
  ImplementsThreadLife
CHECK_DEADLOCK FALSE
