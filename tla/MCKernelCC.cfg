SPECIFICATION FairSpec
CONSTANTS
  t1 = t1
  t2 = t2
  t3 = t3
  cvA = cvA
  SemCV = SemCV
  NoThread = NoThread
  NoCV = NoCV
  Threads <- MCThreads3
  WaitCVs <- MCWaitCVs1
INVARIANTS
  KernelExclusion
  RingInv
  WakeInv
PROPERTIES
  SignalReaches
  ImplementsKernelLock
  KernelProgress
CHECK_DEADLOCK FALSE
