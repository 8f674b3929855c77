SPECIFICATION IOSpec
CONSTANTS
  p1 = p1
  p2 = p2
  t1 = t1
  t2 = t2
  f1 = f1
  f2 = f2
  f3 = f3
  NoFCB = NoFCB
  Procs <- MCProcs
  InitProc = p1
  Threads <- MCThreads
  FCBs <- MCFCBs
  MAX_FILEID = 3
  ncores = 2
  FifoSize = 1
INVARIANTS
  StreamsInv
  MachineInv
  NoLateSignal
PROPERTY ReaderGets
CHECK_DEADLOCK FALSE
