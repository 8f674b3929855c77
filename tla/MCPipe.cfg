SPECIFICATION FairSpec
CONSTANTS
  t1 = t1
  t2 = t2
  t3 = t3
  Threads <- MCThreads3
  Byte <- MCByte2
  BUFF_SIZE = 2
  ReadSizes <- MCReadSizes
  WriteSizes <- MCWriteSizes
  MaxFids = 2
  Reused = TRUE
INVARIANTS
  PipeInv
PROPERTIES
  ImplementsByteChannel
  CallsReturn
CHECK_DEADLOCK FALSE
