SPECIFICATION Spec
CONSTANTS
  t1 = t1
  t2 = t2
  t3 = t3
  Threads <- MCThreads2
  M = 3
  Fids = 3
  Ports <- MCPorts
  BUFF_SIZE = 1
  MaxReqs = 1
INVARIANT CloseSeen
CHECK_DEADLOCK FALSE
