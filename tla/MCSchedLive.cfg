SPECIFICATION LiveSpec
CONSTANTS
  t1 = t1
  t2 = t2
  t3 = t3
  c1 = c1
  c2 = c2
PROPERTIES
  ReadyRuns
  TimeoutWakes
  CoresLeave
CHECK_DEADLOCK FALSE
