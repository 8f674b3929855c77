SPECIFICATION ProgramsSpec
CONSTANTS
  N = 4
  bites = 2
  Terms = 2
  MAX_FILEID = 10
  PipeSize = 1
  Output = 2
  MaxFrag = 3
  MaxLines = 2
  K = 2
  SizeMax = 4
  MaxLog = 1
  Machines = 2
  MaxPats = 1
  FifoSize = 1
  h1 = h1
  h2 = h2
  a = a
  b = b
  c = c
  Heads <- MCHeads
  Items <- MCItems
  Picked <- MCPicked
  Depth = 2
  Handlers = 2
  MAX_PROC = 4
INVARIANTS
  SymposiumInv
  ShellInv
  ServerInv
  HarnessInv
  ListsInv
  UnwindInv
  InfoInv
PROPERTIES
  SymposiumEnds
  LineEnds
  ServerQuits
  TestEnds
CHECK_DEADLOCK FALSE
