SPECIFICATION FairSpec
CONSTANTS
  Stream = {stdout, stderr}
  Size <- ChunkSizes
  Capacity = 1
  MaxOutput = 3
  MaxWrite = 2
INVARIANTS OutputComplete WithinBudget
PROPERTIES DrainEnds OutputArrives
CHECK_DEADLOCK FALSE
