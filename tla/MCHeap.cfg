SPECIFICATION Spec
CONSTANTS
  Arena = 232
  Requests = {0, 8, 40, 508}
  Counted <- MCCounted
  DoubleFree = TRUE
  MaxUsed = 200
  U64 = 512
INVARIANTS HeapInv
PROPERTIES UsedBlocksStay CounterCovers FreeTerminates
