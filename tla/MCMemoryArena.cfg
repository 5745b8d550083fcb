SPECIFICATION Spec
CONSTANTS
  MemSize = 7
  Sizes <- MCSizes
INVARIANTS
  TypeOK
  BlocksTileMemory
  FreeBlocksCoalesced
  ProbeLeavesNoTrace
PROPERTIES
  StepsComputeMemFree
  ImplementsIntervalMemory
