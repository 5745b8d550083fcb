SPECIFICATION FairSpec
CONSTANTS
  MemSize = 4
  N = 4
  JobKinds <- Kinds
  Quanta <- MCQuanta
INVARIANTS
  TypeOK
  JobsAndMemoryAgree
  AccountingIsExact
  SwapInIsSafe
PROPERTIES
  VictimIsLongest
  HigherLevelFirst
  AllJobsFinish
  ImplementsLifecycle
