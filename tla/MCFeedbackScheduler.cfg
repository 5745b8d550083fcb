SPECIFICATION Spec
CONSTANTS
    MemSize = 4
    N = 3
    JobKinds <- Kinds
    Quanta <- MCQuanta
INVARIANTS
    JobsAndMemoryAgree
    ServiceIsFair
PROPERTIES
    AllJobsFinish
