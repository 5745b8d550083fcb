SPECIFICATION Spec
CONSTANTS
    Values <- MCValues
    MaxBuff = 2
    MaxStorages = 2
    MaxCommands = 6
INVARIANTS
    StoragesAreSound
PROPERTIES
    GetSeesStores
    RequestsServed
CHECK_DEADLOCK FALSE
