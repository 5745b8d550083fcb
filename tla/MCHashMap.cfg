SPECIFICATION FairSpec
CONSTANTS
  t1 = t1
  t2 = t2
  k1 = k1
  k2 = k2
  NoThread = NoThread
  Threads = {t1, t2}
  Keys = {k1, k2}
  Hash <- MCHash
  Capacities = {2, 4}
  SizeBits = 5
  IntBits = 3
  Mixes <- MCMixes
  MaxCalls = 2
INVARIANTS
  TableIsSound
  OnlyKnownMisuse
  ObjectsAreOwned
PROPERTIES
  ImplementsAtomicMap
  CallsReturn
