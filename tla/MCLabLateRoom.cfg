SPECIFICATION Spec
CONSTANTS
  s1 = s1
  s2 = s2
  s3 = s3
  s4 = s4
  Students <- Three
  K = 2
  T = 1
  SpuriousAt <- NoWaits
CHECK_DEADLOCK FALSE
PROPERTIES
  CallsAfterRoomIsEmpty
