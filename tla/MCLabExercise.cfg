SPECIFICATION FairSpec
CONSTANTS
  s1 = s1
  s2 = s2
  s3 = s3
  s4 = s4
  Students <- Four
  K = 3
  T = 2
  SpuriousAt <- AllWaits
INVARIANT
  GroupsAreSound
PROPERTIES
  IdsLostOnlyIfDisturbed
  ImplementsLabRoom
  ProgramEnds
