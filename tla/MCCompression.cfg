SPECIFICATION Spec
CONSTANTS
  DICT_SIZE = 6
  Inputs <- MCInputs
  DictBits = 18
  Tails <- MCTails
  MaxMessage = 2
INVARIANTS
  CodeIsSound
  ServerReadsTheCode
  DecodingRestores
