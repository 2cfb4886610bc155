CONSTANTS
  SF = 7
  CodingRates <- MCRates
  NFrames = 2
  PayloadLens <- MCLens
  Capacity <- MCCapacity
  NUp = 2
  InterFramePadding = 2
  MaxSymbols = 3
SPECIFICATION Spec
INVARIANTS
  TypeOK
  BlocksAreFrames
  AirIsFrames
PROPERTY AllSent
CHECK_DEADLOCK FALSE
