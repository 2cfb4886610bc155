CONSTANTS
  SamplesPerSymbol = 8
  NUp = 3
  Bins <- MCBins
  InputSymbols = 16
  Rooms <- MCRooms
  NBytes = 2
  CntRange = 4
  SureSymbols = 2
  InterFramePadding = 1
  NSeq = 2
SPECIFICATION Spec
INVARIANTS
  TypeOK
  NothingLostInside
  StartsInPreamble
  PreambleFound
  RoomKept
  FramesTagged
CHECK_DEADLOCK FALSE
