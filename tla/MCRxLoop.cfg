CONSTANTS
  SF = 7
  SymbolsCapacity = 2
  BlocksCapacity = 2
  ImplicitModes <- MCModes
  Headers <- MCHeaders
  NumberOfBins = 128
  NUp = 3
  SyncWord1 = 8
  SyncWord2 = 16
  Bins <- MCBins
  UIntRange = 65536
  FrameIds = 3
SPECIFICATION Spec
INVARIANTS
  TypeOK
  AnswerInTurn
  IInv
  TagsApart
  NoSymbolDropped
  BlocksWhole
  PayloadComplete
PROPERTY FrameEnds
