CONSTANTS
  SF = 7
  SymbolsCapacity = 1
  BlocksCapacity = 1
  ImplicitModes <- MCModes
  Headers <- MCHeaders
  NumberOfBins = 16
  NUp = 8
  SyncWord1 = 5
  SyncWord2 = 10
  Bins <- MCBins
  UIntRange = 65536
  FrameIds = 2
  CarrierOffsets <- MCUp
  NoiseBins <- MCNoise
  NoiseWindows = 7
SPECIFICATION AlignSpec
INVARIANTS
  HeaderAligned
  CoarseOffset
PROPERTY Synchronises
CHECK_DEADLOCK FALSE
