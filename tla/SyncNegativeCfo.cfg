CONSTANTS
  SF = 7
  SymbolsCapacity = 1
  BlocksCapacity = 1
  ImplicitModes <- MCModes
  Headers <- MCHeaders
  NumberOfBins = 16
  NUp = 8
  SyncWord1 = 5
  SyncWord2 = 10
  Bins <- MCBins
  UIntRange = 65536
  FrameIds = 2
  CarrierOffsets <- MCDown
  NoiseBins <- MCNoise
  NoiseWindows = 1
SPECIFICATION AlignSpec
INVARIANT HeaderAligned
CHECK_DEADLOCK FALSE
