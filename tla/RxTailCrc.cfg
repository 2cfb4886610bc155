CONSTANTS
  NFrames = 3
  FrameKinds <- MCKinds
  NibblesCapacity = 7
  ExitModes <- MCExits
SPECIFICATION Spec
INVARIANT OnlyVerifiedPublished
CHECK_DEADLOCK FALSE
