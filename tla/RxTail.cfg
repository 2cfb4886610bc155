CONSTANTS
  NFrames = 3
  FrameKinds <- MCKinds
  NibblesCapacity = 7
  ExitModes <- MCExits
SPECIFICATION Spec
INVARIANTS
  TypeOK
  MessagesAreFrames
  CrcNotDewhitened
PROPERTY AllPublished
CHECK_DEADLOCK FALSE
