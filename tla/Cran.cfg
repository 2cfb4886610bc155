CONSTANTS
  NFrames = 3
  FrameLens <- MCLens
  MaxChunk = 5
  Modes <- MCModes
  MaxRetries = 2
  AttemptBound = 4
  Rooms <- MCRooms
  RestartAfter = 3
  Restarts = 1
  Expires <- MCExpires
SPECIFICATION Spec
INVARIANTS
  TypeOK
  StreamCovered
  AttemptsBounded
  PacketsCounted
  PassedOn
  OwnPacketTaken
PROPERTIES
  KeepsPromise
  AnswerComes
CHECK_DEADLOCK FALSE
