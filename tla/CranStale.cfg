CONSTANTS
  NFrames = 3
  FrameLens <- MCLens
  MaxChunk = 5
  Modes <- MCDebug
  MaxRetries = 1
  AttemptBound = 2
  Rooms <- MCRooms
  RestartAfter = 4
  Restarts = 1
  Expires <- MCStarting
SPECIFICATION Spec
INVARIANT AnswersOwnPacket
CHECK_DEADLOCK FALSE
