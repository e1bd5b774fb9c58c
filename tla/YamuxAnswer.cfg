SPECIFICATION Spec
CONSTANTS
  MaxId = 4
  Backlog = 2
  MaxFrames = 4
  MaxCalls = 4
INVARIANTS
  PeerStreamsExist
CHECK_DEADLOCK FALSE
