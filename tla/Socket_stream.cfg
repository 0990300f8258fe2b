SPECIFICATION Spec
CONSTANTS
  MaxPackets = 4
  MaxChunks = 3
  Capacity = 3
INVARIANTS
  WritesMatchState
  StreamInOrder
  ListensUntilClosed
PROPERTY WrittenIsSent
CHECK_DEADLOCK FALSE
