SPECIFICATION Spec
CONSTANTS
  Session = {b}
  SameLoop = {}
  SessionLimits = {1}
  INIT_SIZE = 1
  MAX_SIZE = 1
  PeerSends = {"msg"}
  MaxRecv = 1
  MaxSend = 3
INVARIANTS
  QueueBounded
  WritesInOrder
PROPERTIES
  SentIsWritten
  DeadSessionGoes
CHECK_DEADLOCK FALSE
