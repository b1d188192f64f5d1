SPECIFICATION SafeSpec
CONSTANTS
  Session = {a, b}
  SameLoop = {a}
  SessionLimits = {2}
  INIT_SIZE = 1
  MAX_SIZE = 1
  PeerSends = {"msg"}
  MaxRecv = 1
  MaxSend = 0
INVARIANTS
  IteratorStaysValid
CHECK_DEADLOCK FALSE
