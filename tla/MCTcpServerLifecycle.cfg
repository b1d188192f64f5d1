SPECIFICATION SafeSpec
CONSTANTS
  Session = {a, b}
  SameLoop = {a}
  SessionLimits = {1, 2}
  INIT_SIZE = 1
  MAX_SIZE = 1
  PeerSends = {"msg", "peer_close"}
  MaxRecv = 2
  MaxSend = 0
INVARIANTS
  TableInv
  CloseReportedOnce
  TableMatchesSockets
PROPERTIES
  ImplementsContract
CHECK_DEADLOCK FALSE
