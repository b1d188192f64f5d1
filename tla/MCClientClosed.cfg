SPECIFICATION SafeSpec
CONSTANTS
  MaxConnectCalls = 1
  MaxCloseCalls = 1
  MaxQueue = 4
INVARIANTS
  ClosedClientStaysClosed
CHECK_DEADLOCK FALSE
