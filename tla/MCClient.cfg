SPECIFICATION Spec
CONSTANTS
  MaxConnectCalls = 2
  MaxCloseCalls = 2
  MaxQueue = 4
INVARIANTS
  ClientInv
  NullSocketOnlyIfStale
  FlagsAgree
  NeverGivesUp
PROPERTIES
  HangingAttemptEnds
CHECK_DEADLOCK FALSE
