SPECIFICATION Spec
CONSTANTS
  Session = {s1}
  User = {u1, u2}
  Token = {"complete"}
  none = none
  MaxMsg = 2
  MaxWaiting = 3
PROPERTIES
  OfflinePlayerForgotten
CHECK_DEADLOCK FALSE
