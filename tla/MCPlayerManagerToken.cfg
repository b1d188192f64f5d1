SPECIFICATION SafeSpec
CONSTANTS
  Session = {s1, s2}
  User = {u1, u2}
  Token = {"issued"}
  none = none
  MaxMsg = 2
  MaxWaiting = 3
INVARIANTS
  TokenKeysPresent
CHECK_DEADLOCK FALSE
