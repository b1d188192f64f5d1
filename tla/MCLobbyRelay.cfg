SPECIFICATION Spec
CONSTANTS
  Session = {s1, s2}
  Request = {r1, r2}
  none = none
  MaxAttempts = 2
  MaxConsumed = 1
INVARIANTS
  RelayInv
  AnsweredAtMostOnce
PROPERTIES
  StayersAnswered
  EndedStaysEnded
CHECK_DEADLOCK FALSE
