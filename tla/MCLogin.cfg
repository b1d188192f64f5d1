SPECIFICATION Spec
CONSTANTS
  p1 = p1
  p2 = p2
  s1 = s1
  s2 = s2
  Process = {p1, p2}
  Session = {s1, s2}
  Account = {a1}
  none = none
  Home <- MCHome
  Timed = {s1}
  MaxKills = 1
INVARIANTS
  LoginInv
  ToldUserExists
PROPERTIES
  LoginsGoOn
  SessionTimesGo
CHECK_DEADLOCK FALSE
