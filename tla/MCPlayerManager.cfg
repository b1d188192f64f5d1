SPECIFICATION Spec
CONSTANTS
  Session = {s1, s2}
  User = {u1, u2}
  Token = {"complete", "mistyped"}
  none = none
  MaxMsg = 3
  MaxWaiting = 2
INVARIANTS
  MapsInv
  RequestsOfOwner
  LoggedInIsServed
  StayOnlyIfLateOrSwitched
PROPERTIES
  DisplacedSessionCloses
CHECK_DEADLOCK FALSE
