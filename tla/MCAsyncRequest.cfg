SPECIFICATION Spec
CONSTANTS
  Async = {r1, r2}
  Plain = {p1}
  Foreign = {r2}
  MaxAnswers = 2
INVARIANTS
  TableInv
  TimeoutFindsItem
  NoCrossTalk
PROPERTIES
  CancelledNeverTimesOut
  EveryRequestCalledBack
  ImplementsContract
CHECK_DEADLOCK FALSE
