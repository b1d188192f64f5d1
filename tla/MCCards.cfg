SPECIFICATION MCSpec
CONSTANTS
  A = 6
  Color = {1, 2, 3}
  MaxGroup = 5
  Laid <- MCLaid
  MaxGroups = 3
  Hands <- MCHands
  MaxHand = 10
  CARD_COUNT = 5
INVARIANTS
  EveryCardOnce
  StraightIsRun
  PureStraightIsPureRun
  KindIsKind
  DeclarationsSound
  SearchSound
  DefaultIsBest
  PromiseKept
CHECK_DEADLOCK FALSE
