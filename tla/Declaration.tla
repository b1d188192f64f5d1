------------------------------ MODULE Declaration ------------------------------
(***************************************************************************)
(* How the game server judges the groups a player lays down                *)
(* (gamesvr/Combination.cpp): is_groups_declare says whether they win,     *)
(* check_lose_declare what a loser's groups cost.                          *)
(*                                                                         *)
(* The state is a message of groups, parsed group by group; nothing keeps  *)
(* a client from sending a type the server does not know.                  *)
(***************************************************************************)
EXTENDS Combination

CONSTANTS
  Laid,          \* bound: the cards a declared group may hold
  MaxGroups      \* bound: groups of a declaration

ASSUME LaidAreGroups == Laid \subseteq Seq(PokerCard)
ASSUME GroupsAreNat == MaxGroups \in Nat

VARIABLE groups   \* the declaration

\* CardGroup: the types of the code, and one it does not know.
GROUP_INVALID == 0
GROUP_STAIGHT == 1
GROUP_THREE_KIND == 2
KnownType == {GROUP_INVALID, GROUP_STAIGHT, GROUP_THREE_KIND}
UNKNOWN == 3

CardGroup(type, g) == [m_type |-> type, m_cards |-> g]

\* parse_msg_group, one group of the message.
ParseMsgGroup(type, g) ==
  /\ Len(groups) < MaxGroups
  /\ groups' = Append(groups, CardGroup(type, g))

DeclarationNext ==
  (\E g \in Laid, type \in KnownType \cup {UNKNOWN} : ParseMsgGroup(type, g)) /\ UNCHANGED joker_point

DeclarationSpec ==
  /\ joker_point \in 2..A /\ groups = <<>>
  /\ [][DeclarationNext]_<<joker_point, groups>>

-------------------------------------------------------------------------------
(* The judges of a declaration.                                            *)

\* PokerCard::get_score.
GetScore(c) == IF Joker(c) THEN 0 ELSE IF c.m_point > 10 THEN 10 ELSE c.m_point
CaculateCardScore(g) == FoldLeft(LAMBDA sum, c : sum + GetScore(c), 0, g)

OfType(gs, type) == {i \in 1..Len(gs) : gs[i].m_type = type}
PureStraights(gs) == {i \in OfType(gs, GROUP_STAIGHT) : PureStraight(gs[i].m_cards)}

StraightsHold(gs) == \A i \in OfType(gs, GROUP_STAIGHT) : Straight(gs[i].m_cards)
KindsHold(gs) == \A i \in OfType(gs, GROUP_THREE_KIND) : ThreeOfKind(gs[i].m_cards)
FirstLife(gs) == PureStraights(gs) # {}
SecondLife(gs) == FirstLife(gs) /\ Cardinality(OfType(gs, GROUP_STAIGHT)) >= 2

\* is_groups_declare does not look at groups of a type it does not know.
IsGroupsDeclare(gs) ==
  /\ OfType(gs, GROUP_INVALID) = {}
  /\ StraightsHold(gs) /\ KindsHold(gs)
  /\ SecondLife(gs)

\* Fault: one pass over the groups, so that a kind counts the straights before it.
CheckLoseDeclareOnePass(gs) ==
  /\ StraightsHold(gs)
  /\ \A i \in 1..Len(gs) :
       LET seen == SubSeq(gs, 1, i) IN
       /\ gs[i].m_type \in KnownType
       /\ gs[i].m_type = GROUP_STAIGHT => FirstLife(seen)
       /\ gs[i].m_type = GROUP_THREE_KIND => SecondLife(seen) /\ ThreeOfKind(gs[i].m_cards)

\* check_lose_declare counts the straights in a first pass and judges in a second.
CheckLoseDeclare(gs) ==
  /\ StraightsHold(gs)
  /\ \A i \in 1..Len(gs) :
       /\ gs[i].m_type \in KnownType
       /\ gs[i].m_type = GROUP_STAIGHT => FirstLife(gs)
       /\ gs[i].m_type = GROUP_THREE_KIND => SecondLife(gs) /\ ThreeOfKind(gs[i].m_cards)

\* The score a declaration that passes costs: the loose cards.
LoseScore(gs) ==
  MapThenSumSet(LAMBDA i : CaculateCardScore(gs[i].m_cards), OfType(gs, GROUP_INVALID))

-------------------------------------------------------------------------------
(* Properties.                                                             *)

\* A winner loses nothing and whoever could win is let win: the two judges agree on
\* every declaration of groups of known types (Combination.cpp:1116 against 1071).
DeclarationsAgree ==
  (\A i \in 1..Len(groups) : groups[i].m_type \in KnownType) =>
    /\ IsGroupsDeclare(groups) => CheckLoseDeclare(groups) /\ LoseScore(groups) = 0
    /\ /\ CheckLoseDeclare(groups)
       /\ OfType(groups, GROUP_INVALID) = {}
       /\ Cardinality(OfType(groups, GROUP_STAIGHT)) >= 2
       => IsGroupsDeclare(groups)

\* The order in which a player lays the groups down decides nothing.
OrderIsFree ==
  /\ CheckLoseDeclare(Reverse(groups)) <=> CheckLoseDeclare(groups)
  /\ IsGroupsDeclare(Reverse(groups)) <=> IsGroupsDeclare(groups)

\* Neither judge nor order makes a difference to what a declaration is.
DeclarationsSound == DeclarationsAgree /\ OrderIsFree
===============================================================================
