------------------------------ MODULE Combination ------------------------------
(***************************************************************************)
(* How the game server judges a group of cards a player declares           *)
(* (gamesvr/Combination.cpp, cards of CardDealer.h), beside what the       *)
(* judgements mean.                                                        *)
(*                                                                         *)
(* The state is one group on its way in: parse_msg_group appends card by   *)
(* card, and the judges see it sorted (check_lose_declare and              *)
(* is_groups_declare sort before they judge).  Cards of the joker point    *)
(* are wild besides the two jokers.  Declaration judges several groups,    *)
(* DefaultDeclare searches a hand for them.                                *)
(***************************************************************************)
EXTENDS SequencesExt

CONSTANTS
  A,             \* point of the ace, the highest before the jokers
  Color,         \* colours, spades = 1 upwards; jokers have colour 0
  MaxGroup       \* bound: cards in a group

ASSUME AceIsHigh == A \in Nat /\ A > 2
ASSUME ColorsPositive == Color \subseteq Nat \ {0} /\ Color # {}
ASSUME GroupFitsARun == MaxGroup \in Nat /\ MaxGroup < A

JOKER1 == A + 1
JOKER2 == A + 2
PokerCard == [m_point : 2..A, m_color : Color] \cup [m_point : {JOKER1, JOKER2}, m_color : {0}]

VARIABLES
  joker_point,   \* the point that is wild in this round
  cards          \* the group, sorted

groupVars == <<joker_point, cards>>

\* PokerCard::operator< : by point, then by colour.
Less(c, d) == c.m_point < d.m_point \/ (c.m_point = d.m_point /\ c.m_color < d.m_color)

GroupInit ==
  /\ joker_point \in 2..A
  /\ cards = <<>>

Copies(c, g) == Cardinality({i \in 1..Len(g) : g[i] = c})

\* A card takes its sorted place in a group or a hand, before the first card above it.
Insert(g, c) ==
  LET above == {i \in 1..Len(g) : Less(c, g[i])}
      place == IF above = {} THEN Len(g) + 1 ELSE Min(above)
  IN  [i \in 1..(Len(g) + 1) |-> IF i < place THEN g[i] ELSE IF i = place THEN c ELSE g[i - 1]]

\* A card joins the group; the deck holds every card twice.
AddCard(c) ==
  /\ Len(cards) < MaxGroup
  /\ Copies(c, cards) < 2
  /\ cards' = Insert(cards, c)
  /\ UNCHANGED joker_point

GroupNext == \E c \in PokerCard : AddCard(c)

GroupSpec == GroupInit /\ [][GroupNext]_groupVars

-------------------------------------------------------------------------------
(* The judges of the code.                                                 *)

Joker(c) == c.m_point = joker_point \/ c.m_point >= JOKER1

NaturalPlaces(g) == {i \in 1..Len(g) : ~Joker(g[i])}
JokerCount(g) == Len(g) - Cardinality(NaturalPlaces(g))

\* Neighbours among the places, once the others have been taken out.
Adjacent(places, i, j) == i < j /\ \A k \in places : k <= i \/ j <= k

\* The natural cards, jokers aside, ascend in one colour.
OneColorRising(g) ==
  \A i, j \in NaturalPlaces(g) : Adjacent(NaturalPlaces(g), i, j) =>
    g[i].m_color = g[j].m_color /\ g[i].m_point # g[j].m_point

\* Fault: colours are not compared.
ThreeOfKindAnyColor(g) ==
  /\ Len(g) \in 3..4
  /\ \A i \in 2..Len(g) : ~Joker(g[i - 1]) /\ ~Joker(g[i]) =>
       g[i].m_point = g[i - 1].m_point
  /\ Cardinality(NaturalPlaces(g)) >= 2

\* is_cards_three_of_kind compares neighbours, and starts afresh after a joker.
ThreeOfKind(g) ==
  /\ Len(g) \in 3..4
  /\ \A i \in 2..Len(g) : ~Joker(g[i - 1]) /\ ~Joker(g[i]) =>
       g[i].m_point = g[i - 1].m_point /\ g[i].m_color # g[i - 1].m_color
  /\ Cardinality(NaturalPlaces(g)) >= 2

\* Jokers needed to fill the gaps of a run of count points from low to high.
Gaps(low, high, count) == (high - low + 1) - count

\* Fault: the ace is never tried as 1.
StraightAceHigh(g) ==
  LET natural == NaturalPlaces(g) IN
  /\ Len(g) >= 3
  /\ OneColorRising(g)
  /\ natural # {} =>
       Gaps(g[Min(natural)].m_point, g[Max(natural)].m_point, Cardinality(natural)) <= JokerCount(g)

\* is_cards_straight: fill the gaps with jokers, then try again with the ace as 1.
\* The sums of the code telescope over the sorted cards.
Straight(g) ==
  LET natural == NaturalPlaces(g)
      n == Cardinality(natural)
      last == Max(natural) IN
  /\ Len(g) >= 3
  /\ OneColorRising(g)
  /\ natural # {} =>
       \/ Gaps(g[Min(natural)].m_point, g[last].m_point, n) <= JokerCount(g)
       \/ /\ joker_point # A /\ g[last].m_point = A
          /\ Gaps(1, g[Max(natural \ {last})].m_point, n) <= JokerCount(g)

Plain(g, i) ==
  /\ g[i - 1].m_color = g[i].m_color
  /\ g[i - 1].m_point < JOKER1 /\ g[i].m_point < JOKER1
Consecutive(g, i) == g[i].m_point = g[i - 1].m_point + 1

\* Fault: an ace may follow any run.
PureStraightAnyAce(g) ==
  /\ Len(g) >= 3
  /\ \E stop \in 2..(Len(g) + 1) :
       /\ \A i \in 2..(stop - 1) : Plain(g, i) /\ Consecutive(g, i)
       /\ \/ stop = Len(g) + 1
          \/ Plain(g, stop) /\ ~Consecutive(g, stop) /\ g[stop].m_point = A

\* is_cards_pure_straight stops at the first gap: an ace there closes a run from 2.
PureStraight(g) ==
  /\ Len(g) >= 3
  /\ \E stop \in 2..(Len(g) + 1) :
       /\ \A i \in 2..(stop - 1) : Plain(g, i) /\ Consecutive(g, i)
       /\ \/ stop = Len(g) + 1
          \/ /\ Plain(g, stop) /\ ~Consecutive(g, stop)
             /\ g[stop].m_point = A /\ g[1].m_point = 2

-------------------------------------------------------------------------------
(* What the judgements mean.                                               *)

\* The chosen cards take places of a run as long as the group, one each and in one
\* colour; the other cards fill the rest.  An ace is 1 or the highest point.
RunOf(g, chosen) ==
  \E ace \in {1, A}, low \in 1..A :
    LET value == [i \in chosen |-> IF g[i].m_point = A THEN ace ELSE g[i].m_point]
    IN  /\ low + Len(g) - 1 <= A
        /\ \A i \in chosen : value[i] \in low..(low + Len(g) - 1)
        /\ \A i, j \in chosen : /\ i # j => value[i] # value[j]
                                /\ g[i].m_color = g[j].m_color

IsRun(g) == Len(g) >= 3 /\ RunOf(g, NaturalPlaces(g))
IsPureRun(g) ==
  /\ Len(g) >= 3
  /\ \A i \in 1..Len(g) : g[i].m_point <= A
  /\ RunOf(g, 1..Len(g))

IsKind(g) ==
  /\ Len(g) \in 3..4
  /\ Cardinality(NaturalPlaces(g)) >= 2
  /\ \A i, j \in NaturalPlaces(g) : g[i].m_point = g[j].m_point
  /\ \A i, j \in NaturalPlaces(g) : i # j => g[i].m_color # g[j].m_color

\* A wild card of the joker point sorts between two natural cards.
WildBetween(g) ==
  \E i, j, k \in 1..Len(g) :
    /\ i < j /\ j < k
    /\ Joker(g[j]) /\ ~Joker(g[i]) /\ ~Joker(g[k])

\* Cards sort behind the first ace: a second ace or a joker.
BehindAce(g) == \E i \in 1..(Len(g) - 1) : g[i].m_point = A

-------------------------------------------------------------------------------
(* Properties.                                                             *)

\* is_cards_straight accepts exactly the groups that jokers complete to a run of one
\* colour, with the ace above the king or below the two.
StraightIsRun == Straight(cards) <=> IsRun(cards)

\* is_cards_pure_straight accepts every run that no joker helps, and nothing else
\* unless cards sort behind the first ace: it returns at an ace that closes a run from
\* 2 and does not look at the cards after it (Combination.cpp:1155).
PureStraightIsPureRun ==
  /\ IsPureRun(cards) => PureStraight(cards)
  /\ PureStraight(cards) /\ ~BehindAce(cards) => IsPureRun(cards)

\* is_cards_three_of_kind accepts every three or four cards of one point and
\* different colours, jokers aside, and nothing else unless a wild card sorts between
\* two natural ones: the comparison starts afresh there (Combination.cpp:891).
KindIsKind ==
  /\ IsKind(cards) => ThreeOfKind(cards)
  /\ ThreeOfKind(cards) /\ ~WildBetween(cards) => IsKind(cards)
===============================================================================
