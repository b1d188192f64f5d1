----------------------------- MODULE DefaultDeclare -----------------------------
(***************************************************************************)
(* How the game server declares for a player who does not                  *)
(* (gamesvr/Combination.cpp, default_declare, search_all_group): it        *)
(* searches the hand for two lives, then for straights and kinds, and      *)
(* takes the combination whose loose cards score least.                    *)
(*                                                                         *)
(* The code lists choices in some order, repeats equal ones (of the second *)
(* deck or of equal jokers) and stops at the first combination without     *)
(* loose cards, which scores 0.  Here they are sets: what matters is which *)
(* groups there are and the least score, which the order does not change.  *)
(***************************************************************************)
EXTENDS Declaration

CONSTANTS
  Hands,         \* bound: the hands a round may begin with, sorted
  MaxHand        \* bound: the cards to which one of them may grow

ASSUME HandsAreCards == Hands \subseteq Seq(PokerCard)
ASSUME HandIsNat == MaxHand \in Nat

VARIABLE hand   \* the cards of a player

Deal(h) == hand = <<>> /\ hand' = h

\* A card of the deck is drawn to the hand.
Draw(c) ==
  /\ hand # <<>> /\ Len(hand) < MaxHand
  /\ Copies(c, hand) < 2
  /\ hand' = Insert(hand, c)

-------------------------------------------------------------------------------
(* The groups of a hand.                                                   *)

\* caculate_all_choices, for every size: the choices of cards of s.
AllChoices(s) ==
  FoldLeft(LAMBDA chosen, c : chosen \cup {Append(g, c) : g \in chosen}, {<<>>}, s)

JokerCards(h) == SelectSeq(h, Joker)
Sort(s) == FoldLeft(Insert, <<>>, s)

\* remove_cards; a group is in the cards when all of it can be removed.
RemoveCards(g, h) == FoldLeft(RemoveFirst, h, g)

\* Fault: a card found once is found again.
InCardsAgain(g, h) == ToSet(g) \subseteq ToSet(h)

InCards(g, h) == Len(RemoveCards(g, h)) = Len(h) - Len(g)

\* pop_cards: the naturals of the first deck, of a colour or of a point.
FirstDeck(h) == FoldLeft(LAMBDA s, c : IF Joker(c) \/ Contains(s, c) THEN s ELSE Append(s, c), <<>>, h)
OfColor(h, color) == SelectSeq(FirstDeck(h), LAMBDA c : c.m_color = color)
OfPoint(h, point) == SelectSeq(FirstDeck(h), LAMBDA c : c.m_point = point)

\* to_straight_fill_joker_num: the least number of jokers that make a straight of n
\* cards which span so many points; at least one.
ToStraightFillJokerNum(n, span) ==
  LET gaps == span - n
      fill == IF n + gaps < 3 THEN 3 - n ELSE gaps
  IN  IF fill = 0 THEN 1 ELSE fill

\* combine_with_joker_card, with the ace highest, then as 1.
Spans(g) ==
  {Last(g).m_point - g[1].m_point + 1}
    \cup (IF Len(g) > 1 /\ Last(g).m_point = A THEN {g[Len(g) - 1].m_point} ELSE {})

\* search_straight_flush: naturals of one colour that are a run, or are made one by
\* enough jokers; or jokers alone.
SearchStraightFlush(h) ==
  LET jokers == AllChoices(JokerCards(h))
      naturals == (UNION {AllChoices(OfColor(h, k)) : k \in Color}) \ {<<>>}
  IN  {g \in naturals : PureStraight(g)}
      \cup {Sort(gj[1] \o gj[2]) : gj \in
              {gj \in naturals \X jokers :
                 \E span \in Spans(gj[1]) : Len(gj[2]) >= ToStraightFillJokerNum(Len(gj[1]), span)}}
      \cup {j \in jokers : Len(j) >= 3}

\* search_three_of_kind: two to four naturals of one point with any number of jokers,
\* or at least three without.
SearchThreeOfKind(h) ==
  LET jokers == AllChoices(JokerCards(h))
      naturals == UNION {AllChoices(OfPoint(h, p)) : p \in 2..A}
  IN  {Sort(gj[1] \o gj[2]) : gj \in
         {gj \in naturals \X jokers : Len(gj[1]) >= 2 /\ (gj[2] = <<>> => Len(gj[1]) >= 3)}}

-------------------------------------------------------------------------------
(* The combinations of a hand.                                             *)

StraightGroups(h) == {CardGroup(GROUP_STAIGHT, g) : g \in SearchStraightFlush(h)}
KindGroups(h) == {CardGroup(GROUP_THREE_KIND, g) : g \in SearchThreeOfKind(h)}

\* gen_valid_card_group: what is left is loose, if anything is.
WithLoose(gs, rest) == {IF rest = <<>> THEN gs ELSE Append(gs, CardGroup(GROUP_INVALID, rest))}

\* remove_card_group keeps the groups that are still in the cards.
Left(candidates, rest) == {g \in candidates : InCards(g.m_cards, rest)}

\* Fault: only lives are searched.
MoreGroupsNone(lives, rest2) == WithLoose(lives, rest2)

\* After two lives: up to two more groups of what is left.
MoreGroups(lives, rest2) ==
  LET all2 == StraightGroups(rest2) \cup KindGroups(rest2) IN
  IF all2 = {} THEN WithLoose(lives, rest2)
  ELSE UNION {LET rest3 == RemoveCards(g.m_cards, rest2)
                  all3 == Left(all2, rest3)
              IN  IF all3 = {} THEN WithLoose(Append(lives, g), rest3)
                  ELSE UNION {WithLoose(lives \o <<g, g3>>, RemoveCards(g3.m_cards, rest3)) : g3 \in all3}
              : g \in all2}

\* search_all_group: without a first life every card is loose, without a second life
\* every other card is.  A first life that takes all cards is passed over.
SearchAllGroup(h) ==
  LET straights == StraightGroups(h)
      first == {g \in straights : PureStraight(g.m_cards)}
  IN  IF first = {} THEN WithLoose(<<>>, h)
      ELSE UNION {LET rest1 == RemoveCards(g.m_cards, h)
                      second == Left(straights, rest1)
                  IN  IF second = {} THEN WithLoose(<<g>>, rest1)
                      ELSE UNION {MoreGroups(<<g, s>>, RemoveCards(s.m_cards, rest1)) : s \in second}
                  : g \in {g \in first : RemoveCards(g.m_cards, h) # <<>>}}

\* default_declare: the least score of a combination.
DefaultDeclare(h) == Min({LoseScore(gs) : gs \in SearchAllGroup(h)})

-------------------------------------------------------------------------------
(* What the search is for.                                                 *)

Accepted(h, Judge(_)) == {g \in AllChoices(h) : Judge(g)}

\* More than four cards of a kind: found by the search, refused by the judge.
Oversized(gs) == \E i \in OfType(gs, GROUP_THREE_KIND) : Len(gs[i].m_cards) > 4

-------------------------------------------------------------------------------
(* Properties.                                                             *)

\* search_straight_flush finds every straight its judge accepts, and nothing else;
\* search_three_of_kind every three or four of a kind, and besides only groups of one
\* kind that are too large (Combination.cpp:634 against 873).
SearchFindsAll ==
  /\ SearchStraightFlush(hand) = Accepted(hand, Straight)
  /\ {g \in SearchThreeOfKind(hand) : Len(g) <= 4} = Accepted(hand, IsKind)

\* Every combination of the search lays down the hand, each card once, and passes
\* check_lose_declare unless a kind is too large.
CombinationsPass ==
  \A gs \in SearchAllGroup(hand) :
    /\ Sort(FlattenSeq([i \in 1..Len(gs) |-> gs[i].m_cards])) = hand
    /\ ~Oversized(gs) => CheckLoseDeclare(gs)

\* The search is complete, group by group, and lays down what the player holds.
SearchSound == SearchFindsAll /\ CombinationsPass

\* Nobody who lays down two lives and one more group by hand loses less than the server
\* makes of the same cards, unless the first life is pure only to its judge.
DefaultIsBest ==
  LET straights == Accepted(hand, Straight)
      kinds == Accepted(hand, IsKind)
      score == DefaultDeclare(hand)
      Of(gs, rest) == {g \in gs : InCards(g, rest)}
  IN  \A first \in {g \in straights : IsPureRun(g)} :
        LET rest1 == RemoveCards(first, hand)
        IN  \A second \in Of(straights, rest1) :
              LET rest2 == RemoveCards(second, rest1)
              IN  \A g \in {<<>>} \cup Of(straights \cup kinds, rest2) :
                    score <= CaculateCardScore(RemoveCards(g, rest2))
===============================================================================
