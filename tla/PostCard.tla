-------------------------------- MODULE PostCard --------------------------------
(***************************************************************************)
(* Which card the game server posts for a player who does not              *)
(* (gamesvr/Combination.cpp, post_best_card): the one that leaves the best *)
(* combination of the search, and the score it promises for the rest.      *)
(*                                                                         *)
(* The search stops at the first combination with one loose card or none.  *)
(* It tries first lives colour by colour, those with fewer natural cards   *)
(* earlier; where any other order decides, or the one in which a sort      *)
(* leaves equals, every outcome is possible here.                          *)
(***************************************************************************)
EXTENDS DefaultDeclare

\* The loose cards of a combination, m_valid_cards: its last group, if any are.
LooseOf(gs) == IF Last(gs).m_type = GROUP_INVALID THEN Last(gs).m_cards ELSE <<>>

-------------------------------------------------------------------------------
(* A loose card.                                                           *)

\* caculate_cards_relation: how close two cards are to a group.
Relation(c, d) ==
  LET gap == IF c.m_point > d.m_point THEN c.m_point - d.m_point ELSE d.m_point - c.m_point
      aceAnd(p) == {c.m_point, d.m_point} = {A, p}
  IN  IF gap = 0 THEN 2
      ELSE IF c.m_color # d.m_color THEN 0
      ELSE (IF gap = 1 THEN 4 ELSE IF gap = 2 THEN 3 ELSE 0)
           + (IF aceAnd(2) THEN 4 ELSE IF aceAnd(3) THEN 3 ELSE 0)

\* The relations of a card to the others of its deck.
Degree(deck, c) == MapThenSumSet(LAMBDA d : Relation(c, d), ToSet(deck) \ {c})

\* post_less_relation_card: the least related natural card, of those the one that scores
\* most; a card of the second deck is less related by one.  Wild cards only: the last.
PostLessRelationCard(g) ==
  LET first == FirstDeck(g)
      second == FirstDeck(RemoveCards(first, g))
      candidates == {[card |-> c, degree |-> Degree(first, c) + 1] : c \in ToSet(first)}
                    \cup {[card |-> c, degree |-> Degree(second, c)] : c \in ToSet(second)}
  IN  IF first = <<>> THEN {Last(g)}
      ELSE {k.card : k \in {k \in candidates : \A l \in candidates :
              k.degree < l.degree \/ (k.degree = l.degree /\ GetScore(k.card) >= GetScore(l.card))}}

-------------------------------------------------------------------------------
(* A card of a group.                                                      *)

\* Fault: a wild card is spared whenever there is one, or else the first card.
SpareWild(g) == IF JokerCards(g) = <<>> THEN g[1] ELSE Last(JokerCards(g))

\* The card a group of four or more can spare: its last natural one, its last wild one
\* when no more than one is natural.
Spare(g) ==
  IF Cardinality(NaturalPlaces(g)) <= 1 THEN Last(JokerCards(g)) ELSE g[Max(NaturalPlaces(g))]

\* post_valid_group_bigest_card.
PostValidGroupBigestCard(gs) ==
  LET spare == {Spare(gs[i].m_cards) : i \in {i \in 1..Len(gs) : Len(gs[i].m_cards) >= 4}}
  IN  {c \in spare : \A d \in spare : GetScore(c) >= GetScore(d)}

-------------------------------------------------------------------------------

\* sort_combine_func: lives first, then the fewest loose cards.
Rank(gs) == (IF FirstLife(gs) THEN 0 ELSE 1000) + (IF SecondLife(gs) THEN 0 ELSE 100) + Len(LooseOf(gs))

\* What may be posted from a combination, and the score promised.
Posts(gs) ==
  LET loose == LooseOf(gs)
      from == IF loose = <<>> THEN PostValidGroupBigestCard(gs) ELSE PostLessRelationCard(loose)
  IN  {[card |-> c, score |-> IF loose = <<>> THEN 0 ELSE LoseScore(gs) - GetScore(c)] : c \in from}

\* search_straight_flush_i, search_straight_flush: the order in which first lives are tried.
TriedBy(gs, other) ==
  LET life == gs[1].m_cards
      otherLife == other[1].m_cards
  IN  \/ life[1].m_color < otherLife[1].m_color
      \/ /\ life[1].m_color = otherLife[1].m_color
         /\ Cardinality(NaturalPlaces(life)) <= Cardinality(NaturalPlaces(otherLife))
FirstTried(stops) == {gs \in stops : \A other \in stops : TriedBy(gs, other)}

\* post_best_card: of the combinations that sort first, a post that promises least.
PostBestCard(h) ==
  LET combinations == SearchAllGroup(h)
      stops == {gs \in combinations : SecondLife(gs) /\ Len(LooseOf(gs)) <= 1}
      best == Min({Rank(gs) : gs \in combinations})
      looked == IF stops # {} THEN FirstTried(stops) ELSE {gs \in combinations : Rank(gs) = best}
      posts == UNION {Posts(gs) : gs \in looked}
  IN  {p \in posts : \A q \in posts : p.score <= q.score}

-------------------------------------------------------------------------------
(* Properties.                                                             *)

\* A hand that cannot be split into threes can spare the card that is posted: it is one
\* of the hand, and default_declare makes no more than the promised score of the others.
\* A life may be pure by cards of the joker point, which a spare natural card would
\* break; it is safe because a shorter first life is tried earlier (Combination.cpp:116).
PromiseKept ==
  Len(hand) % 3 # 0 =>
    \A p \in PostBestCard(hand) :
      Contains(hand, p.card) /\ DefaultDeclare(RemoveFirst(hand, p.card)) <= p.score
===============================================================================
