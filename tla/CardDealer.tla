------------------------------- MODULE CardDealer -------------------------------
(***************************************************************************)
(* How cards are dealt (gamesvr/CardDealer.cpp): rand_deal_card ranks the  *)
(* deck anew and then draws from a copy of it, each time by a random index *)
(* whose card is overwritten with the last one.                            *)
(*                                                                         *)
(* A card is one of the CARD_COUNT pieces of the deck; which point and     *)
(* colour it bears (init_cards: every one twice) does not change.          *)
(***************************************************************************)
EXTENDS Naturals, Sequences, FiniteSets

CONSTANT CARD_COUNT   \* pieces of the deck

ASSUME DeckIsNotEmpty == CARD_COUNT \in Nat \ {0}

Piece == 1..CARD_COUNT

VARIABLES
  m_cards,     \* the deck; while it is ranked, what has been ranked
  lstCard,     \* the cards dealt
  rest,        \* the local copy that is drawn from
  count,       \* how many cards the caller wants
  stage        \* "idle", "rank" or "deal"

vars == <<m_cards, lstCard, rest, count, stage>>

Init ==
  /\ m_cards = [i \in Piece |-> i]
  /\ lstCard = <<>>
  /\ rest = <<>>
  /\ count = 0
  /\ stage = "idle"

\* rand_deal_card asserts that there are enough cards, and rand_rank_cards starts.  The
\* caller brings a list of its own.
RandDealCard(wanted) ==
  /\ stage = "idle"
  /\ wanted <= CARD_COUNT
  /\ count' = wanted
  /\ lstCard' = <<>>
  /\ rest' = m_cards
  /\ m_cards' = <<>>
  /\ stage' = "rank"

\* The drawn card is overwritten with the last one, which is popped; the last card of
\* all stays.
Overwrite(s, index) ==
  IF Len(s) > 1 THEN SubSeq([s EXCEPT ![index] = s[Len(s)]], 1, Len(s) - 1) ELSE s

\* rand_rank_cards, one turn of its loop.
RandRankCards(index) ==
  /\ stage = "rank"
  /\ Len(m_cards) < CARD_COUNT
  /\ m_cards' = Append(m_cards, rest[index])
  /\ rest' = Overwrite(rest, index)
  /\ UNCHANGED <<lstCard, count, stage>>

\* Fault: dealing goes on with what ranking has left of its copy.
RankedNoCopy ==
  /\ stage = "rank"
  /\ Len(m_cards) = CARD_COUNT
  /\ stage' = "deal"
  /\ UNCHANGED <<m_cards, lstCard, rest, count>>

\* The deck is ranked, and dealing begins with a copy of it.
Ranked ==
  /\ stage = "rank"
  /\ Len(m_cards) = CARD_COUNT
  /\ rest' = m_cards
  /\ stage' = "deal"
  /\ UNCHANGED <<m_cards, lstCard, count>>

\* rand_deal_card, one turn of its loop.
DealOne(index) ==
  /\ stage = "deal"
  /\ Len(lstCard) < count
  /\ lstCard' = Append(lstCard, rest[index])
  /\ rest' = Overwrite(rest, index)
  /\ UNCHANGED <<m_cards, count, stage>>

Dealt ==
  /\ stage = "deal"
  /\ Len(lstCard) = count
  /\ rest' = <<>>
  /\ stage' = "idle"
  /\ UNCHANGED <<m_cards, lstCard, count>>

Next ==
  \/ \E wanted \in 0..(CARD_COUNT + 1) : RandDealCard(wanted)
  \/ \E index \in 1..Len(rest) : RandRankCards(index) \/ DealOne(index)
  \/ Ranked \/ Dealt

Spec == Init /\ [][Next]_vars

-------------------------------------------------------------------------------
(* Properties.                                                             *)

Distinct(s) == \A i, j \in 1..Len(s) : i # j => s[i] # s[j]

\* What is still to be drawn when taken cards are out: the last card of all stays where
\* it is and counts as drawn.
Undrawn(taken) == IF Len(taken) = CARD_COUNT THEN <<>> ELSE rest

\* Type invariant.
TypeOK ==
  /\ m_cards \in Seq(Piece) /\ lstCard \in Seq(Piece) /\ rest \in Seq(Piece)
  /\ count \in 0..CARD_COUNT /\ Len(lstCard) <= count
  /\ stage \in {"idle", "rank", "deal"}
  /\ stage # "idle" => rest # <<>>

\* Ranking loses and doubles no card: what has been ranked and what has not are the
\* whole deck, each piece once (CardDealer.cpp:163).
RankKeepsDeck ==
  LET all == IF stage = "rank" THEN m_cards \o Undrawn(m_cards) ELSE m_cards
  IN  Len(all) = CARD_COUNT /\ Distinct(all)

\* No card is dealt twice, down to the last one of the deck (CardDealer.cpp:105).
DealtOnce ==
  LET all == IF stage = "deal" THEN lstCard \o Undrawn(lstCard) ELSE lstCard
  IN  Distinct(all)

\* Every card of the deck comes out once, whatever is drawn.
EveryCardOnce == TypeOK /\ RankKeepsDeck /\ DealtOnce
===============================================================================
