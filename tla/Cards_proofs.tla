----------------------------- MODULE Cards_proofs -----------------------------
(***************************************************************************)
(* Proofs about the cards: CardDealer for a deck of any size, the judges   *)
(* of groups (Combination) and of declarations (Declaration) for any       *)
(* colours, any highest point and groups of any length below it.           *)
(***************************************************************************)
EXTENDS CardDealer, Declaration, FiniteSetTheorems, SequenceTheorems, TLAPS

-------------------------------------------------------------------------------
(* The dealer.                                                             *)

\* While cards are dealt, the copy they are drawn from holds the rest of the deck.
\* Without it a card could be drawn again: the last one of the copy is not removed.
RestIsComplement ==
  stage = "deal" /\ Len(lstCard) < CARD_COUNT => Len(lstCard) + Len(rest) = CARD_COUNT

\* Nothing is dealt before the deck is ranked.
RankedFirst == stage = "rank" => lstCard = <<>>

\* The inductive invariant of the dealer.
IInv == EveryCardOnce /\ RestIsComplement /\ RankedFirst

-------------------------------------------------------------------------------
(* Sequences of pieces.                                                    *)

\* Two sequences that share no piece.
Apart(s, t) == \A i \in 1..Len(s), j \in 1..Len(t) : s[i] # t[j]

\* A concatenation repeats nothing when its parts do not and share nothing.
LEMMA ConcatDistinct ==
  ASSUME NEW s \in Seq(Piece), NEW t \in Seq(Piece)
  PROVE  Distinct(s \o t) <=> Distinct(s) /\ Distinct(t) /\ Apart(s, t)
<1> DEFINE st == s \o t
           m == Len(s)
           n == Len(t)
<1>1. /\ m \in Nat /\ n \in Nat /\ Len(st) = m + n
      /\ \A i \in 1..(m + n) : st[i] = IF i <= m THEN s[i] ELSE t[i - m]
  BY ConcatProperties
<1>2. \A i \in 1..m : i \in 1..(m + n) /\ st[i] = s[i]
  BY <1>1
<1>3. \A j \in 1..n : j + m \in 1..(m + n) /\ st[j + m] = t[j]
  <2> SUFFICES ASSUME NEW j \in 1..n PROVE j + m \in 1..(m + n) /\ st[j + m] = t[j]
    OBVIOUS
  <2>1. j + m \in 1..(m + n) /\ ~(j + m <= m) /\ (j + m) - m = j
    BY <1>1
  <2>2. QED
    BY <1>1, <2>1
<1> HIDE DEF st, m, n
<1>4. ASSUME Distinct(st) PROVE Distinct(s) /\ Distinct(t) /\ Apart(s, t)
  <2>1. Distinct(s)
    BY <1>1, <1>2, <1>4 DEF Distinct, m
  <2>2. Distinct(t)
    <3> SUFFICES ASSUME NEW i \in 1..n, NEW j \in 1..n, i # j PROVE t[i] # t[j]
      BY DEF Distinct, n
    <3>1. i + m # j + m
      BY <1>1
    <3>2. QED
      BY <1>1, <1>3, <1>4, <3>1 DEF Distinct
  <2>3. Apart(s, t)
    <3> SUFFICES ASSUME NEW i \in 1..m, NEW j \in 1..n PROVE s[i] # t[j]
      BY DEF Apart, m, n
    <3>1. i # j + m
      BY <1>1
    <3>2. QED
      BY <1>1, <1>2, <1>3, <1>4, <3>1 DEF Distinct
  <2>4. QED
    BY <2>1, <2>2, <2>3
<1>5. ASSUME Distinct(s), Distinct(t), Apart(s, t) PROVE Distinct(st)
  <2> SUFFICES ASSUME NEW i \in 1..(m + n), NEW j \in 1..(m + n), i # j PROVE st[i] # st[j]
    BY <1>1 DEF Distinct
  <2>1. CASE i <= m /\ j <= m
    BY <1>1, <1>5, <2>1 DEF Distinct, m
  <2>2. CASE i <= m /\ j > m
    <3>1. i \in 1..m /\ j - m \in 1..n /\ st[i] = s[i] /\ st[j] = t[j - m]
      BY <1>1, <2>2
    <3>2. QED
      BY <1>5, <3>1 DEF Apart, m, n
  <2>3. CASE i > m /\ j <= m
    <3>1. j \in 1..m /\ i - m \in 1..n /\ st[j] = s[j] /\ st[i] = t[i - m]
      BY <1>1, <2>3
    <3>2. QED
      BY <1>5, <3>1 DEF Apart, m, n
  <2>4. CASE i > m /\ j > m
    <3>1. i - m \in 1..n /\ j - m \in 1..n /\ st[i] = t[i - m] /\ st[j] = t[j - m]
      BY <1>1, <2>4
    <3>2. i - m # j - m
      BY <1>1
    <3>3. QED
      BY <1>5, <3>1, <3>2 DEF Distinct, n
  <2>5. QED
    BY <1>1, <2>1, <2>2, <2>3, <2>4
<1>6. QED
  BY <1>4, <1>5 DEF st

\* Drawing from more than one card: the drawn one goes, the others stay, and the last
\* takes its place (CardDealer.cpp:171, 113).
LEMMA OverwriteRemoves ==
  ASSUME NEW s \in Seq(Piece), NEW index \in 1..Len(s), Len(s) > 1, Distinct(s)
  PROVE  /\ Overwrite(s, index) \in Seq(Piece)
         /\ Len(Overwrite(s, index)) = Len(s) - 1
         /\ Distinct(Overwrite(s, index))
         /\ \A i \in 1..(Len(s) - 1) :
              /\ Overwrite(s, index)[i] # s[index]
              /\ \E j \in 1..Len(s) : Overwrite(s, index)[i] = s[j]
<1> DEFINE n == Len(s)
           e == [s EXCEPT ![index] = s[n]]
           o == Overwrite(s, index)
<1>1. n \in Nat /\ n > 1 /\ s \in [1..n -> Piece] /\ s[n] \in Piece
  BY LenProperties, ElementOfSeq
<1>2. e \in Seq(Piece) /\ \A i \in 1..n : e[i] = IF i = index THEN s[n] ELSE s[i]
  BY <1>1, ExceptSeq
<1>3. o = SubSeq(e, 1, n - 1)
  BY DEF Overwrite
<1>4. \A i \in 1..(n - 1) : e[i] \in Piece
  BY <1>1, <1>2
<1>5. o \in Seq(Piece) /\ Len(o) = n - 1 /\ \A i \in 1..(n - 1) : o[i] = e[i]
  <2> HIDE DEF e, n, o
  <2>1. /\ SubSeq(e, 1, n - 1) \in Seq(Piece)
        /\ Len(SubSeq(e, 1, n - 1)) = IF 1 <= n - 1 THEN (n - 1) - 1 + 1 ELSE 0
        /\ \A i \in 1..((n - 1) - 1 + 1) : SubSeq(e, 1, n - 1)[i] = e[1 + i - 1]
    BY <1>1, <1>4, SubSeqProperties
  <2>2. QED
    BY <1>1, <1>3, <2>1
<1>6. \A i \in 1..(n - 1) : o[i] = IF i = index THEN s[n] ELSE s[i]
  BY <1>1, <1>2, <1>5
<1> HIDE DEF e, o
<1>7. Distinct(o)
  BY <1>1, <1>5, <1>6 DEF Distinct
<1>8. \A i \in 1..(n - 1) : o[i] # s[index] /\ \E j \in 1..n : o[i] = s[j]
  BY <1>1, <1>6 DEF Distinct
<1>9. QED
  BY <1>5, <1>7, <1>8 DEF o

\* One draw of either loop: the drawn piece joins what has been taken, and taken and
\* undrawn still repeat nothing.  With one piece left the copy keeps it, and nothing
\* is undrawn any more.
LEMMA DrawKeepsDistinct ==
  ASSUME NEW taken \in Seq(Piece), NEW s \in Seq(Piece), NEW index \in 1..Len(s),
         Distinct(taken \o s), Len(taken) + Len(s) = CARD_COUNT
  PROVE  LET more == Append(taken, s[index])
             left == Overwrite(s, index)
         IN  /\ more \in Seq(Piece) /\ left \in Seq(Piece) /\ left # <<>>
             /\ Len(more) = Len(taken) + 1
             /\ Len(s) = 1 <=> Len(more) = CARD_COUNT
             /\ Len(s) > 1 => Len(more) + Len(left) = CARD_COUNT /\ Distinct(more \o left)
             /\ Distinct(more)
<1> DEFINE more == Append(taken, s[index])
           left == Overwrite(s, index)
           m == Len(taken)
           n == Len(s)
<1>1. /\ m \in Nat /\ n \in Nat \ {0} /\ CARD_COUNT \in Nat /\ m + n = CARD_COUNT
      /\ s[index] \in Piece
  BY DeckIsNotEmpty
<1>2. Distinct(taken) /\ Distinct(s) /\ Apart(taken, s)
  BY ConcatDistinct
<1>3. /\ more \in Seq(Piece) /\ Len(more) = m + 1 /\ more[m + 1] = s[index]
      /\ \A i \in 1..m : more[i] = taken[i]
  BY <1>1, AppendProperties
<1>4. n = 1 => left = s
  BY DEF Overwrite
<1>5. /\ n > 1 => Len(left) = n - 1 /\ left \in Seq(Piece) /\ Distinct(left)
      /\ n > 1 => \A i \in 1..(n - 1) : left[i] # s[index] /\ \E j \in 1..n : left[i] = s[j]
  BY <1>2, OverwriteRemoves
<1> SUFFICES /\ more \in Seq(Piece) /\ left \in Seq(Piece) /\ left # <<>>
             /\ Len(more) = m + 1
             /\ n = 1 <=> Len(more) = CARD_COUNT
             /\ n > 1 => Len(more) + Len(left) = CARD_COUNT /\ Distinct(more \o left)
             /\ Distinct(more)
  OBVIOUS
<1> HIDE DEF more, left, m, n
<1>6. Distinct(more)
  <2>1. \A i, j \in 1..m : i # j => taken[i] # taken[j]
    BY <1>2 DEF Distinct, m
  <2>2. \A i \in 1..m : taken[i] # s[index]
    BY <1>2 DEF Apart, m
  <2>3. \A i \in 1..(m + 1) : i \in 1..m \/ i = m + 1
    BY <1>1
  <2>4. QED
    BY <1>3, <2>1, <2>2, <2>3 DEF Distinct
<1>7. n > 1 => Distinct(more \o left)
  <2> SUFFICES ASSUME n > 1 PROVE Distinct(more \o left)
    OBVIOUS
  <2>1. Apart(more, left)
    <3> SUFFICES ASSUME NEW i \in 1..(m + 1), NEW j \in 1..(n - 1) PROVE more[i] # left[j]
      BY <1>3, <1>5 DEF Apart
    <3>1. CASE i = m + 1
      BY <1>3, <1>5, <3>1
    <3>2. CASE i \in 1..m
      BY <1>2, <1>3, <1>5, <3>2 DEF Apart, m, n
    <3>3. QED
      BY <1>1, <3>1, <3>2
  <2>2. QED
    BY <1>3, <1>5, <1>6, <2>1, ConcatDistinct
<1>8. left \in Seq(Piece) /\ left # <<>>
  <2>1. CASE n = 1
    <3>1. s # <<>>
      BY EmptySeq DEF n
    <3>2. QED
      BY <1>4, <2>1, <3>1
  <2>2. CASE n > 1
    <3>1. left \in Seq(Piece) /\ Len(left) = n - 1 /\ n - 1 # 0
      BY <1>1, <1>5, <2>2
    <3>2. QED
      BY <3>1
  <2>3. QED
    BY <1>1, <2>1, <2>2
<1>9. n = 1 <=> Len(more) = CARD_COUNT
  BY <1>1, <1>3
<1>10. n > 1 => Len(more) + Len(left) = CARD_COUNT
  <2> SUFFICES ASSUME n > 1 PROVE Len(more) + Len(left) = CARD_COUNT
    OBVIOUS
  <2>1. Len(left) = n - 1
    BY <1>5
  <2>2. QED
    BY <1>1, <1>3, <2>1
<1>11. QED
  BY <1>3, <1>6, <1>7, <1>8, <1>9, <1>10, Zenon

-------------------------------------------------------------------------------
(* The inductive invariant.                                                *)

\* A new deck holds every piece and nothing is dealt (CardDealer::init_cards).
LEMMA InitIInv == Init => IInv
<1> SUFFICES ASSUME Init PROVE IInv
  OBVIOUS
<1>1. m_cards \in Seq(Piece) /\ Len(m_cards) = CARD_COUNT /\ \A i \in Piece : m_cards[i] = i
  BY DeckIsNotEmpty DEF Init, Piece
<1>2. TypeOK
  BY <1>1, DeckIsNotEmpty DEF Init, TypeOK
<1>3. Distinct(m_cards) /\ lstCard = <<>> /\ Distinct(<<>>)
  BY <1>1, DeckIsNotEmpty DEF Distinct, Piece, Init
<1>4. QED
  BY <1>1, <1>2, <1>3 DEF Init, IInv, EveryCardOnce, RankKeepsDeck, DealtOnce, RestIsComplement, RankedFirst

\* Every step keeps the inductive invariant.
LEMMA NextIInv == IInv /\ [Next]_vars => IInv'
<1> SUFFICES ASSUME IInv, [Next]_vars PROVE IInv'
  OBVIOUS
<1> USE DeckIsNotEmpty
<1> USE DEF IInv, EveryCardOnce
<1>1. ASSUME NEW wanted \in 0..(CARD_COUNT + 1), RandDealCard(wanted) PROVE IInv'
  <2>1. m_cards \in Seq(Piece) /\ Len(m_cards) = CARD_COUNT /\ Distinct(m_cards)
    BY <1>1 DEF RandDealCard, RankKeepsDeck, TypeOK
  <2>2. /\ m_cards' = <<>> /\ rest' = m_cards /\ lstCard' = <<>> /\ stage' = "rank"
        /\ count' \in 0..CARD_COUNT
    BY <1>1 DEF RandDealCard
  <2>3. <<>> \o m_cards = m_cards /\ m_cards # <<>> /\ Len(<<>>) # CARD_COUNT
    BY <2>1
  <2>4. TypeOK'
    BY <2>1, <2>2, <2>3 DEF TypeOK
  <2>5. RankKeepsDeck'
    BY <2>1, <2>2, <2>3 DEF RankKeepsDeck, Undrawn, Distinct
  <2>6. DealtOnce' /\ RestIsComplement' /\ RankedFirst'
    BY <2>2 DEF DealtOnce, Distinct, RestIsComplement, RankedFirst
  <2>7. QED
    BY <2>4, <2>5, <2>6
<1>2. ASSUME NEW index \in 1..Len(rest), RandRankCards(index) PROVE IInv'
  <2>1. /\ stage = "rank" /\ Len(m_cards) < CARD_COUNT
        /\ m_cards' = Append(m_cards, rest[index]) /\ rest' = Overwrite(rest, index)
        /\ UNCHANGED <<lstCard, count, stage>>
    BY <1>2 DEF RandRankCards
  <2>2. /\ m_cards \in Seq(Piece) /\ rest \in Seq(Piece)
        /\ Len(m_cards \o rest) = CARD_COUNT /\ Distinct(m_cards \o rest)
    BY <2>1 DEF TypeOK, RankKeepsDeck, Undrawn
  <2>3. Len(m_cards) + Len(rest) = CARD_COUNT
    BY <2>2, ConcatProperties
  <2>4. /\ m_cards' \in Seq(Piece) /\ rest' \in Seq(Piece) /\ rest' # <<>>
        /\ Len(m_cards') = Len(m_cards) + 1
        /\ Len(rest) = 1 <=> Len(m_cards') = CARD_COUNT
        /\ Len(rest) > 1 => Len(m_cards') + Len(rest') = CARD_COUNT /\ Distinct(m_cards' \o rest')
        /\ Distinct(m_cards')
    BY <2>1, <2>2, <2>3, DrawKeepsDistinct, Zenon
  <2>5. TypeOK'
    BY <2>1, <2>4 DEF TypeOK
  <2>6. RankKeepsDeck'
    <3>1. CASE Len(m_cards') = CARD_COUNT
      <4>1. m_cards' \o <<>> = m_cards'
        BY <2>4
      <4>2. QED
        BY <2>1, <2>4, <3>1, <4>1 DEF RankKeepsDeck, Undrawn
    <3>2. CASE Len(m_cards') # CARD_COUNT
      <4>1. Len(rest) > 1
        BY <2>2, <2>3, <2>4, <3>2
      <4>2. Len(m_cards' \o rest') = CARD_COUNT
        BY <2>4, <4>1, ConcatProperties
      <4>3. QED
        BY <2>1, <2>4, <3>2, <4>1, <4>2 DEF RankKeepsDeck, Undrawn
    <3>3. QED
      BY <3>1, <3>2
  <2>7. DealtOnce' /\ RestIsComplement' /\ RankedFirst'
    BY <2>1 DEF DealtOnce, Distinct, RestIsComplement, RankedFirst
  <2>8. QED
    BY <2>5, <2>6, <2>7
<1>3. ASSUME Ranked PROVE IInv'
  <2>1. /\ stage = "rank" /\ Len(m_cards) = CARD_COUNT /\ m_cards \in Seq(Piece)
        /\ rest' = m_cards /\ stage' = "deal" /\ UNCHANGED <<m_cards, lstCard, count>>
    BY <1>3 DEF Ranked, TypeOK
  <2>2. m_cards \o <<>> = m_cards
    BY <2>1
  <2>3. Distinct(m_cards)
    BY <2>1, <2>2 DEF RankKeepsDeck, Undrawn
  <2>4. lstCard = <<>> /\ <<>> \o m_cards = m_cards
    BY <2>1 DEF RankedFirst
  <2>5. TypeOK'
    BY <2>1 DEF TypeOK
  <2>6. RankKeepsDeck'
    BY <2>1, <2>3 DEF RankKeepsDeck
  <2>7. DealtOnce' /\ RestIsComplement' /\ RankedFirst'
    BY <2>1, <2>3, <2>4 DEF DealtOnce, Undrawn, RestIsComplement, RankedFirst
  <2>8. QED
    BY <2>5, <2>6, <2>7
<1>4. ASSUME NEW index \in 1..Len(rest), DealOne(index) PROVE IInv'
  <2>1. /\ stage = "deal" /\ Len(lstCard) < count
        /\ lstCard' = Append(lstCard, rest[index]) /\ rest' = Overwrite(rest, index)
        /\ UNCHANGED <<m_cards, count, stage>>
    BY <1>4 DEF DealOne
  <2>2. /\ lstCard \in Seq(Piece) /\ rest \in Seq(Piece) /\ Len(lstCard) < CARD_COUNT
        /\ Len(lstCard) + Len(rest) = CARD_COUNT /\ Distinct(lstCard \o rest)
    BY <2>1 DEF TypeOK, DealtOnce, Undrawn, RestIsComplement
  <2>3. /\ lstCard' \in Seq(Piece) /\ rest' \in Seq(Piece) /\ rest' # <<>>
        /\ Len(lstCard') = Len(lstCard) + 1
        /\ Len(rest) = 1 <=> Len(lstCard') = CARD_COUNT
        /\ Len(rest) > 1 => Len(lstCard') + Len(rest') = CARD_COUNT /\ Distinct(lstCard' \o rest')
        /\ Distinct(lstCard')
    <3>1. LET more == Append(lstCard, rest[index])
              left == Overwrite(rest, index)
          IN  /\ more \in Seq(Piece) /\ left \in Seq(Piece) /\ left # <<>>
              /\ Len(more) = Len(lstCard) + 1
              /\ Len(rest) = 1 <=> Len(more) = CARD_COUNT
              /\ Len(rest) > 1 => Len(more) + Len(left) = CARD_COUNT /\ Distinct(more \o left)
              /\ Distinct(more)
      BY <2>2, DrawKeepsDistinct, Zenon
    <3>2. QED
      BY <2>1, <3>1, Zenon
  <2>4. Len(lstCard') # CARD_COUNT => Len(rest) > 1
    BY <2>2, <2>3
  <2>5. TypeOK'
    BY <2>1, <2>3 DEF TypeOK
  <2>6. RankKeepsDeck'
    BY <2>1 DEF RankKeepsDeck
  <2>7. DealtOnce'
    <3>1. lstCard' \o <<>> = lstCard'
      BY <2>3
    <3>2. QED
      BY <2>1, <2>3, <2>4, <3>1 DEF DealtOnce, Undrawn
  <2>8. RestIsComplement' /\ RankedFirst'
    BY <2>1, <2>2, <2>3, <2>4 DEF RestIsComplement, RankedFirst
  <2>9. QED
    BY <2>5, <2>6, <2>7, <2>8
<1>5. ASSUME Dealt PROVE IInv'
  <2>1. /\ stage = "deal" /\ rest' = <<>> /\ stage' = "idle"
        /\ UNCHANGED <<m_cards, lstCard, count>>
    BY <1>5 DEF Dealt
  <2>2. Distinct(lstCard)
    <3>1. lstCard \o <<>> = lstCard
      BY DEF TypeOK
    <3>2. QED
      BY <2>1, <3>1, ConcatDistinct DEF DealtOnce, TypeOK, Undrawn
  <2>3. QED
    BY <2>1, <2>2 DEF TypeOK, RankKeepsDeck, DealtOnce, RestIsComplement, RankedFirst
<1>6. CASE UNCHANGED vars
  <2>1. UNCHANGED <<m_cards, lstCard, rest, count, stage>>
    BY <1>6 DEF vars
  <2>2. TypeOK'
    BY <2>1 DEF TypeOK
  <2>3. RankKeepsDeck' /\ DealtOnce'
    BY <2>1 DEF RankKeepsDeck, DealtOnce, Undrawn, Distinct
  <2>4. RestIsComplement' /\ RankedFirst'
    BY <2>1 DEF RestIsComplement, RankedFirst
  <2>5. QED
    BY <2>2, <2>3, <2>4
<1>7. QED
  BY <1>1, <1>2, <1>3, <1>4, <1>5, <1>6 DEF Next

\* However cards are drawn, the deck stays whole through ranking and no card is dealt
\* twice, down to the last one of the deck (rand_rank_cards and rand_deal_card).
THEOREM EveryCardOnceAlways == Spec => []EveryCardOnce
<1>1. IInv => EveryCardOnce
  BY DEF IInv
<1>2. QED
  BY <1>1, InitIInv, NextIInv, PTL DEF Spec

-------------------------------------------------------------------------------
(* The deck as a whole.                                                    *)

\* A sequence of as many pieces as the deck has, none of them twice, has them all.
LEMMA DistinctIsWhole ==
  ASSUME NEW s \in Seq(Piece), Len(s) = CARD_COUNT, Distinct(s)
  PROVE  \A p \in Piece : \E i \in Piece : s[i] = p
<1> DEFINE R == {s[i] : i \in Piece}
<1>1. CARD_COUNT \in Nat /\ s \in [Piece -> Piece]
  BY DeckIsNotEmpty DEF Piece
<1>2. IsFiniteSet(Piece) /\ Cardinality(Piece) = CARD_COUNT
  BY <1>1, FS_Interval DEF Piece
<1>3. s \in Bijection(Piece, R)
  BY <1>1 DEF Bijection, Injection, Surjection, IsInjective, Distinct, Piece
<1>4. IsFiniteSet(R) /\ Cardinality(R) = CARD_COUNT
  BY <1>2, <1>3, FS_Bijection DEF ExistsBijection
<1>5. R \subseteq Piece
  BY <1>1
<1>6. R = Piece
  BY <1>2, <1>4, <1>5, FS_Subset
<1>7. QED
  BY <1>6

\* Between two deals the deck holds every piece: none is lost over any number of deals.
THEOREM DeckIsWhole ==
  Spec => [](stage # "rank" => \A p \in Piece : \E i \in Piece : m_cards[i] = p)
<1>1. EveryCardOnce => (stage # "rank" => \A p \in Piece : \E i \in Piece : m_cards[i] = p)
  BY DistinctIsWhole DEF EveryCardOnce, TypeOK, RankKeepsDeck
<1>2. QED
  BY <1>1, EveryCardOnceAlways, PTL

-------------------------------------------------------------------------------
(* Least and greatest places.                                              *)

\* A set of numbers that is not empty has a least one.  The initial segments up to its
\* members are finite sets, and strict inclusion of those is well-founded.
LEMMA LeastOf ==
  ASSUME NEW T \in SUBSET Nat, T # {}
  PROVE  Min(T) \in T /\ \A t \in T : Min(T) <= t
<1> DEFINE F == {1..t : t \in T}
<1>1. F \in SUBSET FiniteSubsetsOf(Nat) /\ F # {}
  <2>1. ASSUME NEW t \in T PROVE 1..t \in FiniteSubsetsOf(Nat)
    <3>1. t \in Int /\ 1 \in Int /\ 1..t \in SUBSET Nat
      OBVIOUS
    <3>2. QED
      BY <3>1, FS_Interval DEF FiniteSubsetsOf
  <2>2. QED
    BY <2>1
<1>2. PICK x \in F : \A y \in F : ~(<<y, x>> \in StrictSubsetOrdering(Nat))
  BY <1>1, FS_StrictSubsetOrderingWellFounded, WFMin
<1>3. PICK m \in T : x = 1..m
  OBVIOUS
<1>4. ASSUME NEW t \in T PROVE m <= t
  <2> SUFFICES ASSUME t < m PROVE FALSE
    OBVIOUS
  <2>1. 1..t \in F /\ 1..t \subseteq 1..m /\ m \in 1..m /\ m \notin 1..t
    OBVIOUS
  <2>2. <<1..t, 1..m>> \in StrictSubsetOrdering(Nat)
    BY <2>1 DEF StrictSubsetOrdering
  <2>3. QED
    BY <1>2, <1>3, <2>1, <2>2
<1>5. QED
  BY <1>4 DEF Min

\* A set of places that is not empty has a last one.
LEMMA GreatestOf ==
  ASSUME NEW n \in Nat, NEW T \in SUBSET (1..n), T # {}
  PROVE  Max(T) \in T /\ \A t \in T : t <= Max(T)
<1> DEFINE R == {n - t : t \in T}
<1>1. R \in SUBSET Nat /\ R # {}
  <2>1. PICK t \in T : TRUE
    OBVIOUS
  <2>2. n - t \in R
    OBVIOUS
  <2>3. QED
    BY <2>2
<1>2. Min(R) \in R /\ \A r \in R : Min(R) <= r
  BY <1>1, LeastOf
<1> HIDE DEF R
<1>3. PICK m \in T : Min(R) = n - m
  BY <1>2 DEF R
<1>4. \A t \in T : n - t \in R
  BY DEF R
<1>5. \A t \in T : m >= t
  BY <1>2, <1>3, <1>4
<1>6. QED
  BY <1>5 DEF Max

-------------------------------------------------------------------------------
(* Sorted groups.                                                          *)

\* A group in the order of operator<.
Sorted(g) == \A i, j \in 1..Len(g) : i < j => ~Less(g[j], g[i])

\* The inductive invariant of a group on its way in.
GroupInv ==
  /\ joker_point \in 2..A
  /\ cards \in Seq(PokerCard) /\ Len(cards) <= MaxGroup
  /\ Sorted(cards)

\* Points and colours are numbers; the points of jokers are above the ace.
LEMMA CardIs ==
  ASSUME NEW c \in PokerCard
  PROVE  /\ c.m_point \in Nat /\ c.m_point >= 2 /\ c.m_color \in Nat
         /\ A \in Nat /\ A > 2 /\ MaxGroup \in Nat /\ MaxGroup < A
         /\ c.m_point <= A \/ c.m_point >= JOKER1
<1>1. A \in Nat /\ A > 2 /\ MaxGroup \in Nat /\ MaxGroup < A
  BY AceIsHigh, GroupFitsARun
<1>2. CASE c \in [m_point : 2..A, m_color : Color]
  <2>1. c.m_point \in 2..A /\ c.m_color \in Nat
    BY <1>2, ColorsPositive
  <2>2. QED
    BY <1>1, <2>1
<1>3. CASE c \in [m_point : {JOKER1, JOKER2}, m_color : {0}]
  <2>1. c.m_point \in {JOKER1, JOKER2} /\ c.m_color = 0
    BY <1>3
  <2>2. QED
    BY <1>1, <2>1 DEF JOKER1, JOKER2
<1>4. QED
  BY <1>2, <1>3 DEF PokerCard

\* Cards up to a place that is not above the next card come before it.
LEMMA LessOrders ==
  ASSUME NEW c \in PokerCard, NEW d \in PokerCard, NEW e \in PokerCard
  PROVE  /\ ~Less(d, c) /\ ~Less(e, d) => ~Less(e, c)
         /\ Less(c, d) => ~Less(d, c)
BY CardIs DEF Less

\* A card takes a place and those above it move up by one: the group stays sorted.
LEMMA InsertSorts ==
  ASSUME NEW g \in Seq(PokerCard), Sorted(g), NEW c \in PokerCard
  PROVE  /\ Insert(g, c) \in Seq(PokerCard) /\ Len(Insert(g, c)) = Len(g) + 1
         /\ Sorted(Insert(g, c))
<1> DEFINE n == Len(g)
           above == {i \in 1..n : Less(c, g[i])}
           place == IF above = {} THEN n + 1 ELSE Min(above)
           r == [i \in 1..(n + 1) |-> IF i < place THEN g[i] ELSE IF i = place THEN c ELSE g[i - 1]]
<1>1. n \in Nat /\ \A i \in 1..n : g[i] \in PokerCard
  OBVIOUS
<1>2. /\ place \in 1..(n + 1)
      /\ \A i \in 1..n : i < place => ~Less(c, g[i])
      /\ place <= n => Less(c, g[place])
  <2>1. above \in SUBSET (1..n) /\ above \in SUBSET Nat
    OBVIOUS
  <2>2. CASE above = {}
    BY <1>1, <2>2
  <2>3. CASE above # {}
    <3>1. place \in above /\ \A i \in above : place <= i
      BY <2>1, <2>3, LeastOf, Zenon
    <3>2. place \in 1..n /\ Less(c, g[place])
      BY <3>1
    <3>3. \A i \in 1..n : i < place => i \notin above
      BY <3>1, <3>2
    <3>4. QED
      BY <1>1, <3>2, <3>3
  <2>4. QED
    BY <2>2, <2>3
<1>3. Insert(g, c) = r
  BY DEF Insert
<1> HIDE DEF above, place
<1>4. \A i \in 1..(n + 1) : r[i] \in PokerCard
  BY <1>1, <1>2
<1>5. r \in Seq(PokerCard) /\ Len(r) = n + 1
  <2>1. r \in [1..(n + 1) -> PokerCard]
    BY <1>4
  <2> HIDE DEF r
  <2>2. QED
    BY <1>1, <2>1
<1>6. ASSUME NEW i \in 1..(n + 1), NEW j \in 1..(n + 1), i < j
      PROVE  ~Less(r[j], r[i])
  <2>1. CASE j < place
    BY <1>1, <1>2, <1>6, <2>1 DEF Sorted
  <2>2. CASE j = place
    BY <1>1, <1>2, <1>6, <2>2, LessOrders
  <2>3. CASE place < j /\ i < place
    <3>1. i \in 1..n /\ j - 1 \in 1..n /\ r[i] = g[i] /\ r[j] = g[j - 1] /\ i <= j - 1
      BY <1>1, <1>2, <1>6, <2>3
    <3>2. CASE i = j - 1
      BY <1>1, <3>1, <3>2, CardIs DEF Less
    <3>3. CASE i # j - 1
      BY <1>1, <3>1, <3>3 DEF Sorted
    <3>4. QED
      BY <3>2, <3>3
  <2>4. CASE place < j /\ i = place
    <3>1. place \in 1..n /\ j - 1 \in 1..n /\ r[i] = c /\ r[j] = g[j - 1] /\ place <= j - 1
      BY <1>1, <1>2, <1>6, <2>4
    <3>2. Less(c, g[place]) /\ g[place] \in PokerCard /\ g[j - 1] \in PokerCard
      BY <1>1, <1>2, <3>1
    <3>3. place = j - 1 \/ ~Less(g[j - 1], g[place])
      BY <3>1 DEF Sorted
    <3>4. ~Less(g[place], c)
      BY <3>2, LessOrders
    <3>5. QED
      BY <3>1, <3>2, <3>3, <3>4, LessOrders
  <2>5. CASE place < j /\ place < i
    <3>1. i - 1 \in 1..n /\ j - 1 \in 1..n /\ r[i] = g[i - 1] /\ r[j] = g[j - 1] /\ i - 1 < j - 1
      BY <1>1, <1>2, <1>6, <2>5
    <3>2. QED
      BY <3>1 DEF Sorted
  <2>6. QED
    BY <1>1, <1>2, <1>6, <2>1, <2>2, <2>3, <2>4, <2>5
<1>7. QED
  BY <1>3, <1>5, <1>6 DEF Sorted

\* Every card that joins keeps the invariant.
LEMMA GroupInvStays == GroupInv /\ [GroupNext]_groupVars => GroupInv'
<1> SUFFICES ASSUME GroupInv, [GroupNext]_groupVars PROVE GroupInv'
  OBVIOUS
<1>1. CASE UNCHANGED groupVars
  BY <1>1 DEF GroupInv, Sorted, groupVars
<1>2. ASSUME NEW c \in PokerCard, AddCard(c) PROVE GroupInv'
  <2>1. cards' = Insert(cards, c) /\ joker_point' = joker_point /\ Len(cards) < MaxGroup
    BY <1>2 DEF AddCard
  <2>2. cards' \in Seq(PokerCard) /\ Len(cards') = Len(cards) + 1 /\ Sorted(cards')
    BY <2>1, InsertSorts DEF GroupInv
  <2>3. QED
    BY <2>1, <2>2, GroupFitsARun DEF GroupInv, Sorted
<1>3. QED
  BY <1>1, <1>2 DEF GroupNext

\* A group begins empty (CardGroup::parse_msg_group).
LEMMA GroupInvAlways == GroupSpec => []GroupInv
<1>1. GroupInit => GroupInv
  BY GroupFitsARun DEF GroupInit, GroupInv, Sorted
<1>2. QED
  BY <1>1, GroupInvStays, PTL DEF GroupSpec

-------------------------------------------------------------------------------
(* Places of a group.                                                      *)

\* Between two places there is one next to the second.
LEMMA PlaceBefore ==
  ASSUME NEW n \in Nat, NEW P \in SUBSET (1..n), NEW i \in P, NEW j \in P, i < j
  PROVE  \E k \in P : i <= k /\ Adjacent(P, k, j)
<1> DEFINE T == {k \in P : k < j}
<1>1. T \in SUBSET (1..n) /\ i \in T
  OBVIOUS
<1>2. Max(T) \in T /\ \A k \in T : k <= Max(T)
  BY <1>1, GreatestOf
<1> DEFINE k == Max(T)
<1> HIDE DEF k
<1>3. k \in P /\ k < j /\ i <= k /\ \A t \in P : t < j => t <= k
  BY <1>1, <1>2 DEF k
<1>4. \A t \in P : t <= k \/ j <= t
  BY <1>3
<1>5. QED
  BY <1>3, <1>4 DEF Adjacent

\* Neighbours have the same f.
Alike(P, f) == \A i, j \in P : Adjacent(P, i, j) => f[i] = f[j]

\* What neighbours have in common all places have in common.
LEMMA AdjacentEqual ==
  ASSUME NEW n \in Nat, NEW P \in SUBSET (1..n), NEW f, Alike(P, f)
  PROVE  \A i, j \in P : f[i] = f[j]
<1>1. ASSUME NEW i \in P, NEW j \in P, i < j PROVE f[i] = f[j]
  <2> DEFINE T == {t \in P : i < t /\ f[t] # f[i]}
  <2> SUFFICES ASSUME T # {} PROVE FALSE
    BY <1>1
  <2>1. Min(T) \in T /\ \A t \in T : Min(T) <= t
    <3>1. P \in SUBSET Nat /\ T \in SUBSET P
      OBVIOUS
    <3> HIDE DEF T
    <3>2. QED
      BY <3>1, LeastOf
  <2> DEFINE m == Min(T)
  <2> HIDE DEF m
  <2>2. m \in P /\ i < m /\ f[m] # f[i] /\ \A t \in P : i < t /\ f[t] # f[i] => m <= t
    BY <2>1 DEF m
  <2>3. PICK k \in P : i <= k /\ Adjacent(P, k, m)
    BY <2>2, PlaceBefore
  <2>4. k < m /\ f[k] = f[m]
    BY <2>2, <2>3 DEF Adjacent, Alike
  <2>5. k = i \/ f[k] = f[i]
    BY <2>2, <2>3, <2>4
  <2>6. QED
    BY <2>2, <2>4, <2>5
<1>2. QED
  BY <1>1

\* Cards have one point if neighbours have.
LEMMA OnePoint ==
  ASSUME NEW n \in Nat, NEW P \in SUBSET (1..n), NEW g,
         \A i, j \in P : Adjacent(P, i, j) => g[i].m_point = g[j].m_point
  PROVE  \A i, j \in P : g[i].m_point = g[j].m_point
<1> DEFINE f == [i \in P |-> g[i].m_point]
<1>1. Alike(P, f)
  BY DEF Alike
<1>2. \A i, j \in P : f[i] = f[j]
  <2> HIDE DEF f
  <2>1. QED
    BY <1>1, AdjacentEqual
<1>3. QED
  BY <1>2

\* The cards of a sorted group rise, and so do the colours of one point.
LEMMA SortedCards ==
  ASSUME NEW g \in Seq(PokerCard), Sorted(g)
  PROVE  /\ Len(g) \in Nat
         /\ \A i \in 1..Len(g) : /\ g[i].m_point \in Nat /\ g[i].m_point >= 2 /\ g[i].m_color \in Nat
                                 /\ g[i].m_point <= A \/ g[i].m_point >= JOKER1
         /\ \A i, j \in 1..Len(g) : i < j =>
              /\ g[i].m_point <= g[j].m_point
              /\ g[i].m_point = g[j].m_point => g[i].m_color <= g[j].m_color
<1>1. \A i \in 1..Len(g) : g[i] \in PokerCard
  OBVIOUS
<1>2. \A i \in 1..Len(g) : /\ g[i].m_point \in Nat /\ g[i].m_point >= 2 /\ g[i].m_color \in Nat
                           /\ g[i].m_point <= A \/ g[i].m_point >= JOKER1
  BY <1>1, CardIs
<1>3. QED
  BY <1>2 DEF Sorted, Less

\* The natural cards of a group are not above the ace.
LEMMA NaturalIs ==
  ASSUME NEW g \in Seq(PokerCard), Sorted(g)
  PROVE  /\ NaturalPlaces(g) \in SUBSET (1..Len(g))
         /\ \A i \in NaturalPlaces(g) : g[i].m_point <= A /\ g[i].m_point # joker_point
         /\ Cardinality(NaturalPlaces(g)) \in Nat
         /\ NaturalPlaces(g) = {} => Cardinality(NaturalPlaces(g)) = 0
<1>1. NaturalPlaces(g) \in SUBSET (1..Len(g)) /\ Len(g) \in Nat
  BY DEF NaturalPlaces
<1>2. IsFiniteSet(NaturalPlaces(g))
  <2>1. Len(g) \in Int /\ 1 \in Int
    BY <1>1
  <2>2. QED
    BY <1>1, <2>1, FS_Interval, FS_Subset
<1>3. QED
  BY <1>1, <1>2, SortedCards, FS_CardinalityType, FS_EmptySet DEF NaturalPlaces, Joker

-------------------------------------------------------------------------------
(* Three of a kind.                                                        *)

\* Outside the named condition no joker separates two natural cards: neighbours among
\* the natural cards stand side by side.
LEMMA NaturalsTogether ==
  ASSUME NEW g \in Seq(PokerCard), ~WildBetween(g),
         NEW i \in NaturalPlaces(g), NEW j \in NaturalPlaces(g), i < j
  PROVE  \A k \in i..j : k \in NaturalPlaces(g)
BY DEF NaturalPlaces, WildBetween

\* Three or four cards of one point and different colours pass, and what passes is that
\* (is_cards_three_of_kind).
LEMMA KindJudged ==
  ASSUME NEW g \in Seq(PokerCard), Sorted(g)
  PROVE  /\ IsKind(g) => ThreeOfKind(g)
         /\ ThreeOfKind(g) /\ ~WildBetween(g) => IsKind(g)
<1> DEFINE P == NaturalPlaces(g)
<1>1. P \in SUBSET (1..Len(g)) /\ Len(g) \in Nat
  BY NaturalIs
<1>2. ASSUME IsKind(g) PROVE ThreeOfKind(g)
  <2>1. \A i \in 2..Len(g) : ~Joker(g[i - 1]) /\ ~Joker(g[i]) => i - 1 \in P /\ i \in P /\ i - 1 # i
    BY <1>1 DEF NaturalPlaces
  <2>2. QED
    BY <1>2, <2>1 DEF IsKind, ThreeOfKind
<1>3. ASSUME ThreeOfKind(g), ~WildBetween(g) PROVE IsKind(g)
  <2>1. \A i \in 2..Len(g) : i - 1 \in P /\ i \in P =>
          g[i].m_point = g[i - 1].m_point /\ g[i].m_color # g[i - 1].m_color
    BY <1>3 DEF ThreeOfKind, NaturalPlaces
  <2>2. ASSUME NEW i \in P, NEW j \in P, Adjacent(P, i, j)
        PROVE  j \in 2..Len(g) /\ i = j - 1
    <3>1. i < j /\ j - 1 \in P
      BY <1>1, <1>3, <2>2, NaturalsTogether DEF Adjacent
    <3>2. QED
      BY <1>1, <2>2, <3>1 DEF Adjacent
  <2>3. \A i, j \in P : g[i].m_point = g[j].m_point
    <3>1. \A i, j \in P : Adjacent(P, i, j) => g[i].m_point = g[j].m_point
      BY <2>1, <2>2
    <3> HIDE DEF P
    <3>2. QED
      BY <1>1, <3>1, OnePoint
  <2>4. ASSUME NEW i \in P, NEW j \in P, i < j PROVE g[i].m_color # g[j].m_color
    <3>1. i + 1 \in P /\ i + 1 \in 2..Len(g) /\ i \in 1..Len(g)
      BY <1>1, <1>3, <2>4, NaturalsTogether
    <3>2. g[i].m_point = g[i + 1].m_point /\ g[i].m_color # g[i + 1].m_color
      BY <2>1, <3>1
    <3>3. g[i].m_color <= g[i + 1].m_color
      BY <1>1, <3>1, <3>2, SortedCards
    <3>4. i + 1 = j \/ g[i + 1].m_color <= g[j].m_color
      BY <1>1, <2>3, <2>4, <3>1, SortedCards
    <3>5. QED
      BY <1>1, <2>4, <3>1, <3>2, <3>3, <3>4, SortedCards
  <2>5. \A i, j \in P : i # j => g[i].m_color # g[j].m_color
    BY <1>1, <2>4
  <2>6. QED
    BY <1>3, <2>3, <2>5 DEF IsKind, ThreeOfKind
<1>4. QED
  BY <1>2, <1>3

-------------------------------------------------------------------------------
(* Runs.                                                                   *)

\* The point of a card when an ace counts as the given one, and a run from low on.
Value(g, ace, i) == IF g[i].m_point = A THEN ace ELSE g[i].m_point
RunAt(g, chosen, ace, low) ==
  /\ low + Len(g) - 1 <= A
  /\ \A i \in chosen : Value(g, ace, i) \in low..(low + Len(g) - 1)
  /\ \A i, j \in chosen : /\ i # j => Value(g, ace, i) # Value(g, ace, j)
                          /\ g[i].m_color = g[j].m_color

\* A run, restated with the values named.
LEMMA RunIsAt ==
  ASSUME NEW g, NEW chosen
  PROVE  RunOf(g, chosen) <=> \E ace \in {1, A}, low \in 1..A : RunAt(g, chosen, ace, low)
BY DEF RunOf, RunAt, Value

\* In 1..m a place is next to the one before it.
LEMMA NextPlace ==
  ASSUME NEW m \in Nat, NEW i \in 1..m, NEW j \in 1..m, Adjacent(1..m, i, j)
  PROVE  j = i + 1 /\ j \in 2..m
<1>1. i < j /\ i + 1 \in 1..m
  BY DEF Adjacent
<1>2. QED
  BY <1>1 DEF Adjacent

\* What a place of 1..m has in common with the next all places have in common.
LEMMA NextEqual ==
  ASSUME NEW m \in Nat, NEW f, Alike(1..m, f)
  PROVE  \A i, j \in 1..m : f[i] = f[j]
<1> DEFINE P == 1..m
<1>1. P \in SUBSET (1..m) /\ Alike(P, f)
  OBVIOUS
<1> HIDE DEF P
<1>2. \A i, j \in P : f[i] = f[j]
  BY <1>1, AdjacentEqual
<1>3. QED
  BY <1>2 DEF P

\* Cards of which each is one above the card before it, in its colour.
LEMMA Stretch ==
  ASSUME NEW g \in Seq(PokerCard), Sorted(g), NEW m \in 1..Len(g),
         \A i \in 2..m : Plain(g, i) /\ Consecutive(g, i)
  PROVE  \A i \in 1..m : g[i].m_point = g[1].m_point + i - 1 /\ g[i].m_color = g[1].m_color
<1> DEFINE f == [i \in 1..m |-> g[i].m_point - i]
           h == [i \in 1..m |-> g[i].m_color]
<1>1. m \in Nat /\ 1 \in 1..m /\ \A i \in 1..m : g[i].m_point \in Nat
  BY SortedCards
<1>2. Alike(1..m, f) /\ Alike(1..m, h)
  <2>1. ASSUME NEW i \in 1..m, NEW j \in 1..m, Adjacent(1..m, i, j) PROVE f[i] = f[j] /\ h[i] = h[j]
    <3>1. j = i + 1 /\ j \in 2..m /\ i = j - 1
      BY <1>1, <2>1, NextPlace
    <3>2. g[j].m_point = g[i].m_point + 1 /\ g[j].m_color = g[i].m_color
      BY <3>1 DEF Plain, Consecutive
    <3>3. g[i].m_point \in Nat /\ i \in Nat
      BY <1>1
    <3>4. (g[i].m_point + 1) - (i + 1) = g[i].m_point - i
      BY <3>3
    <3>5. QED
      BY <3>1, <3>2, <3>4
  <2>2. QED
    BY <2>1 DEF Alike
<1>3. \A i \in 1..m : f[i] = f[1] /\ h[i] = h[1]
  <2>1. m \in Nat /\ 1 \in 1..m
    BY <1>1
  <2> HIDE DEF f, h
  <2>2. \A i, j \in 1..m : f[i] = f[j]
    BY <1>2, <2>1, NextEqual
  <2>3. \A i, j \in 1..m : h[i] = h[j]
    BY <1>2, <2>1, NextEqual
  <2>4. QED
    BY <2>1, <2>2, <2>3
<1>4. ASSUME NEW i \in 1..m
      PROVE  g[i].m_point = g[1].m_point + i - 1 /\ g[i].m_color = g[1].m_color
  <2>1. g[i].m_point - i = g[1].m_point - 1 /\ g[i].m_color = g[1].m_color
    BY <1>1, <1>3
  <2>2. g[i].m_point \in Nat /\ g[1].m_point \in Nat /\ i \in Nat
    BY <1>1
  <2>3. g[i].m_point = g[1].m_point + i - 1
    BY <2>1, <2>2
  <2>4. QED
    BY <2>1, <2>3
<1>5. QED
  BY <1>4

\* Numbers that rise within as many places as there are numbers leave no gap.
LEMMA Squeezed ==
  ASSUME NEW n \in Nat, NEW low \in Nat, NEW q \in [1..n -> Nat],
         \A i, j \in 1..n : i < j => q[i] < q[j],
         \A i \in 1..n : low <= q[i] /\ q[i] <= low + n - 1
  PROVE  \A i \in 1..n : q[i] = low + i - 1
<1> DEFINE below == {i \in 1..n : q[i] < low + i - 1}
           above == {i \in 1..n : q[i] > low + i - 1}
<1>1. below = {}
  <2> SUFFICES ASSUME below # {} PROVE FALSE
    OBVIOUS
  <2>1. below \in SUBSET Nat
    OBVIOUS
  <2> DEFINE i == Min(below)
  <2>2. i \in below /\ \A t \in below : i <= t
    <3> HIDE DEF below
    <3>1. QED
      BY <2>1, LeastOf
  <2> HIDE DEF i
  <2>3. i \in 1..n /\ q[i] < low + i - 1 /\ i # 1
    BY <2>2
  <2>4. i - 1 \in 1..n /\ i - 1 \notin below
    BY <2>2, <2>3
  <2>5. q[i - 1] >= low + (i - 1) - 1 /\ q[i - 1] < q[i] /\ q[i] \in Nat /\ q[i - 1] \in Nat
    BY <2>3, <2>4
  <2>6. QED
    BY <2>3, <2>5
<1>2. above = {}
  <2> SUFFICES ASSUME above # {} PROVE FALSE
    OBVIOUS
  <2>1. above \in SUBSET (1..n)
    OBVIOUS
  <2> DEFINE i == Max(above)
  <2>2. i \in above /\ \A t \in above : t <= i
    <3> HIDE DEF above
    <3>1. QED
      BY <2>1, GreatestOf
  <2> HIDE DEF i
  <2>3. i \in 1..n /\ q[i] > low + i - 1 /\ i # n
    BY <2>2
  <2>4. i + 1 \in 1..n /\ i + 1 \notin above
    BY <2>2, <2>3
  <2>5. q[i + 1] <= low + (i + 1) - 1 /\ q[i] < q[i + 1] /\ q[i] \in Nat /\ q[i + 1] \in Nat
    BY <2>3, <2>4
  <2>6. QED
    BY <2>3, <2>5
<1>3. ASSUME NEW i \in 1..n PROVE q[i] = low + i - 1
  <2>1. i \notin below /\ i \notin above
    BY <1>1, <1>2
  <2>2. ~(q[i] < low + i - 1) /\ ~(q[i] > low + i - 1) /\ q[i] \in Nat
    BY <2>1
  <2>3. QED
    BY <2>2
<1>4. QED
  BY <1>3

\* Three cards or more that are a run without jokers are judged a pure straight, and the
\* other way round unless cards sort behind an ace (is_cards_pure_straight).
LEMMA PureJudged ==
  ASSUME NEW g \in Seq(PokerCard), Sorted(g), Len(g) <= MaxGroup
  PROVE  /\ IsPureRun(g) => PureStraight(g)
         /\ PureStraight(g) /\ ~BehindAce(g) => IsPureRun(g)
<1> DEFINE n == Len(g)
<1>1. /\ n \in Nat /\ n < A /\ A \in Nat /\ A > 2 /\ JOKER1 = A + 1
      /\ \A i \in 1..n : g[i].m_point \in Nat /\ g[i].m_point >= 2 /\ g[i].m_color \in Nat
      /\ \A i, j \in 1..n : i < j => g[i].m_point <= g[j].m_point
  BY SortedCards, AceIsHigh, GroupFitsARun DEF JOKER1
<1>2. ASSUME IsPureRun(g) PROVE PureStraight(g)
  <2>1. n >= 3 /\ (\A i \in 1..n : g[i].m_point <= A) /\ RunOf(g, 1..n)
    BY <1>2 DEF IsPureRun
  <2>2. PICK ace \in {1, A}, low \in 1..A : RunAt(g, 1..n, ace, low)
    BY <2>1, RunIsAt
  <2>3. /\ low + n - 1 <= A
        /\ \A i \in 1..n : low <= Value(g, ace, i) /\ Value(g, ace, i) <= low + n - 1
        /\ \A i, j \in 1..n : i # j => Value(g, ace, i) # Value(g, ace, j)
        /\ \A i, j \in 1..n : g[i].m_color = g[j].m_color
    BY <1>1, <2>2 DEF RunAt
  <2>4. \A i, j \in 1..n : i < j => g[i].m_point < g[j].m_point
    BY <1>1, <2>3 DEF Value
  <2>5. \A i \in 2..n : Plain(g, i)
    BY <1>1, <2>1, <2>3 DEF Plain
  <2>6. CASE \A i \in 1..n : Value(g, ace, i) = g[i].m_point
    <3> DEFINE q == [i \in 1..n |-> g[i].m_point]
    <3>1. /\ q \in [1..n -> Nat] /\ low \in Nat
          /\ \A i, j \in 1..n : i < j => q[i] < q[j]
          /\ \A i \in 1..n : low <= q[i] /\ q[i] <= low + n - 1
      BY <1>1, <2>3, <2>4, <2>6
    <3>2. \A i \in 1..n : q[i] = low + i - 1
      <4> HIDE DEF q
      <4>1. QED
        BY <1>1, <3>1, Squeezed
    <3>3. \A i \in 2..n : Consecutive(g, i)
      <4> SUFFICES ASSUME NEW i \in 2..n PROVE g[i].m_point = g[i - 1].m_point + 1
        BY DEF Consecutive
      <4>1. i \in 1..n /\ i - 1 \in 1..n /\ low \in Nat
        BY <1>1
      <4>2. g[i].m_point = low + i - 1 /\ g[i - 1].m_point = low + (i - 1) - 1
        BY <3>2, <4>1
      <4>3. QED
        BY <4>1, <4>2
    <3>4. n + 1 \in 2..(n + 1) /\ \A i \in 2..((n + 1) - 1) : i \in 2..n
      BY <1>1, <2>1
    <3>5. QED
      BY <2>1, <2>5, <3>3, <3>4 DEF PureStraight
  <2>7. CASE \E i \in 1..n : Value(g, ace, i) # g[i].m_point
    <3>1. ace = 1 /\ g[n].m_point = A /\ low = 1
      <4>1. PICK i \in 1..n : g[i].m_point = A /\ ace # A
        BY <2>7 DEF Value
      <4>2. ace = 1 /\ Value(g, ace, i) = 1
        BY <4>1 DEF Value
      <4>3. i = n
        <5>1. n \in 1..n /\ i <= n /\ g[n].m_point <= A
          BY <1>1, <2>1
        <5>2. i < n => g[i].m_point < g[n].m_point
          BY <2>4, <5>1
        <5>3. QED
          BY <1>1, <4>1, <5>1, <5>2
      <4>4. QED
        BY <2>3, <4>1, <4>2, <4>3
    <3> DEFINE q == [i \in 1..(n - 1) |-> g[i].m_point]
    <3>2. \A i \in 1..(n - 1) : i \in 1..n /\ g[i].m_point < A /\ g[i].m_point <= n /\ 2 <= g[i].m_point
      <4> SUFFICES ASSUME NEW i \in 1..(n - 1)
                   PROVE  i \in 1..n /\ g[i].m_point < A /\ g[i].m_point <= n /\ 2 <= g[i].m_point
        OBVIOUS
      <4>1. i \in 1..n /\ n \in 1..n /\ i < n
        BY <1>1, <2>1
      <4>2. g[i].m_point < A
        BY <2>4, <3>1, <4>1
      <4>3. Value(g, ace, i) = g[i].m_point
        BY <1>1, <4>1, <4>2 DEF Value
      <4>4. QED
        BY <1>1, <2>3, <3>1, <4>1, <4>2, <4>3
    <3>3. /\ q \in [1..(n - 1) -> Nat] /\ n - 1 \in Nat
          /\ \A i, j \in 1..(n - 1) : i < j => q[i] < q[j]
          /\ \A i \in 1..(n - 1) : 2 <= q[i] /\ q[i] <= 2 + (n - 1) - 1
      <4>1. n - 1 \in Nat /\ 2 + (n - 1) - 1 = n
        BY <1>1, <2>1
      <4>2. \A i \in 1..(n - 1) : q[i] \in Nat /\ 2 <= q[i] /\ q[i] <= n
        BY <1>1, <3>2
      <4>3. \A i, j \in 1..(n - 1) : i < j => q[i] < q[j]
        BY <2>4, <3>2
      <4>4. QED
        BY <4>1, <4>2, <4>3
    <3>4. \A i \in 1..(n - 1) : g[i].m_point = i + 1
      <4>1. \A i \in 1..(n - 1) : q[i] = 2 + i - 1
        <5> HIDE DEF q
        <5>1. QED
          BY <3>3, Squeezed
      <4>2. QED
        BY <1>1, <4>1
    <3>5. \A i \in 2..(n - 1) : Consecutive(g, i)
      <4> SUFFICES ASSUME NEW i \in 2..(n - 1) PROVE g[i].m_point = g[i - 1].m_point + 1
        BY DEF Consecutive
      <4>1. i \in 1..(n - 1) /\ i - 1 \in 1..(n - 1)
        BY <1>1
      <4>2. QED
        BY <3>4, <4>1
    <3>6. g[n - 1].m_point = n /\ g[1].m_point = 2 /\ n - 1 \in 1..n
      BY <1>1, <2>1, <3>4
    <3>7. CASE Consecutive(g, n)
      <4>1. n + 1 \in 2..(n + 1) /\ \A i \in 2..((n + 1) - 1) : i \in 2..n /\ (i = n \/ i \in 2..(n - 1))
        BY <1>1, <2>1
      <4>2. QED
        BY <2>1, <2>5, <3>5, <3>7, <4>1 DEF PureStraight
    <3>8. CASE ~Consecutive(g, n)
      <4>1. n \in 2..(n + 1) /\ n \in 2..n /\ \A i \in 2..(n - 1) : i \in 2..n
        BY <1>1, <2>1
      <4>2. QED
        BY <2>1, <2>5, <3>1, <3>5, <3>6, <3>8, <4>1 DEF PureStraight
    <3>9. QED
      BY <3>7, <3>8
  <2>8. QED
    BY <2>6, <2>7
<1>3. ASSUME PureStraight(g), ~BehindAce(g) PROVE IsPureRun(g)
  <2>1. PICK stop \in 2..(n + 1) :
          /\ n >= 3
          /\ \A i \in 2..(stop - 1) : Plain(g, i) /\ Consecutive(g, i)
          /\ \/ stop = n + 1
             \/ /\ Plain(g, stop) /\ ~Consecutive(g, stop)
                /\ g[stop].m_point = A /\ g[1].m_point = 2
    BY <1>3 DEF PureStraight
  <2> DEFINE m == stop - 1
  <2>2. m \in 1..n /\ \A i \in 1..m : i \in 1..n
    BY <1>1, <2>1
  <2>3. \A i \in 1..m : g[i].m_point = g[1].m_point + i - 1 /\ g[i].m_color = g[1].m_color
    <3> HIDE DEF n
    <3>1. m \in 1..Len(g)
      BY <2>2 DEF n
    <3>2. QED
      BY <2>1, <3>1, Stretch
  <2>4. CASE stop = n + 1
    <3>1. m = n
      BY <1>1, <2>4
    <3>2. Plain(g, n) /\ n \in 1..n /\ 1 \in 1..n
      BY <1>1, <2>1, <2>4
    <3>3. g[n].m_point <= A /\ g[n].m_point = g[1].m_point + n - 1
      BY <1>1, <2>3, <3>1, <3>2, SortedCards DEF Plain
    <3>4. \A i \in 1..n : g[i].m_point <= A
      BY <1>1, <3>2, <3>3
    <3>5. \A i \in 1..n : Value(g, A, i) = g[i].m_point
      BY DEF Value
    <3>6. g[1].m_point \in 1..A
      BY <1>1, <3>2, <3>4
    <3>7. RunAt(g, 1..n, A, g[1].m_point)
      <4> DEFINE low == g[1].m_point
      <4>1. low \in Nat /\ low + n - 1 <= A
        BY <1>1, <3>2, <3>3
      <4>2. \A i \in 1..n : Value(g, A, i) = low + i - 1 /\ g[i].m_color = g[1].m_color
        BY <2>3, <3>1, <3>5
      <4> HIDE DEF low
      <4>3. \A i \in 1..n : low + i - 1 \in low..(low + n - 1)
        BY <1>1, <4>1
      <4>4. \A i, j \in 1..n : i # j => low + i - 1 # low + j - 1
        BY <4>1
      <4>5. RunAt(g, 1..n, A, low)
        BY <4>1, <4>2, <4>3, <4>4 DEF RunAt
      <4>6. QED
        BY <4>5 DEF low
    <3>8. RunOf(g, 1..n)
      BY <3>6, <3>7, RunIsAt
    <3>9. QED
      BY <2>1, <3>4, <3>8 DEF IsPureRun
  <2>5. CASE stop # n + 1
    <3>1. stop \in 2..n /\ Plain(g, stop) /\ g[stop].m_point = A /\ g[1].m_point = 2
      BY <1>1, <2>1, <2>5
    <3>2. stop = n /\ m = n - 1
      <4>1. stop \notin 1..(n - 1)
        BY <1>3, <3>1 DEF BehindAce
      <4>2. QED
        BY <1>1, <3>1, <4>1
    <3>3. \A i \in 1..(n - 1) : g[i].m_point = i + 1 /\ g[i].m_color = g[1].m_color
      BY <1>1, <2>3, <3>1, <3>2
    <3>4. g[n].m_color = g[1].m_color
      <4>1. n - 1 \in 1..(n - 1) /\ g[n - 1].m_color = g[n].m_color
        BY <1>1, <2>1, <3>1, <3>2 DEF Plain
      <4>2. QED
        BY <3>3, <4>1
    <3>5. \A i \in 1..n : i = n \/ i \in 1..(n - 1)
      BY <1>1
    <3>6. \A i \in 1..n : g[i].m_point <= A /\ g[i].m_color = g[1].m_color
      BY <1>1, <3>1, <3>2, <3>3, <3>4, <3>5
    <3>7. \A i \in 1..n : Value(g, 1, i) = IF i = n THEN 1 ELSE i + 1
      BY <1>1, <3>1, <3>2, <3>3, <3>5 DEF Value
    <3>8. RunAt(g, 1..n, 1, 1)
      <4>1. 1 + n - 1 <= A /\ 1 + n - 1 = n
        BY <1>1
      <4>2. \A i \in 1..n : Value(g, 1, i) \in 1..n
        BY <1>1, <2>1, <3>5, <3>7
      <4>3. \A i, j \in 1..n : i # j => Value(g, 1, i) # Value(g, 1, j)
        BY <1>1, <2>1, <3>5, <3>7
      <4>4. QED
        BY <3>6, <4>1, <4>2, <4>3 DEF RunAt
    <3>9. 1 \in 1..A
      BY <1>1
    <3>10. RunOf(g, 1..n)
      BY <3>8, <3>9, RunIsAt
    <3>11. QED
      BY <2>1, <3>6, <3>10 DEF IsPureRun
  <2>6. QED
    BY <2>4, <2>5
<1>4. QED
  BY <1>2, <1>3

\* Natural cards whose neighbours differ in point and share the colour rise in it.
LEMMA Rising ==
  ASSUME NEW g \in Seq(PokerCard), Sorted(g)
  PROVE  OneColorRising(g) <=>
           \A i, j \in NaturalPlaces(g) :
             g[i].m_color = g[j].m_color /\ (i < j => g[i].m_point < g[j].m_point)
<1> DEFINE P == NaturalPlaces(g)
           n == Len(g)
<1>1. /\ n \in Nat /\ P \in SUBSET (1..n)
      /\ \A i \in P : i \in 1..n /\ g[i].m_point \in Nat
      /\ \A i, j \in P : i < j => g[i].m_point <= g[j].m_point
  BY NaturalIs, SortedCards
<1>2. ASSUME OneColorRising(g), NEW i \in P, NEW j \in P
      PROVE  g[i].m_color = g[j].m_color /\ (i < j => g[i].m_point < g[j].m_point)
  <2>1. \A x, y \in P : Adjacent(P, x, y) => g[x].m_color = g[y].m_color /\ g[x].m_point # g[y].m_point
    BY <1>2 DEF OneColorRising
  <2>2. g[i].m_color = g[j].m_color
    <3> DEFINE f == [x \in P |-> g[x].m_color]
    <3>1. Alike(P, f)
      BY <2>1 DEF Alike
    <3>2. \A x, y \in P : f[x] = f[y]
      <4> HIDE DEF f, P, n
      <4>1. QED
        BY <1>1, <3>1, AdjacentEqual
    <3>3. QED
      BY <3>2
  <2>3. ASSUME i < j PROVE g[i].m_point < g[j].m_point
    <3>1. PICK k \in P : i <= k /\ Adjacent(P, k, j)
      <4> HIDE DEF P, n
      <4>1. QED
        BY <1>1, <1>2, <2>3, PlaceBefore
    <3>2. k < j /\ g[k].m_point # g[j].m_point
      BY <2>1, <3>1 DEF Adjacent
    <3>3. g[i].m_point <= g[k].m_point
      BY <1>1, <3>1
    <3>4. QED
      BY <1>1, <3>2, <3>3
  <2>4. QED
    BY <2>2, <2>3
<1>3. ASSUME \A i, j \in P : g[i].m_color = g[j].m_color /\ (i < j => g[i].m_point < g[j].m_point)
      PROVE  OneColorRising(g)
  <2>1. \A i, j \in P : Adjacent(P, i, j) => i < j
    BY DEF Adjacent
  <2>2. QED
    BY <1>1, <1>3, <2>1 DEF OneColorRising
<1>4. QED
  BY <1>2, <1>3

\* There are jokers enough when the points from low to high are no more than the cards.
LEMMA GapsFit ==
  ASSUME NEW g \in Seq(PokerCard), Sorted(g), NEW low \in Nat, NEW high \in Nat
  PROVE  Gaps(low, high, Cardinality(NaturalPlaces(g))) <= JokerCount(g) <=> high - low + 1 <= Len(g)
<1>1. Cardinality(NaturalPlaces(g)) \in Nat /\ Len(g) \in Nat
  BY NaturalIs
<1>2. QED
  BY <1>1 DEF Gaps, JokerCount

\* The code accepts exactly the runs that jokers complete (is_cards_straight).
LEMMA StraightJudged ==
  ASSUME NEW g \in Seq(PokerCard), Sorted(g), Len(g) <= MaxGroup
  PROVE  Straight(g) <=> IsRun(g)
<1> DEFINE n == Len(g)
           P == NaturalPlaces(g)
           first == Min(P)
           last == Max(P)
           others == P \ {last}
           second == Max(others)
           fits == g[last].m_point - g[first].m_point + 1 <= n
           fitsAce == joker_point # A /\ g[last].m_point = A /\ g[second].m_point <= n
           rises == \A i, j \in P : g[i].m_color = g[j].m_color /\ (i < j => g[i].m_point < g[j].m_point)
<1>1. /\ n \in Nat /\ n < A /\ A \in Nat /\ A > 2 /\ P \in SUBSET (1..n)
      /\ \A i \in P : /\ i \in 1..n /\ g[i].m_point \in Nat /\ g[i].m_point >= 2
                      /\ g[i].m_point <= A /\ g[i].m_point # joker_point
  BY SortedCards, NaturalIs, AceIsHigh, GroupFitsARun
<1>2. P # {} => /\ first \in P /\ last \in P
                /\ \A i \in P : first <= i /\ i <= last
  <2>1. P \in SUBSET Nat
    BY <1>1
  <2> HIDE DEF P
  <2>2. QED
    BY <1>1, <2>1, LeastOf, GreatestOf
<1>3. others # {} => second \in P /\ second # last /\ \A i \in P : i # last => i <= second
  <2>1. others \in SUBSET (1..n)
    BY <1>1
  <2>2. others # {} => second \in others /\ \A i \in others : i <= second
    <3> HIDE DEF others
    <3>1. QED
      BY <1>1, <2>1, GreatestOf
  <2>3. QED
    BY <2>2
<1>4. others = {} /\ P # {} /\ n >= 3 => fits
  <2> SUFFICES ASSUME others = {}, P # {}, n >= 3 PROVE fits
    OBVIOUS
  <2>1. first = last /\ g[last].m_point \in Nat
    BY <1>1, <1>2
  <2>2. QED
    BY <1>1, <2>1
<1>5. Straight(g) <=> n >= 3 /\ rises /\ (P # {} => fits \/ fitsAce)
  <2>1. OneColorRising(g) <=> rises
    BY Rising
  <2>2. CASE P = {}
    BY <2>1, <2>2 DEF Straight
  <2>3. CASE P # {}
    <3>1. Gaps(g[first].m_point, g[last].m_point, Cardinality(P)) <= JokerCount(g) <=> fits
      BY <1>1, <1>2, <2>3, GapsFit
    <3>2. others # {} =>
            (Gaps(1, g[second].m_point, Cardinality(P)) <= JokerCount(g) <=> g[second].m_point <= n)
      <4> SUFFICES ASSUME others # {}
                   PROVE  Gaps(1, g[second].m_point, Cardinality(P)) <= JokerCount(g) <=> g[second].m_point <= n
        OBVIOUS
      <4> DEFINE high == g[second].m_point
      <4>1. high \in Nat
        BY <1>1, <1>3
      <4> HIDE DEF high
      <4>2. Gaps(1, high, Cardinality(P)) <= JokerCount(g) <=> high - 1 + 1 <= n
        BY <4>1, GapsFit
      <4>3. high - 1 + 1 = high
        BY <4>1
      <4>4. QED
        BY <4>2, <4>3 DEF high
    <3> DEFINE gap == Gaps(g[first].m_point, g[last].m_point, Cardinality(P)) <= JokerCount(g)
               gapAce == Gaps(1, g[second].m_point, Cardinality(P)) <= JokerCount(g)
    <3>3. Straight(g) <=> /\ n >= 3 /\ OneColorRising(g)
                          /\ gap \/ (joker_point # A /\ g[last].m_point = A /\ gapAce)
      BY <2>3 DEF Straight
    <3> HIDE DEF gap, gapAce, fits, others, second, rises, n
    <3>4. gap <=> fits
      BY <3>1 DEF gap
    <3>5. others = {} => (n >= 3 => fits)
      BY <1>4, <2>3
    <3>6. others # {} => (gapAce <=> g[second].m_point <= n)
      BY <3>2 DEF gapAce
    <3>7. QED
      BY <2>1, <2>3, <3>3, <3>4, <3>5, <3>6
  <2>4. QED
    BY <2>2, <2>3
<1>6. ASSUME n >= 3, rises, P # {} => fits \/ fitsAce
      PROVE  \E ace \in {1, A}, low \in 1..A : RunAt(g, P, ace, low)
  <2>1. CASE P = {}
    <3>1. 1 \in 1..A /\ 1 + n - 1 <= A
      BY <1>1
    <3>2. RunAt(g, P, A, 1)
      BY <2>1, <3>1 DEF RunAt
    <3>3. QED
      BY <3>1, <3>2
  <2>2. CASE P # {} /\ fits
    <3> DEFINE low == IF g[last].m_point >= n THEN g[last].m_point - n + 1 ELSE 1
    <3>1. /\ g[last].m_point \in Nat /\ g[last].m_point <= A /\ g[first].m_point \in Nat
          /\ g[first].m_point >= 2 /\ g[last].m_point - g[first].m_point + 1 <= n
      BY <1>1, <1>2, <2>2
    <3>2. low \in 1..A /\ low + n - 1 <= A /\ low <= g[first].m_point /\ g[last].m_point <= low + n - 1
      <4> DEFINE top == g[last].m_point
                 bottom == g[first].m_point
      <4> HIDE DEF top, bottom
      <4>1. /\ n \in Nat /\ n < A /\ A \in Nat /\ top \in Nat /\ top <= A
            /\ bottom \in Nat /\ bottom >= 2 /\ top - bottom + 1 <= n
        BY <1>1, <3>1 DEF top, bottom
      <4>2. low = IF top >= n THEN top - n + 1 ELSE 1
        BY DEF top
      <4>3. n >= 3
        BY <1>6
      <4> HIDE DEF n, low
      <4>4. low \in 1..A /\ low + n - 1 <= A /\ low <= bottom /\ top <= low + n - 1
        BY <4>1, <4>2, <4>3
      <4>5. QED
        BY <4>4 DEF top, bottom
    <3>3. \A i \in P : g[first].m_point <= g[i].m_point /\ g[i].m_point <= g[last].m_point
      <4> SUFFICES ASSUME NEW i \in P
                   PROVE  g[first].m_point <= g[i].m_point /\ g[i].m_point <= g[last].m_point
        OBVIOUS
      <4>1. /\ first \in P /\ last \in P
            /\ i = first \/ first < i
            /\ i = last \/ i < last
        BY <1>1, <1>2, <2>2
      <4>2. /\ first < i => g[first].m_point < g[i].m_point
            /\ i < last => g[i].m_point < g[last].m_point
        BY <1>6, <4>1
      <4>3. g[i].m_point \in Nat /\ g[first].m_point \in Nat /\ g[last].m_point \in Nat
        BY <1>1, <4>1
      <4>4. QED
        BY <4>1, <4>2, <4>3
    <3>4. \A i \in P : Value(g, A, i) = g[i].m_point
      BY DEF Value
    <3> HIDE DEF low
    <3>5. \A i \in P : Value(g, A, i) \in low..(low + n - 1)
      <4> SUFFICES ASSUME NEW i \in P PROVE g[i].m_point \in low..(low + n - 1)
        BY <3>4
      <4>1. g[i].m_point \in Nat /\ g[first].m_point <= g[i].m_point /\ g[i].m_point <= g[last].m_point
        BY <1>1, <3>3
      <4> HIDE DEF first, last, fits, P, n
      <4>2. QED
        BY <1>1, <3>1, <3>2, <4>1
    <3>6. \A i, j \in P : i # j => g[i].m_point # g[j].m_point
      BY <1>1, <1>6
    <3>7. RunAt(g, P, A, low)
      BY <1>6, <3>2, <3>4, <3>5, <3>6 DEF RunAt
    <3>8. QED
      BY <3>2, <3>7
  <2>3. CASE P # {} /\ ~fits
    <3>1. others # {} /\ fitsAce
      BY <1>4, <1>6, <2>3
    <3>2. second \in P /\ last \in P /\ \A i \in P : i <= last /\ (i # last => i <= second /\ i < last)
      <4>1. second \in P /\ last \in P /\ \A i \in P : i <= last /\ (i # last => i <= second)
        BY <1>2, <1>3, <2>3, <3>1
      <4> HIDE DEF second, last
      <4>2. \A i \in P : i \in Nat
        BY <1>1
      <4>3. QED
        BY <4>1, <4>2
    <3>3. \A i \in P : i # last =>
            g[i].m_point < A /\ g[i].m_point <= n /\ g[i].m_point >= 2 /\ g[i].m_point \in Nat
      <4>i. SUFFICES ASSUME NEW i \in P, i # last
                   PROVE g[i].m_point < A /\ g[i].m_point <= n /\ g[i].m_point >= 2 /\ g[i].m_point \in Nat
        OBVIOUS
      <4>1. g[i].m_point < g[last].m_point /\ g[last].m_point = A
        BY <1>6, <3>1, <3>2, <4>i
      <4>2. i = second \/ g[i].m_point < g[second].m_point
        <5>1. i < second => g[i].m_point < g[second].m_point
          BY <1>6, <3>2
        <5>2. \A k \in P : k \in Nat
          BY <1>1
        <5> HIDE DEF second, last
        <5>3. i \in Nat /\ second \in Nat /\ i <= second
          BY <3>2, <4>i, <5>2
        <5>4. QED
          BY <5>1, <5>3
      <4>3. g[second].m_point <= n /\ g[second].m_point \in Nat
        BY <1>1, <3>1, <3>2
      <4>4. QED
        BY <1>1, <4>1, <4>2, <4>3
    <3>4. \A i \in P : Value(g, 1, i) = IF i = last THEN 1 ELSE g[i].m_point
      BY <1>1, <3>1, <3>3 DEF Value
    <3>5. \A i \in P : Value(g, 1, i) \in 1..(1 + n - 1)
      BY <1>1, <1>6, <3>3, <3>4
    <3>6. \A i, j \in P : i # j => Value(g, 1, i) # Value(g, 1, j)
      BY <1>1, <1>6, <3>3, <3>4
    <3>7. 1 \in 1..A /\ 1 + n - 1 <= A
      BY <1>1
    <3>8. RunAt(g, P, 1, 1)
      BY <1>6, <3>5, <3>6, <3>7 DEF RunAt
    <3>9. QED
      BY <3>7, <3>8
  <2>4. QED
    BY <2>1, <2>2, <2>3
<1>7. ASSUME n >= 3, NEW ace \in {1, A}, NEW low \in 1..A, RunAt(g, P, ace, low)
      PROVE  rises /\ (P # {} => fits \/ fitsAce)
  <2>1. /\ low + n - 1 <= A
        /\ \A i \in P : low <= Value(g, ace, i) /\ Value(g, ace, i) <= low + n - 1
        /\ \A i, j \in P : i # j => Value(g, ace, i) # Value(g, ace, j)
        /\ \A i, j \in P : g[i].m_color = g[j].m_color
    BY <1>1, <1>7 DEF RunAt
  <2>2. rises
    <3>1. \A i, j \in P : i < j => g[i].m_point <= g[j].m_point
      BY <1>1, SortedCards
    <3>2. \A i, j \in P : g[i].m_point = g[j].m_point => Value(g, ace, i) = Value(g, ace, j)
      BY DEF Value
    <3>3. \A i, j \in P : i < j => g[i].m_point # g[j].m_point
      BY <1>1, <2>1, <3>2
    <3>4. QED
      BY <1>1, <2>1, <3>1, <3>3
  <2>3. ASSUME P # {} PROVE fits \/ fitsAce
    <3>1. first \in P /\ last \in P /\ \A i \in P : i <= last
      BY <1>2, <2>3
    <3>2. CASE \A i \in P : Value(g, ace, i) = g[i].m_point
      <4>1. /\ low <= g[first].m_point /\ g[last].m_point <= low + n - 1
            /\ g[first].m_point \in Nat /\ g[last].m_point \in Nat /\ low \in Nat
        BY <1>1, <2>1, <3>1, <3>2
      <4>2. QED
        BY <1>1, <4>1
    <3>3. CASE \E i \in P : Value(g, ace, i) # g[i].m_point
      <4>1. PICK i \in P : g[i].m_point = A /\ ace # A
        BY <3>3 DEF Value
      <4>2. ace = 1 /\ Value(g, ace, i) = 1 /\ low = 1
        BY <1>1, <2>1, <4>1 DEF Value
      <4>3. i = last
        <5>1. i < last => g[i].m_point < g[last].m_point
          BY <2>2, <3>1
        <5>2. g[last].m_point <= A /\ g[last].m_point \in Nat /\ i <= last /\ i \in Nat /\ last \in Nat
          BY <1>1, <3>1
        <5>3. QED
          BY <1>1, <4>1, <5>1, <5>2
      <4>4. CASE others = {}
        BY <1>4, <1>7, <2>3, <4>4
      <4>5. CASE others # {}
        <5>1. second \in P /\ second # last
          BY <1>3, <4>5
        <5>2. g[second].m_point # A
          BY <2>1, <4>1, <4>3, <5>1 DEF Value
        <5>3. Value(g, ace, second) = g[second].m_point
          BY <5>2 DEF Value
        <5>4. g[second].m_point <= n
          BY <1>1, <2>1, <4>2, <5>1, <5>3
        <5>5. joker_point # A
          BY <1>1, <4>1
        <5>6. QED
          BY <4>1, <4>3, <5>4, <5>5
      <4>6. QED
        BY <4>4, <4>5
    <3>4. QED
      BY <3>2, <3>3
  <2>4. QED
    BY <2>2, <2>3
<1>8. IsRun(g) <=> n >= 3 /\ \E ace \in {1, A}, low \in 1..A : RunAt(g, P, ace, low)
  BY RunIsAt DEF IsRun
<1> HIDE DEF fits, fitsAce, rises, n, P
<1>9. QED
  BY <1>5, <1>6, <1>7, <1>8

-------------------------------------------------------------------------------
(* The judges of groups.                                                   *)

\* Whatever cards join a group, is_cards_straight accepts it exactly when jokers complete
\* it to a run of one colour, with the ace above the king or below the two.
THEOREM StraightIsRunAlways == GroupSpec => []StraightIsRun
<1>1. GroupInv => StraightIsRun
  BY StraightJudged DEF GroupInv, StraightIsRun
<1>2. QED
  BY <1>1, GroupInvAlways, PTL

\* Whatever cards join a group, is_cards_pure_straight accepts every run that no joker
\* helps, and nothing else unless cards sort behind the first ace (Combination.cpp:1155).
THEOREM PureStraightIsPureRunAlways == GroupSpec => []PureStraightIsPureRun
<1>1. GroupInv => PureStraightIsPureRun
  BY PureJudged DEF GroupInv, PureStraightIsPureRun
<1>2. QED
  BY <1>1, GroupInvAlways, PTL

\* Whatever cards join a group, is_cards_three_of_kind accepts every three or four cards of
\* one point and different colours, and nothing else unless a wild card sorts between two
\* natural ones (Combination.cpp:891).
THEOREM KindIsKindAlways == GroupSpec => []KindIsKind
<1>1. GroupInv => KindIsKind
  BY KindJudged DEF GroupInv, KindIsKind
<1>2. QED
  BY <1>1, GroupInvAlways, PTL

-------------------------------------------------------------------------------
(* Declarations.                                                           *)

\* A group as parse_msg_group lays it down.
LaidGroup == [m_type : KnownType \cup {UNKNOWN}, m_cards : Seq(PokerCard)]

\* The inductive invariant of a declaration: groups of cards, whatever their types.
DeclarationInv == groups \in Seq(LaidGroup)

\* No groups cost nothing.
LEMMA NothingLost ==
  ASSUME NEW gs, OfType(gs, GROUP_INVALID) = {}
  PROVE  LoseScore(gs) = 0
<1> DEFINE score(i) == CaculateCardScore(gs[i].m_cards)
       none == [s \in {{}} |-> 0]
<1>1. none = [s \in SUBSET {} |-> IF s = {} THEN 0 ELSE score(CHOOSE x \in s : TRUE) + none[s \ {CHOOSE x \in s : TRUE}]]
  OBVIOUS
<1> HIDE DEF score
<1>2. MapThenSumSet(score, {}) = 0
  BY <1>1 DEF MapThenSumSet, MapThenFoldSet
<1>3. QED
  BY <1>2 DEF LoseScore, score

\* The two judges agree on a declaration.
LEMMA JudgesAgree == DeclarationInv => DeclarationsAgree
<1> SUFFICES ASSUME \A i \in 1..Len(groups) : groups[i].m_type \in KnownType
             PROVE  /\ IsGroupsDeclare(groups) => CheckLoseDeclare(groups) /\ LoseScore(groups) = 0
                    /\ /\ CheckLoseDeclare(groups)
                       /\ OfType(groups, GROUP_INVALID) = {}
                       /\ Cardinality(OfType(groups, GROUP_STAIGHT)) >= 2
                       => IsGroupsDeclare(groups)
  BY DEF DeclarationsAgree
<1>1. ASSUME IsGroupsDeclare(groups) PROVE CheckLoseDeclare(groups)
  BY <1>1 DEF IsGroupsDeclare, CheckLoseDeclare, OfType, KindsHold, SecondLife
<1>2. ASSUME IsGroupsDeclare(groups) PROVE LoseScore(groups) = 0
  BY <1>2, NothingLost DEF IsGroupsDeclare
<1>3. ASSUME CheckLoseDeclare(groups), OfType(groups, GROUP_INVALID) = {},
             Cardinality(OfType(groups, GROUP_STAIGHT)) >= 2
      PROVE  IsGroupsDeclare(groups)
  <2>1. KindsHold(groups)
    BY <1>3 DEF CheckLoseDeclare, KindsHold, OfType
  <2>2. OfType(groups, GROUP_STAIGHT) # {}
    <3> SUFFICES ASSUME OfType(groups, GROUP_STAIGHT) = {} PROVE FALSE
      OBVIOUS
    <3>1. Cardinality(OfType(groups, GROUP_STAIGHT)) = 0
      BY FS_EmptySet
    <3>2. QED
      BY <1>3, <3>1
  <2>3. FirstLife(groups)
    BY <1>3, <2>2 DEF CheckLoseDeclare, OfType
  <2>4. QED
    BY <1>3, <2>1, <2>3 DEF CheckLoseDeclare, IsGroupsDeclare, SecondLife
<1>4. QED
  BY <1>1, <1>2, <1>3

\* A group reversed: the places mirror.
LEMMA Mirrored ==
  ASSUME NEW gs \in Seq(LaidGroup)
  PROVE  /\ Reverse(gs) \in Seq(LaidGroup) /\ Len(Reverse(gs)) = Len(gs)
         /\ \A i \in 1..Len(gs) : /\ Len(gs) + 1 - i \in 1..Len(gs)
                                  /\ Reverse(gs)[i] = gs[Len(gs) + 1 - i]
                                  /\ gs[i] = Reverse(gs)[Len(gs) + 1 - i]
         /\ Reverse(Reverse(gs)) = gs
<1> DEFINE n == Len(gs)
           r == Reverse(gs)
<1>1. n \in Nat /\ \A i \in 1..n : gs[i] \in LaidGroup /\ (n - i) + 1 \in 1..n
  OBVIOUS
<1>2. r = [i \in 1..n |-> gs[(n - i) + 1]]
  BY DEF Reverse
<1>3. r \in Seq(LaidGroup) /\ Len(r) = n
  BY <1>1, <1>2
<1>4. \A i \in 1..n : n + 1 - i \in 1..n /\ n + 1 - i = (n - i) + 1 /\ (n - (n + 1 - i)) + 1 = i
  BY <1>1
<1>5. \A i \in 1..n : r[i] = gs[n + 1 - i] /\ gs[i] = r[n + 1 - i]
  BY <1>2, <1>4
<1>6. Reverse(r) = gs
  <2>1. Reverse(r) = [i \in 1..n |-> r[(n - i) + 1]]
    BY <1>3 DEF Reverse
  <2>2. gs = [i \in 1..n |-> gs[i]]
    OBVIOUS
  <2>3. QED
    BY <1>4, <1>5, <2>1, <2>2
<1>7. QED
  BY <1>3, <1>4, <1>5, <1>6

\* A finite set has two members when it has different ones.
LEMMA TwoOf ==
  ASSUME NEW S, IsFiniteSet(S)
  PROVE  Cardinality(S) >= 2 <=> \E x, y \in S : x # y
<1>1. ASSUME NEW x \in S, NEW y \in S, x # y PROVE Cardinality(S) >= 2
  <2>1. IsFiniteSet({x}) /\ Cardinality({x}) = 1
    BY FS_Singleton
  <2>2. IsFiniteSet({x} \cup {y}) /\ Cardinality({x} \cup {y}) = 2
    BY <1>1, <2>1, FS_AddElement
  <2>3. {x} \cup {y} \subseteq S
    OBVIOUS
  <2>4. Cardinality({x} \cup {y}) <= Cardinality(S)
    BY <2>3, FS_Subset
  <2>5. Cardinality(S) \in Nat
    BY FS_CardinalityType
  <2>6. QED
    BY <2>2, <2>4, <2>5
<1>2. ASSUME Cardinality(S) >= 2 PROVE \E x, y \in S : x # y
  <2>1. PICK x \in S : TRUE
    BY <1>2, FS_EmptySet
  <2>2. IsFiniteSet(S \ {x}) /\ Cardinality(S \ {x}) = Cardinality(S) - 1
    BY FS_RemoveElement
  <2>3. S \ {x} # {}
    BY <1>2, <2>2, FS_EmptySet, FS_CardinalityType
  <2>4. QED
    BY <2>3
<1>3. QED
  BY <1>1, <1>2

\* The places of a type, mirrored.
LEMMA TypeMirrored ==
  ASSUME NEW gs \in Seq(LaidGroup), NEW type, NEW i \in OfType(gs, type)
  PROVE  /\ Len(gs) + 1 - i \in OfType(Reverse(gs), type)
         /\ Reverse(gs)[Len(gs) + 1 - i] = gs[i]
BY Mirrored DEF OfType

\* What the judges ask of a declaration, asked of its mirror.
LEMMA QuestionsMirrored ==
  ASSUME NEW gs \in Seq(LaidGroup)
  PROVE  /\ StraightsHold(gs) => StraightsHold(Reverse(gs))
         /\ KindsHold(gs) => KindsHold(Reverse(gs))
         /\ FirstLife(gs) => FirstLife(Reverse(gs))
         /\ SecondLife(gs) => SecondLife(Reverse(gs))
<1> DEFINE r == Reverse(gs)
<1>1. r \in Seq(LaidGroup) /\ Len(r) = Len(gs) /\ Reverse(r) = gs
  BY Mirrored
<1>2. \A type : \A i \in OfType(r, type) : \E j \in OfType(gs, type) : gs[j] = r[i]
  BY <1>1, TypeMirrored
<1>3. \A type : \A i \in OfType(gs, type) : \E j \in OfType(r, type) : r[j] = gs[i]
  BY TypeMirrored
<1>4. FirstLife(gs) => FirstLife(r)
  BY <1>3 DEF FirstLife, PureStraights
<1>5. Cardinality(OfType(gs, GROUP_STAIGHT)) >= 2 => Cardinality(OfType(r, GROUP_STAIGHT)) >= 2
  <2> DEFINE S == OfType(gs, GROUP_STAIGHT)
             T == OfType(r, GROUP_STAIGHT)
  <2>1. Len(gs) \in Nat /\ S \subseteq 1..Len(gs) /\ T \subseteq 1..Len(gs)
    BY <1>1 DEF OfType
  <2>2. IsFiniteSet(S) /\ IsFiniteSet(T)
    <3>1. Len(gs) \in Int /\ 1 \in Int
      BY <2>1
    <3>2. QED
      BY <2>1, <3>1, FS_Interval, FS_Subset
  <2>3. ASSUME NEW x \in S, NEW y \in S, x # y PROVE \E u, v \in T : u # v
    <3>1. Len(gs) + 1 - x \in T /\ Len(gs) + 1 - y \in T
      BY TypeMirrored
    <3>2. Len(gs) + 1 - x # Len(gs) + 1 - y
      BY <2>1, <2>3
    <3>3. QED
      BY <3>1, <3>2
  <2> HIDE DEF S, T
  <2>4. QED
    BY <2>2, <2>3, TwoOf DEF S, T
<1>6. StraightsHold(gs) => StraightsHold(r)
  BY <1>2 DEF StraightsHold
<1>7. KindsHold(gs) => KindsHold(r)
  BY <1>2 DEF KindsHold
<1>8. QED
  BY <1>4, <1>5, <1>6, <1>7 DEF SecondLife

\* What passes passes in the mirror.
LEMMA PassesMirrored ==
  ASSUME NEW gs \in Seq(LaidGroup)
  PROVE  /\ CheckLoseDeclare(gs) => CheckLoseDeclare(Reverse(gs))
         /\ IsGroupsDeclare(gs) => IsGroupsDeclare(Reverse(gs))
<1> DEFINE r == Reverse(gs)
<1>1. Len(gs) = Len(r) /\ \A i \in 1..Len(r) : \E j \in 1..Len(gs) : gs[j] = r[i]
  BY Mirrored
<1>2. CheckLoseDeclare(gs) => CheckLoseDeclare(r)
  BY <1>1, QuestionsMirrored DEF CheckLoseDeclare
<1>3. OfType(gs, GROUP_INVALID) = {} => OfType(r, GROUP_INVALID) = {}
  BY <1>1 DEF OfType
<1>4. IsGroupsDeclare(gs) => IsGroupsDeclare(r)
  BY <1>3, QuestionsMirrored DEF IsGroupsDeclare
<1>5. QED
  BY <1>2, <1>4

\* A declaration and its mirror are judged alike.
LEMMA OrderDecidesNothing == DeclarationInv => OrderIsFree
<1> SUFFICES ASSUME DeclarationInv PROVE OrderIsFree
  OBVIOUS
<1>1. groups \in Seq(LaidGroup) /\ Reverse(groups) \in Seq(LaidGroup) /\ Reverse(Reverse(groups)) = groups
  BY Mirrored DEF DeclarationInv
<1>2. QED
  BY <1>1, PassesMirrored DEF OrderIsFree

\* Group by group the message stays a sequence of groups (parse_msg_group).
LEMMA DeclarationInvAlways == DeclarationSpec => []DeclarationInv
<1>1. joker_point \in 2..A /\ groups = <<>> => DeclarationInv
  BY DEF DeclarationInv
<1>2. DeclarationInv /\ [DeclarationNext]_<<joker_point, groups>> => DeclarationInv'
  <2> SUFFICES ASSUME DeclarationInv, [DeclarationNext]_<<joker_point, groups>>
               PROVE  DeclarationInv'
    OBVIOUS
  <2>1. CASE DeclarationNext
    <3>1. PICK g \in Laid, type \in KnownType \cup {UNKNOWN} : ParseMsgGroup(type, g)
      BY <2>1 DEF DeclarationNext
    <3>2. CardGroup(type, g) \in LaidGroup
      BY LaidAreGroups DEF CardGroup, LaidGroup
    <3>3. QED
      BY <3>1, <3>2 DEF ParseMsgGroup, DeclarationInv
  <2>2. CASE UNCHANGED <<joker_point, groups>>
    BY <2>2 DEF DeclarationInv
  <2>3. QED
    BY <2>1, <2>2
<1>3. QED
  BY <1>1, <1>2, PTL DEF DeclarationSpec

\* For every declaration of any number of groups, is_groups_declare and check_lose_declare
\* agree where they must, and the order in which the groups are laid down decides nothing.
THEOREM DeclarationsSoundAlways == DeclarationSpec => []DeclarationsSound
<1>1. DeclarationInv => DeclarationsSound
  BY JudgesAgree, OrderDecidesNothing DEF DeclarationsSound
<1>2. QED
  BY <1>1, DeclarationInvAlways, PTL
===============================================================================
