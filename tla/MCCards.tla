---- MODULE MCCards ----
(* A short deck.  A behaviour deals, judges one group or a declaration, or searches a hand. *)
EXTENDS PostCard, CardDealer

MCLaid ==
  LET c(p, k) == [m_point |-> p, m_color |-> k]
      joker == c(JOKER1, 0)
  IN  {<<c(2, 1), c(3, 1), c(4, 1)>>, <<c(2, 2), c(4, 2), joker>>, <<c(3, 2), c(4, 2), c(5, 2), c(6, 2)>>,
       <<c(5, 1), c(5, 2), c(5, 3)>>, <<c(2, 1), c(5, 2)>>}

\* Two lives, and a pair with a joker; four groups; a life of four whose last card may be wild.
MCHands ==
  LET c(p, k) == [m_point |-> p, m_color |-> k]
  IN  {<<c(2, 1), c(2, 2), c(3, 1), c(3, 2), c(4, 1), c(4, 2), c(6, 1), c(6, 2), c(JOKER1, 0)>>,
       <<c(2, 1), c(2, 2), c(3, 1), c(3, 2), c(4, 1), c(4, 2),
         c(5, 1), c(5, 2), c(5, 3), c(6, 1), c(6, 2), c(6, 3)>>,
       <<c(2, 1), c(2, 2), c(3, 1), c(4, 1), c(4, 2), c(5, 1),
         c(6, 2), c(6, 3), c(JOKER1, 0), c(JOKER2, 0)>>}

parts == <<groupVars, groups, hand, vars>>

MCInit == GroupInit /\ groups = <<>> /\ hand = <<>> /\ Init

Deals == Next /\ UNCHANGED <<groupVars, groups, hand>>
Judges == GroupNext /\ UNCHANGED <<groups, hand, vars>>
Lays ==
  /\ DeclarationNext
  /\ UNCHANGED <<cards, hand, vars>>
Searches ==
  /\ (\E h \in Hands : Deal(h)) \/ (\E c \in PokerCard : Draw(c))
  /\ UNCHANGED <<groupVars, groups, vars>>

\* The parts share nothing: a behaviour is about one of them, with one joker point when
\* it deals.
Only(part) ==
  /\ part # "group" => cards = <<>>
  /\ part # "declaration" => groups = <<>>
  /\ part # "hand" => hand = <<>>
  /\ part # "deck" => Init
  /\ part = "deck" => joker_point = A

MCNext ==
  \/ Only("deck") /\ Deals
  \/ Only("group") /\ Judges
  \/ Only("declaration") /\ Lays
  \/ Only("hand") /\ Searches

MCSpec == MCInit /\ [][MCNext]_parts
====
