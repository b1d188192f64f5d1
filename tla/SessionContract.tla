---------------------------- MODULE SessionContract ----------------------------
(***************************************************************************)
(* What an upper layer (a MessageTask) may rely on in what it is told of a *)
(* session.  The session itself reports its opening and its close, each at *)
(* most once.  The rest are requests it has read: any number of them while *)
(* it is open, and at most one after its close, read before it.            *)
(*                                                                         *)
(* A request may bear the command of an opening or a close: every task     *)
(* knows these two messages (MessageMaker), and MessageTask dispatches on  *)
(* the command alone.  The upper layer cannot tell it from the session's   *)
(* own report, so what it is told as "peer_open" or "peer_close" it takes  *)
(* for "open" or "close", any number of times, with the socket open.       *)
(*                                                                         *)
(* TcpServer implements this; the upper layers are modelled above it.      *)
(***************************************************************************)
EXTENDS Naturals, Sequences

CONSTANT Session

VARIABLE notified   \* notified[s]: what was told of s, in order

Own  == {"open", "close"}
Read == {"msg", "peer_open", "peer_close"}

Told(s, what) == \E i \in 1..Len(notified[s]) : notified[s][i] = what

ReadLate(s) ==
  \E c, i \in 1..Len(notified[s]) :
    c < i /\ notified[s][c] = "close" /\ notified[s][i] \in Read

\* Whether what may be told of s next.
MayTell(s, what) ==
  \/ what \in Own /\ ~Told(s, what)
  \/ what \in Read /\ ~ReadLate(s)

Init == notified = [s \in Session |-> <<>>]

\* One handler tells at most one thing of a session, or a request and the close its
\* handling leads to; an alive check tells of several sessions.
Telling == {<<>>, <<"open">>, <<"close">>} \cup {<<what>> : what \in Read}
             \cup {<<what, "close">> : what \in Read}

Tell ==
  \E told \in [Session -> Telling] :
    /\ \A s \in Session : \A i \in 1..Len(told[s]) : MayTell(s, told[s][i])
    /\ notified' = [s \in Session |-> notified[s] \o told[s]]

Spec == Init /\ [][Tell]_notified
===============================================================================
