----------------------------- MODULE AsyncRequest -----------------------------
(***************************************************************************)
(* The request table of a session (libserver/AsyncRequest.inl) and the     *)
(* part of Session.inl that feeds it: messages are numbered from one       *)
(* counter, a request is kept in m_items under its number with a callback  *)
(* and a running steady_timer, a response is matched by number.            *)
(*                                                                         *)
(* Everything but a foreign callback runs on the session's loop.  A timer  *)
(* that expires or is cancelled queues its handler on that loop, so there  *)
(* is a window between the expiry and the handler in which a response may  *)
(* still be handled.  An entry leaves the table in that handler only.      *)
(***************************************************************************)
EXTENDS Integers, Sequences

CONSTANTS
  Async,        \* requests: calls of send(msg, fun, milliseconds, io_loop)
  Plain,        \* calls of send(msg), which take numbers from the same counter
  Foreign,      \* the requests whose io_loop is the loop of another thread
  MaxAnswers    \* bound: responses the peer gives to one message

ASSUME ForeignIsAsync == Foreign \subseteq Async
ASSUME PlainIsNotAsync == Async \cap Plain = {}
ASSUME MaxAnswersIsNat == MaxAnswers \in Nat

Msg == Async \cup Plain

VARIABLES
  posted,       \* messages whose do_send handler is queued on the session loop
  m_sequenceid, \* the next number
  seqOf,        \* seqOf[m]: the number in the header of m, NoSeq before
  m_items,      \* the requests that have an entry in the table
  timer,        \* timer[r]: the steady_timer of the entry of r
  answers,      \* answers[m]: responses to m the session has received
  bound,        \* bound[r]: outcomes bound to the callback of r, in order
  ran           \* ran[r]: how many of them the callback has run with

vars == <<posted, m_sequenceid, seqOf, m_items, timer, answers, bound, ran>>

NoSeq == -1

\* A timer is unarmed, running, expired or cancelled with its handler queued,
\* or its handler has run.
TimerState == {"unarmed", "running", "expired", "cancelled", "handled"}

Answer(m)  == [kind |-> "answer",  of |-> m]
TimeOut(m) == [kind |-> "timeout", of |-> m]
Outcome == [kind : {"answer", "timeout"}, of : Msg]

Init ==
  /\ posted = {}
  /\ m_sequenceid = 0
  /\ seqOf = [m \in Msg |-> NoSeq]
  /\ m_items = {}
  /\ timer = [r \in Async |-> "unarmed"]
  /\ answers = [m \in Msg |-> 0]
  /\ bound = [r \in Async |-> <<>>]
  /\ ran = [r \in Async |-> 0]

-------------------------------------------------------------------------------
(* Helpers.                                                                *)

\* Fault: the lookup ignores the number.
FindAny(id) == m_items

\* m_items.find(id).
Find(id) == {r \in m_items : seqOf[r] = id}

\* Fault: only requests advance the number.
SetAsyncSequenceId(m) ==
  /\ seqOf' = [seqOf EXCEPT ![m] = m_sequenceid]
  /\ m_sequenceid' = IF m \in Async THEN m_sequenceid + 1 ELSE m_sequenceid

\* set_msg_sequenceid: number the message and advance the counter.
SetMsgSequenceId(m) ==
  /\ seqOf' = [seqOf EXCEPT ![m] = m_sequenceid]
  /\ m_sequenceid' = m_sequenceid + 1

\* Post the callback of r: on the session's own loop it runs at once, on
\* another loop when that loop reaches it.
Post(r, outcome) ==
  /\ bound' = [bound EXCEPT ![r] = Append(@, outcome)]
  /\ ran' = [ran EXCEPT ![r] = IF r \in Foreign THEN @ ELSE @ + 1]

\* steady_timer::cancel completes a running wait with operation_aborted and
\* has no effect on a handler that is already queued.
Cancel(r) ==
  timer' = [timer EXCEPT ![r] = IF @ = "running" THEN "cancelled" ELSE @]

-------------------------------------------------------------------------------
(* Session::send, called by any thread.  The loop runs posted handlers in  *)
(* order, but a send made on the loop itself runs at once and overtakes    *)
(* them, so any order of the pending sends is possible.                    *)
Send(m) ==
  /\ m \notin posted
  /\ seqOf[m] = NoSeq
  /\ posted' = posted \cup {m}
  /\ UNCHANGED <<m_sequenceid, seqOf, m_items, timer, answers, bound, ran>>

\* do_send_message: a plain message is numbered and written.
DoSendMessage(m) ==
  /\ m \in posted \cap Plain
  /\ posted' = posted \ {m}
  /\ SetMsgSequenceId(m)
  /\ UNCHANGED <<m_items, timer, answers, bound, ran>>

\* Fault: the entry is made but its timer never started.
SendRequestUnarmed(r) ==
  /\ m_items' = m_items \cup {r}
  /\ UNCHANGED timer

\* send_request: a number already in the table leaves the request without
\* entry and timer; otherwise the entry's constructor starts the timer.
SendRequest(r) ==
  IF Find(m_sequenceid) # {}
  THEN UNCHANGED <<m_items, timer>>
  ELSE /\ m_items' = m_items \cup {r}
       /\ timer' = [timer EXCEPT ![r] = "running"]

\* do_send_asyn_message: number the request, enter it, write it.
DoSendAsynMessage(r) ==
  /\ r \in posted \cap Async
  /\ posted' = posted \ {r}
  /\ SetMsgSequenceId(r)
  /\ SendRequest(r)
  /\ UNCHANGED <<answers, bound, ran>>

\* The timer of an entry expires and its handler is queued.
Expire(r) ==
  /\ timer[r] = "running"
  /\ timer' = [timer EXCEPT ![r] = "expired"]
  /\ UNCHANGED <<posted, m_sequenceid, seqOf, m_items, answers, bound, ran>>

\* Fault: the entry is dropped as soon as the answer is there.
AnswerAndErase(r, m) ==
  /\ Cancel(r)
  /\ Post(r, Answer(m))
  /\ m_items' = m_items \ {r}

\* AsynItem::on_response_come: cancel the timer, post the callback, keep the
\* entry until the timer's handler runs.
ItemResponseCome(r, m) ==
  /\ Cancel(r)
  /\ Post(r, Answer(m))
  /\ UNCHANGED m_items

\* on_response_come for a response to m: a number that is not in the table is
\* only logged.  The peer may answer m late, never, or more than once.
OnResponseCome(m) ==
  /\ seqOf[m] # NoSeq
  /\ answers[m] < MaxAnswers
  /\ answers' = [answers EXCEPT ![m] = @ + 1]
  /\ \/ /\ Find(seqOf[m]) = {}
        /\ UNCHANGED <<m_items, timer, bound, ran>>
     \/ \E r \in Find(seqOf[m]) : ItemResponseCome(r, m)
  /\ UNCHANGED <<posted, m_sequenceid, seqOf>>

\* Fault: the error code is ignored.
TimedOutAlways(r) == TRUE

\* The error code of the wait is success: it expired.
TimedOut(r) == timer[r] = "expired"

\* Fault: the entry is not erased.
KeepEntry(it) == UNCHANGED m_items

\* m_items.erase(it).
Erase(it) == m_items' = m_items \ {it}

\* AsyncRequest::on_response_timeout, the timer's handler: find the entry (the
\* code asserts that it is there), report the timeout unless the wait was
\* cancelled, erase the entry.
OnResponseTimeout(r) ==
  /\ timer[r] \in {"expired", "cancelled"}
  /\ timer' = [timer EXCEPT ![r] = "handled"]
  /\ \E it \in Find(seqOf[r]) :
       /\ IF TimedOut(r) THEN Post(it, TimeOut(r)) ELSE UNCHANGED <<bound, ran>>
       /\ Erase(it)
  /\ UNCHANGED <<posted, m_sequenceid, seqOf, answers>>

\* The other loop runs the next callback posted to it for r.
RunForeign(r) ==
  /\ r \in Foreign
  /\ ran[r] < Len(bound[r])
  /\ ran' = [ran EXCEPT ![r] = @ + 1]
  /\ UNCHANGED <<posted, m_sequenceid, seqOf, m_items, timer, answers, bound>>

-------------------------------------------------------------------------------
Next ==
  \/ \E m \in Msg : Send(m) \/ OnResponseCome(m)
  \/ \E m \in Plain : DoSendMessage(m)
  \/ \E r \in Async :
       DoSendAsynMessage(r) \/ Expire(r) \/ OnResponseTimeout(r) \/ RunForeign(r)

\* Loops keep running their handlers and clocks keep going; callers and the
\* peer owe nothing.
Fairness ==
  /\ \A m \in Plain : WF_vars(DoSendMessage(m))
  /\ \A r \in Async : /\ WF_vars(DoSendAsynMessage(r))
                      /\ WF_vars(Expire(r))
                      /\ WF_vars(OnResponseTimeout(r))
                      /\ WF_vars(RunForeign(r))

SafeSpec == Init /\ [][Next]_vars
Spec == SafeSpec /\ Fairness

-------------------------------------------------------------------------------
(* Properties.                                                             *)

\* Types; a callback never runs more often than it was posted.
TypeOK ==
  /\ posted \in SUBSET Msg
  /\ m_sequenceid \in Nat
  /\ seqOf \in [Msg -> Nat \cup {NoSeq}]
  /\ m_items \in SUBSET Async
  /\ timer \in [Async -> TimerState]
  /\ answers \in [Msg -> Nat]
  /\ bound \in [Async -> Seq(Outcome)]
  /\ ran \in [Async -> Nat]
  /\ \A r \in Async : ran[r] <= Len(bound[r])

\* The assert of AsyncRequest::on_response_timeout never fires: whenever a
\* timer's handler is queued, the table still has the entry it will look up,
\* whatever responses were handled since the timer expired or was cancelled.
TimeoutFindsItem ==
  \A r \in Async : timer[r] \in {"expired", "cancelled"} => r \in Find(seqOf[r])

\* A request that was sent and whose timer handler has not run has an entry
\* with a timer: the early return of send_request never drops a request, which
\* would leave its caller without any callback.
NoRequestDropped ==
  \A r \in Async :
    seqOf[r] # NoSeq /\ timer[r] # "handled" => r \in m_items /\ timer[r] # "unarmed"

\* A callback hears only answers to its own request, although plain messages
\* draw on the same counter and answers may come late or twice.
NoCrossTalk ==
  \A r \in Async : \A i \in 1..Len(bound[r]) : bound[r][i].of = r

\* A timeout is the last thing a callback hears, and it hears it once.
TimeoutIsLast ==
  \A r \in Async : \A i \in 1..Len(bound[r]) :
    bound[r][i].kind = "timeout" => i = Len(bound[r]) /\ timer[r] = "handled"

\* The table gives a request up only when its callback was called.
GivenUpWasCalled ==
  \A r \in Async : timer[r] = "handled" => bound[r] # <<>>

\* What holds of table and callbacks together: no request is dropped, and one that the
\* table has given up was called back, a timeout last.
TableInv == TypeOK /\ NoRequestDropped /\ GivenUpWasCalled /\ TimeoutIsLast

\* An answer handled while the timer still runs excludes the timeout: cancelling
\* turns the queued handler into a silent one.
CancelledNeverTimesOut ==
  [][\A r \in Async : timer[r] = "cancelled" =>
       \/ timer'[r] = "cancelled"
       \/ timer'[r] = "handled" /\ bound'[r] = bound[r]]_vars

\* Every request sent has its callback run, even if the peer never answers.
EveryRequestCalledBack == \A r \in Async : r \in posted ~> ran[r] > 0

-------------------------------------------------------------------------------
(* The table implements the contract of Session::send.                     *)
Contract == INSTANCE CallbackContract WITH
  phase <- [r \in Async |-> IF seqOf[r] = NoSeq THEN "idle"
                            ELSE IF r \in m_items THEN "open" ELSE "given_up"],
  heard <- bound

ImplementsContract == Contract!ContractSpec
===============================================================================
