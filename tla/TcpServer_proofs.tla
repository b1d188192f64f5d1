---------------------------- MODULE TcpServer_proofs ----------------------------
(***************************************************************************)
(* Proofs about TcpServer for any sessions, any distribution of them over  *)
(* the loops, any limit and any sizes of the send queues.                  *)
(*                                                                         *)
(* The invariant is built in four layers, each inductive with those below  *)
(* it.  TypeInv: the types, with a write completing only while its message *)
(* is in the queue.  TableLife: the table, its ids, the sockets and what   *)
(* waits on the manager's loop agree.  NoticeInv: what was told of each    *)
(* session follows from its socket, a request told late leaves no read that *)
(* could complete, and nothing touches a session before the manager took   *)
(* it; it also makes every step one of SessionContract.  SendInv: what is  *)
(* written, and on an open session what is queued behind it, is in order,  *)
(* and the writes still posted on the session's loop are the messages that *)
(* are missing in it, in the order they were sent.                         *)
(***************************************************************************)
EXTENDS TcpServer, FiniteSetTheorems, SequenceTheorems, TLAPS

-------------------------------------------------------------------------------
(* Types.                                                                  *)

\* A completion of a write finds the message it wrote in the queue.
WrittenIsQueued == \A s \in Session : writing[s] # 0 => m_send_queue[s] # <<>>

\* Only messages handed to send are posted to be written.
PostedIsSent ==
  \A s \in Session : \A i \in 1..Len(sessionLoop[s]) :
    sessionLoop[s][i].op = "write" => sessionLoop[s][i].msg \in 1..sends[s]

TypeInv == TypeOK /\ WrittenIsQueued /\ PostedIsSent

\* The bounds and limits are numbers.
LEMMA BoundsAreNat ==
  /\ MaxSend \in Nat /\ MaxRecv \in Nat
  /\ \A n \in SessionLimits : n \in Nat
BY LimitsAreNat

\* Sequences: what is left behind the head, what is appended, the head.
LEMMA TailOfSeq ==
  ASSUME NEW S, NEW q \in Seq(S), q # <<>>
  PROVE  /\ Tail(q) \in Seq(S) /\ Len(q) \in Nat \ {0} /\ Len(Tail(q)) = Len(q) - 1
         /\ Head(q) = q[1]
         /\ \A i \in 1..Len(Tail(q)) : i + 1 \in 2..Len(q) /\ Tail(q)[i] = q[i + 1]
         /\ \A i \in 2..Len(q) : i - 1 \in 1..Len(Tail(q)) /\ Tail(q)[i - 1] = q[i]
<1>1. /\ Tail(q) \in Seq(S) /\ Len(q) \in Nat \ {0} /\ Len(Tail(q)) = Len(q) - 1
      /\ Head(q) = q[1]
      /\ \A i \in 1..Len(Tail(q)) : i + 1 \in 2..Len(q) /\ Tail(q)[i] = q[i + 1]
  OBVIOUS
<1>2. ASSUME NEW i \in 2..Len(q) PROVE i - 1 \in 1..Len(Tail(q)) /\ Tail(q)[i - 1] = q[i]
  <2>1. i - 1 \in 1..Len(Tail(q)) /\ (i - 1) + 1 = i
    BY <1>1
  <2>2. QED
    BY <1>1, <2>1
<1>3. QED
  BY <1>1, <1>2

\* An element appended.
LEMMA AppendToSeq ==
  ASSUME NEW S, NEW q \in Seq(S), NEW e \in S
  PROVE  /\ Append(q, e) \in Seq(S) /\ Append(q, e) # <<>>
         /\ Len(q) \in Nat /\ Len(Append(q, e)) = Len(q) + 1
         /\ \A i \in 1..Len(q) : i \in 1..Len(Append(q, e)) /\ Append(q, e)[i] = q[i]
         /\ Append(q, e)[Len(q) + 1] = e
         /\ \A i \in 1..Len(Append(q, e)) : i \in 1..Len(q) \/ i = Len(q) + 1
OBVIOUS

\* The head of a sequence that is not empty.
LEMMA HeadInSeq ==
  ASSUME NEW S, NEW r \in Seq(S), r # <<>>
  PROVE  Head(r) = r[1] /\ Head(r) \in S /\ Len(r) \in Nat \ {0}
OBVIOUS

SessionHandler == [op : HandlerOp, msg : 0..MaxSend]
ManagerHandler == [op : {"add", "remove"}, session : Session]

\* What may be told of a session, and what a handler may have told of it before it
\* acts on it: nothing, or the request it hands up.
Notice == Contract!Own \cup Contract!Read
Heard == {<<>>} \cup {<<what>> : what \in Contract!Read}

\* The notices are the five of the contract, and what is told stays a list of them.
LEMMA NoticesTyped ==
  /\ "open" \in Notice /\ "close" \in Notice
  /\ \A told \in Heard : told \in Seq(Notice) /\ told \o <<"close">> \in Seq(Notice)
  /\ \A q, told \in Seq(Notice) : q \o told \in Seq(Notice)
  /\ <<>> \in Heard
<1>1. "open" \in Notice /\ "close" \in Notice /\ <<>> \in Heard
  BY DEF Notice, Contract!Own, Heard
<1>2. ASSUME NEW told \in Heard PROVE told \in Seq(Notice) /\ told \o <<"close">> \in Seq(Notice)
  <2>1. told \in Seq(Notice)
    <3>1. CASE told = <<>>
      BY <3>1
    <3>2. ASSUME NEW what \in Contract!Read, told = <<what>> PROVE told \in Seq(Notice)
      <4>1. what \in Notice
        BY DEF Notice
      <4>2. QED
        BY <3>2, <4>1
    <3>3. QED
      BY <3>1, <3>2 DEF Heard
  <2>2. <<"close">> \in Seq(Notice)
    BY <1>1
  <2>3. QED
    BY <2>1, <2>2
<1>3. \A q, told \in Seq(Notice) : q \o told \in Seq(Notice)
  OBVIOUS
<1>4. QED
  BY <1>1, <1>2, <1>3

\* The types of what a close changes.
SocketsTyped ==
  /\ is_open \in [Session -> BOOLEAN]
  /\ notified \in [Session -> Seq(Notice)]
  /\ managerLoop \in Seq(ManagerHandler)
  /\ m_session_all \in SUBSET Session
  /\ m_session_id \in [Session -> Int]
  /\ \A s \in m_session_all : m_session_id[s] \in 1..m_current_session

\* Something more told of one session.
LEMMA NotifyTyped ==
  ASSUME TypeOK, NEW s \in Session, NEW told \in Seq(Notice),
         notified' = [notified EXCEPT ![s] = @ \o told]
  PROVE  notified' \in [Session -> Seq(Notice)]
<1>1. notified \in [Session -> Seq(Notice)]
  BY DEF TypeOK, Notice
<1>2. notified[s] \o told \in Seq(Notice)
  BY <1>1, NoticesTyped
<1>3. QED
  BY <1>1, <1>2

\* A close keeps the types (TcpSession::do_close).
LEMMA DoCloseTyped ==
  ASSUME TypeOK, NEW s \in Session, NEW loop \in Seq(ManagerHandler), NEW told \in Heard,
         DoClose(s, loop, told), UNCHANGED m_current_session
  PROVE  SocketsTyped'
<1>1. told \in Seq(Notice) /\ told \o <<"close">> \in Seq(Notice)
  BY NoticesTyped
<1>2. notified' \in [Session -> Seq(Notice)]
  BY <1>1, NotifyTyped DEF DoClose, Notify
<1>3. CASE ~is_open[s]
  BY <1>2, <1>3 DEF DoClose, TypeOK, SocketsTyped
<1>4. CASE is_open[s]
  <2>1. is_open' = [is_open EXCEPT ![s] = FALSE]
    BY <1>4 DEF DoClose
  <2>2. is_open' \in [Session -> BOOLEAN]
    BY <2>1 DEF TypeOK
  <2>3. CASE s \in SameLoop
    <3>1. /\ managerLoop' = loop
          /\ m_session_all' = {t \in m_session_all : m_session_id[t] # m_session_id[s]}
          /\ m_session_id' = [m_session_id EXCEPT ![s] = -1]
      BY <1>4, <2>3 DEF DoClose, DoCloseSession
    <3>2. m_session_id' \in [Session -> Int] /\ \A t \in m_session_all' : m_session_id'[t] = m_session_id[t]
      BY <3>1 DEF TypeOK
    <3>3. QED
      BY <1>2, <2>2, <3>1, <3>2 DEF TypeOK, SocketsTyped
  <2>4. CASE s \notin SameLoop
    <3>1. [op |-> "remove", session |-> s] \in ManagerHandler
      BY DEF ManagerHandler
    <3>2. managerLoop' = Append(loop, [op |-> "remove", session |-> s])
      BY <1>4, <2>4 DEF DoClose
    <3>3. managerLoop' \in Seq(ManagerHandler)
      BY <3>1, <3>2
    <3>4. QED
      BY <1>2, <1>4, <2>2, <2>4, <3>3 DEF DoClose, TypeOK, SocketsTyped
  <2>5. QED
    BY <2>3, <2>4
<1>5. QED
  BY <1>3, <1>4

\* The types of what a write changes besides.
WriterTyped ==
  /\ m_send_queue \in [Session -> Seq(1..MaxSend)]
  /\ capacity \in [Session -> Nat]
  /\ writing \in [Session -> 0..MaxSend]
  /\ wire \in [Session -> Seq(1..MaxSend)]
  /\ WrittenIsQueued

\* A write keeps the types (do_write).
LEMMA WriteTyped ==
  ASSUME TypeInv, NEW s \in Session, NEW msg \in 1..MaxSend, NEW told \in Heard,
         Write(s, msg, told), UNCHANGED m_current_session
  PROVE  SocketsTyped' /\ WriterTyped'
<1>1. CASE PushFails(s)
  <2>1. DoClose(s, managerLoop, told) /\ UNCHANGED <<m_send_queue, capacity, writing, wire>>
    BY <1>1 DEF Write, writer
  <2>2. TypeOK /\ managerLoop \in Seq(ManagerHandler)
    BY DEF TypeInv, TypeOK, ManagerHandler
  <2>3. SocketsTyped'
    BY <2>1, <2>2, DoCloseTyped
  <2>4. WriterTyped'
    BY <2>1 DEF TypeInv, TypeOK, WriterTyped, WrittenIsQueued
  <2>5. QED
    BY <2>3, <2>4
<1>2. CASE ~PushFails(s)
  <2>1. /\ m_send_queue' = [m_send_queue EXCEPT ![s] = Append(@, msg)]
        /\ capacity' = [capacity EXCEPT ![s] = IF Full(s) THEN 2 * @ ELSE @]
        /\ StartWrite(s, msg)
        /\ notified' = [notified EXCEPT ![s] = @ \o told]
        /\ UNCHANGED <<managerLoop, m_session_all, m_session_id, is_open, wire>>
    BY <1>2 DEF Write, Notify
  <2>2. m_send_queue[s] \in Seq(1..MaxSend) /\ Append(m_send_queue[s], msg) # <<>>
    <3>1. m_send_queue[s] \in Seq(1..MaxSend)
      BY DEF TypeInv, TypeOK
    <3>2. QED
      BY <3>1, AppendToSeq
  <2>3. m_send_queue' \in [Session -> Seq(1..MaxSend)]
    BY <2>1 DEF TypeInv, TypeOK
  <2>4. capacity' \in [Session -> Nat]
    BY <2>1 DEF TypeInv, TypeOK
  <2>5. writing' \in [Session -> 0..MaxSend]
    BY <2>1 DEF TypeInv, TypeOK, StartWrite
  <2>6. WrittenIsQueued'
    <3>1. m_send_queue'[s] # <<>>
      BY <2>1, <2>2 DEF TypeInv, TypeOK
    <3>2. \A t \in Session \ {s} : writing'[t] = writing[t] /\ m_send_queue'[t] = m_send_queue[t]
      BY <2>1 DEF TypeInv, TypeOK, StartWrite
    <3>3. QED
      BY <3>1, <3>2 DEF TypeInv, WrittenIsQueued
  <2>7. notified' \in [Session -> Seq(Notice)]
    BY <2>1, NoticesTyped, NotifyTyped DEF TypeInv
  <2>8. SocketsTyped'
    BY <2>1, <2>7 DEF TypeInv, TypeOK, SocketsTyped, ManagerHandler
  <2>9. WriterTyped'
    BY <2>1, <2>3, <2>4, <2>5, <2>6 DEF TypeInv, TypeOK, WriterTyped
  <2>10. QED
    BY <2>8, <2>9
<1>3. QED
  BY <1>1, <1>2

\* What the upper layer does on the session's own loop keeps the types.
LEMMA ActsHereTyped ==
  ASSUME TypeInv, NEW s \in Session, NEW told \in Heard, ActsHere(s, told),
         UNCHANGED <<m_current_session, sessionLoop>>
  PROVE  /\ SocketsTyped' /\ WriterTyped' /\ PostedIsSent'
         /\ sends' \in [Session -> 0..MaxSend] /\ here' \in [Session -> SUBSET (1..MaxSend)]
<1>1. /\ sends \in [Session -> 0..MaxSend] /\ here \in [Session -> SUBSET (1..MaxSend)]
      /\ TypeOK /\ managerLoop \in Seq(ManagerHandler)
  BY DEF TypeInv, TypeOK, ManagerHandler
<1>2. CASE DoClose(s, managerLoop, told) /\ UNCHANGED <<writer, sends, here>>
  <2>1. SocketsTyped'
    BY <1>1, <1>2, DoCloseTyped
  <2>2. QED
    BY <1>1, <1>2, <2>1 DEF writer, TypeInv, TypeOK, WriterTyped, WrittenIsQueued, PostedIsSent
<1>3. CASE /\ sends[s] < MaxSend
           /\ sends' = [sends EXCEPT ![s] = @ + 1]
           /\ here' = [here EXCEPT ![s] = @ \cup {sends'[s]}]
           /\ Write(s, sends'[s], told)
  <2>1. sends[s] \in Nat /\ sends'[s] = sends[s] + 1 /\ sends[s] + 1 \in 1..MaxSend
        /\ \A t \in Session \ {s} : sends'[t] = sends[t]
    BY <1>1, <1>3, BoundsAreNat
  <2>2. sends' \in [Session -> 0..MaxSend]
    <3>1. sends[s] + 1 \in 0..MaxSend
      BY <2>1, BoundsAreNat
    <3>2. QED
      BY <1>1, <1>3, <3>1
  <2>3. here' \in [Session -> SUBSET (1..MaxSend)]
    <3>1. sends'[s] \in 1..MaxSend
      BY <2>1
    <3>2. here[s] \cup {sends'[s]} \in SUBSET (1..MaxSend)
      BY <1>1, <3>1
    <3>3. QED
      BY <1>1, <1>3, <3>2
  <2>4. SocketsTyped' /\ WriterTyped'
    BY <1>3, <2>1, WriteTyped
  <2>5. PostedIsSent'
    <3> SUFFICES ASSUME NEW t \in Session, NEW i \in 1..Len(sessionLoop[t]),
                        sessionLoop[t][i].op = "write"
                 PROVE  sessionLoop[t][i].msg \in 1..sends'[t]
      BY DEF PostedIsSent
    <3>1. sessionLoop[t][i].msg \in 1..sends[t] /\ sends[t] \in Nat
      BY <1>1, BoundsAreNat DEF PostedIsSent, TypeInv
    <3>2. sends'[t] = sends[t] \/ sends'[t] = sends[t] + 1
      BY <2>1
    <3>3. QED
      BY <3>1, <3>2
  <2>6. QED
    BY <2>2, <2>3, <2>4, <2>5
<1>4. QED
  BY <1>2, <1>3 DEF ActsHere

\* The handlers of a session's loop after its head is taken.
LEMMA SessionTakesTail ==
  ASSUME TypeInv, NEW s \in Session, NEW op, SessionTakes(s, op)
  PROVE  /\ sessionLoop' \in [Session -> Seq(SessionHandler)]
         /\ sessionLoop[s] \in Seq(SessionHandler) /\ Len(sessionLoop[s]) \in Nat \ {0}
         /\ sessionLoop[s][1].op = op
         /\ Len(sessionLoop'[s]) = Len(sessionLoop[s]) - 1
         /\ \A i \in 1..Len(sessionLoop'[s]) :
              i + 1 \in 2..Len(sessionLoop[s]) /\ sessionLoop'[s][i] = sessionLoop[s][i + 1]
         /\ \A t \in Session \ {s} : sessionLoop'[t] = sessionLoop[t]
         /\ UNCHANGED sends => PostedIsSent'
<1>1. sessionLoop \in [Session -> Seq(SessionHandler)] /\ sessionLoop[s] # <<>>
      /\ sessionLoop' = [sessionLoop EXCEPT ![s] = Tail(@)]
  BY DEF TypeInv, TypeOK, SessionTakes, SessionHandler
<1> DEFINE q == sessionLoop[s]
<1>2. q \in Seq(SessionHandler) /\ q # <<>>
  BY <1>1
<1>3. /\ Tail(q) \in Seq(SessionHandler) /\ Len(q) \in Nat \ {0} /\ Len(Tail(q)) = Len(q) - 1
      /\ Head(q) = q[1]
      /\ \A i \in 1..Len(Tail(q)) : i + 1 \in 2..Len(q) /\ Tail(q)[i] = q[i + 1]
  BY <1>2
<1>4. sessionLoop'[s] = Tail(q) /\ \A t \in Session \ {s} : sessionLoop'[t] = sessionLoop[t]
  BY <1>1
<1>5. sessionLoop' \in [Session -> Seq(SessionHandler)]
  BY <1>1, <1>3
<1>6. q[1].op = op
  BY <1>3 DEF SessionTakes
<1>7. ASSUME UNCHANGED sends PROVE PostedIsSent'
  <2> SUFFICES ASSUME NEW t \in Session, NEW i \in 1..Len(sessionLoop'[t]),
                      sessionLoop'[t][i].op = "write"
               PROVE  sessionLoop'[t][i].msg \in 1..sends[t]
    BY <1>7 DEF PostedIsSent
  <2>1. CASE t # s
    BY <1>4, <2>1 DEF PostedIsSent, TypeInv
  <2>2. CASE t = s
    <3>1. i \in 1..Len(Tail(q)) /\ sessionLoop'[s][i] = Tail(q)[i]
      BY <1>4, <2>2
    <3>2. i + 1 \in 1..Len(q) /\ sessionLoop'[s][i] = q[i + 1]
      BY <1>3, <3>1
    <3> HIDE DEF q
    <3>3. q[i + 1].msg \in 1..sends[s]
      BY <2>2, <3>2 DEF PostedIsSent, TypeInv, q
    <3>4. QED
      BY <2>2, <3>2, <3>3
  <2>3. QED
    BY <2>1, <2>2
<1>8. QED
  BY <1>2, <1>3, <1>4, <1>5, <1>6, <1>7

\* The handlers of a session's loop after one more is posted to it.
LEMMA SessionLoopAppend ==
  ASSUME TypeInv, NEW s \in Session, NEW h \in SessionHandler,
         sessionLoop' = [sessionLoop EXCEPT ![s] = Append(@, h)]
  PROVE  /\ sessionLoop' \in [Session -> Seq(SessionHandler)]
         /\ Len(sessionLoop[s]) \in Nat
         /\ Len(sessionLoop'[s]) = Len(sessionLoop[s]) + 1
         /\ sessionLoop'[s][Len(sessionLoop[s]) + 1] = h
         /\ \A i \in 1..Len(sessionLoop[s]) : sessionLoop'[s][i] = sessionLoop[s][i]
         /\ \A t \in Session \ {s} : sessionLoop'[t] = sessionLoop[t]
         /\ UNCHANGED sends /\ h.op # "write" => PostedIsSent'
<1>1. sessionLoop \in [Session -> Seq(SessionHandler)]
  BY DEF TypeInv, TypeOK, SessionHandler
<1> DEFINE q == sessionLoop[s]
<1>2. q \in Seq(SessionHandler)
  BY <1>1
<1>3. /\ Append(q, h) \in Seq(SessionHandler) /\ Len(q) \in Nat /\ Len(Append(q, h)) = Len(q) + 1
      /\ Append(q, h)[Len(q) + 1] = h /\ \A i \in 1..Len(q) : Append(q, h)[i] = q[i]
  BY <1>2
<1>4. sessionLoop'[s] = Append(q, h) /\ \A t \in Session \ {s} : sessionLoop'[t] = sessionLoop[t]
  BY <1>1
<1>5. sessionLoop' \in [Session -> Seq(SessionHandler)]
  BY <1>1, <1>3
<1>6. ASSUME UNCHANGED sends, h.op # "write" PROVE PostedIsSent'
  <2> SUFFICES ASSUME NEW t \in Session, NEW i \in 1..Len(sessionLoop'[t]),
                      sessionLoop'[t][i].op = "write"
               PROVE  sessionLoop'[t][i].msg \in 1..sends[t]
    BY <1>6 DEF PostedIsSent
  <2>1. CASE t # s
    BY <1>4, <2>1 DEF PostedIsSent, TypeInv
  <2>2. CASE t = s
    <3>1. i \in 1..Len(q) /\ sessionLoop'[s][i] = q[i]
      BY <1>3, <1>4, <1>6, <2>2
    <3>2. QED
      BY <2>2, <3>1 DEF PostedIsSent, TypeInv
  <2>3. QED
    BY <2>1, <2>2
<1>7. QED
  BY <1>3, <1>4, <1>5, <1>6

\* The two handlers a session on another loop is started with (TcpSession::start).
LEMMA SessionLoopStarted ==
  ASSUME TypeInv, NEW s \in Session, s \notin SameLoop, Start(s)
  PROVE  /\ sessionLoop' \in [Session -> Seq(SessionHandler)]
         /\ Len(sessionLoop[s]) \in Nat
         /\ Len(sessionLoop'[s]) = Len(sessionLoop[s]) + 2
         /\ sessionLoop'[s][Len(sessionLoop[s]) + 1] = Handler("read_head_len", 0)
         /\ sessionLoop'[s][Len(sessionLoop[s]) + 2] = Handler("session_open", 0)
         /\ \A i \in 1..Len(sessionLoop[s]) : sessionLoop'[s][i] = sessionLoop[s][i]
         /\ \A t \in Session \ {s} : sessionLoop'[t] = sessionLoop[t]
         /\ UNCHANGED sends => PostedIsSent'
<1> DEFINE a == Handler("read_head_len", 0)
           b == Handler("session_open", 0)
           q == sessionLoop[s]
<1>1. a \in SessionHandler /\ b \in SessionHandler
  BY LimitsAreNat DEF Handler, SessionHandler, HandlerOp
<1>2. /\ sessionLoop \in [Session -> Seq(SessionHandler)] /\ q \in Seq(SessionHandler)
      /\ sessionLoop' = [sessionLoop EXCEPT ![s] = q \o <<a, b>>]
  BY DEF TypeInv, TypeOK, SessionHandler, Start
<1> HIDE DEF a, b
<1>3. /\ q \o <<a, b>> \in Seq(SessionHandler) /\ Len(q) \in Nat /\ Len(q \o <<a, b>>) = Len(q) + 2
      /\ (q \o <<a, b>>)[Len(q) + 1] = a /\ (q \o <<a, b>>)[Len(q) + 2] = b
      /\ \A i \in 1..Len(q) : (q \o <<a, b>>)[i] = q[i]
  BY <1>1, <1>2
<1>4. sessionLoop'[s] = q \o <<a, b>> /\ \A t \in Session \ {s} : sessionLoop'[t] = sessionLoop[t]
  BY <1>2
<1>5. sessionLoop' \in [Session -> Seq(SessionHandler)]
  BY <1>2, <1>3
<1>6. ASSUME UNCHANGED sends PROVE PostedIsSent'
  <2> SUFFICES ASSUME NEW t \in Session, NEW i \in 1..Len(sessionLoop'[t]),
                      sessionLoop'[t][i].op = "write"
               PROVE  sessionLoop'[t][i].msg \in 1..sends[t]
    BY <1>6 DEF PostedIsSent
  <2>1. CASE t # s
    BY <1>4, <2>1 DEF PostedIsSent, TypeInv
  <2>2. CASE t = s
    <3>1. a.op # "write" /\ b.op # "write"
      BY DEF a, b, Handler
    <3>2. i \in 1..(Len(q) + 2) /\ Len(q) \in Nat
      BY <1>3, <1>4, <2>2
    <3>3. i \in 1..Len(q) \/ i = Len(q) + 1 \/ i = Len(q) + 2
      BY <3>2
    <3>4. i \in 1..Len(q)
      BY <1>3, <1>4, <2>2, <3>1, <3>3
    <3>5. sessionLoop'[s][i] = q[i]
      BY <1>3, <1>4, <3>4
    <3>6. QED
      BY <2>2, <3>4, <3>5 DEF PostedIsSent, TypeInv
  <2>3. QED
    BY <2>1, <2>2
<1>7. QED
  BY <1>3, <1>4, <1>5, <1>6 DEF a, b

\* The checks posted by check_session_alive.
LEMMA PostChecksAppend ==
  ASSUME TypeInv, PostChecks
  PROVE  /\ sessionLoop' \in [Session -> Seq(SessionHandler)]
         /\ \A s \in Session :
              /\ Len(sessionLoop[s]) \in Nat /\ Len(sessionLoop'[s]) >= Len(sessionLoop[s])
              /\ \A i \in 1..Len(sessionLoop[s]) : sessionLoop'[s][i] = sessionLoop[s][i]
              /\ \A i \in 1..Len(sessionLoop'[s]) :
                   i \in 1..Len(sessionLoop[s]) \/ sessionLoop'[s][i].op = "check_alive"
              /\ s \notin m_session_all => sessionLoop'[s] = sessionLoop[s]
         /\ UNCHANGED sends => PostedIsSent'
<1> DEFINE h == Handler("check_alive", 0)
<1>1. h \in SessionHandler /\ h.op = "check_alive"
  BY LimitsAreNat DEF Handler, SessionHandler, HandlerOp
<1>2. sessionLoop \in [Session -> Seq(SessionHandler)]
  BY DEF TypeInv, TypeOK, SessionHandler
<1>3. \A s \in Session : sessionLoop'[s] = IF s \in m_session_all \ SameLoop
                                          THEN Append(sessionLoop[s], h) ELSE sessionLoop[s]
  BY DEF PostChecks
<1> HIDE DEF h
<1>4. ASSUME NEW s \in Session
      PROVE  /\ sessionLoop'[s] \in Seq(SessionHandler)
             /\ Len(sessionLoop[s]) \in Nat /\ Len(sessionLoop'[s]) >= Len(sessionLoop[s])
             /\ \A i \in 1..Len(sessionLoop[s]) : sessionLoop'[s][i] = sessionLoop[s][i]
             /\ \A i \in 1..Len(sessionLoop'[s]) :
                  i \in 1..Len(sessionLoop[s]) \/ sessionLoop'[s][i].op = "check_alive"
             /\ s \notin m_session_all => sessionLoop'[s] = sessionLoop[s]
  <2> DEFINE q == sessionLoop[s]
  <2>1. q \in Seq(SessionHandler)
    BY <1>2
  <2>2. CASE s \in m_session_all \ SameLoop
    <3>1. sessionLoop'[s] = Append(q, h)
      BY <1>3, <2>2
    <3>2. /\ Append(q, h) \in Seq(SessionHandler) /\ Len(q) \in Nat /\ Len(Append(q, h)) = Len(q) + 1
          /\ \A i \in 1..Len(q) : Append(q, h)[i] = q[i]
          /\ Append(q, h)[Len(q) + 1] = h
      BY <1>1, <2>1
    <3> HIDE DEF q
    <3>3. \A i \in 1..(Len(q) + 1) : i \in 1..Len(q) \/ i = Len(q) + 1
      BY <3>2
    <3>4. QED
      BY <1>1, <2>2, <3>1, <3>2, <3>3 DEF q
  <2>3. CASE s \notin m_session_all \ SameLoop
    BY <1>3, <2>1, <2>3
  <2>4. QED
    BY <2>2, <2>3
<1>5. sessionLoop' \in [Session -> Seq(SessionHandler)]
  BY <1>4 DEF PostChecks
<1>6. ASSUME UNCHANGED sends PROVE PostedIsSent'
  BY <1>4, <1>6 DEF PostedIsSent, TypeInv
<1>7. QED
  BY <1>4, <1>5, <1>6

\* Initially nothing is accepted, queued, told or sent.
LEMMA InitTypeInv == Init => TypeInv
<1> USE LimitsAreNat, SizesPositive
<1> SUFFICES ASSUME Init PROVE TypeInv
  OBVIOUS
<1>1. /\ m_session_id \in [Session -> Int] /\ 0 \in 0..MaxSend /\ INIT_SIZE \in Nat
      /\ \A S : <<>> \in Seq(S)
  BY DEF Init
<1>2. TypeOK
  BY <1>1 DEF Init, TypeOK, Part
<1>3. WrittenIsQueued /\ PostedIsSent
  BY DEF Init, WrittenIsQueued, PostedIsSent
<1>4. QED
  BY <1>2, <1>3 DEF TypeInv

-------------------------------------------------------------------------------
(* Each step keeps the types.                                              *)

\* do_add_session, over the limit and below it.
LEMMA RefuseTyped == ASSUME TypeInv, UNCHANGED m_max_session_count, NEW s \in Session, RefuseSession(s) PROVE TypeInv'
<1>1. managerLoop # <<>> /\ Tail(managerLoop) \in Seq(ManagerHandler)
  BY DEF RefuseSession, ManagerTakes, TypeInv, TypeOK, ManagerHandler
<1>2. Handler("close", 0) \in SessionHandler /\ Handler("close", 0).op # "write"
  BY BoundsAreNat DEF Handler, SessionHandler, HandlerOp
<1>3. /\ status' = [status EXCEPT ![s] = "refused"]
      /\ UNCHANGED <<m_current_session, alive, reading, readable, m_send_queue, capacity,
                     writing, wire, sends, here, crashed>>
  BY DEF RefuseSession, reader, writer
<1>4. WrittenIsQueued'
  BY <1>3 DEF WrittenIsQueued, TypeInv
<1>5. CASE s \in SameLoop
  <2>1. DoClose(s, Tail(managerLoop), <<>>) /\ UNCHANGED sessionLoop
    BY <1>5 DEF RefuseSession
  <2>2. PostedIsSent'
    BY <1>3, <2>1 DEF PostedIsSent, TypeInv
  <2>3. SocketsTyped'
    BY <1>1, <1>3, <2>1, DoCloseTyped, NoticesTyped DEF TypeInv
  <2>4. QED
    BY <1>3, <1>4, <2>1, <2>2, <2>3 DEF TypeInv, TypeOK, SocketsTyped, ManagerHandler, Notice
<1>6. CASE s \notin SameLoop
  <2>1. /\ managerLoop' = Tail(managerLoop)
        /\ sessionLoop' = [sessionLoop EXCEPT ![s] = Append(@, Handler("close", 0))]
        /\ UNCHANGED <<m_session_all, m_session_id, is_open, notified>>
    BY <1>6 DEF RefuseSession
  <2>2. sessionLoop' \in [Session -> Seq(SessionHandler)] /\ PostedIsSent'
    BY <1>2, <1>3, <2>1, SessionLoopAppend
  <2>3. QED
    BY <1>1, <1>3, <1>4, <2>1, <2>2 DEF TypeInv, TypeOK, ManagerHandler, SessionHandler
<1>7. QED
  BY <1>5, <1>6

\* do_add_session below the limit.
LEMMA AddTyped ==
  ASSUME TypeInv, UNCHANGED m_max_session_count, NEW s \in Session, AddSession(s)
  PROVE  TypeInv'
<1>1. managerLoop' \in Seq(ManagerHandler)
  BY DEF AddSession, ManagerTakes, TypeInv, TypeOK, ManagerHandler
<1>2. /\ m_session_all' \in SUBSET Session /\ m_session_id' \in [Session -> Int]
      /\ m_current_session' \in Nat
      /\ \A t \in m_session_all' : m_session_id'[t] \in 1..m_current_session'
  <2>1. /\ m_session_all' = m_session_all \cup {s} /\ m_current_session' = m_current_session + 1
        /\ m_session_id' = [m_session_id EXCEPT ![s] = m_current_session + 1]
    BY DEF AddSession, NextSessionId
  <2>2. /\ m_session_all \in SUBSET Session /\ m_session_id \in [Session -> Int]
        /\ m_current_session \in Nat
        /\ \A t \in m_session_all : m_session_id[t] \in 1..m_current_session
    BY DEF TypeInv, TypeOK
  <2>3. m_session_id' \in [Session -> Int] /\ m_current_session' \in Nat
    BY <2>1, <2>2
  <2>4. ASSUME NEW t \in m_session_all' PROVE m_session_id'[t] \in 1..m_current_session'
    <3>1. CASE t = s
      BY <2>1, <2>2, <3>1
    <3>2. CASE t # s
      BY <2>1, <2>2, <3>2
    <3>3. QED
      BY <3>1, <3>2
  <2>5. QED
    BY <2>1, <2>2, <2>3, <2>4
<1>3. /\ status' = [status EXCEPT ![s] = "started"]
      /\ UNCHANGED <<is_open, m_send_queue, capacity, writing, wire, sends, here, crashed>>
      /\ alive' = [alive EXCEPT ![s] = TRUE] /\ Start(s)
  BY DEF AddSession, Start, writer
<1>4. WrittenIsQueued'
  BY <1>3 DEF WrittenIsQueued, TypeInv
<1>5. CASE s \in SameLoop
  <2>1. AsyncRead(s, "len") /\ Notify(s, <<"open">>) /\ UNCHANGED sessionLoop
    BY <1>3, <1>5 DEF Start
  <2>2. PostedIsSent'
    BY <1>3, <2>1 DEF PostedIsSent, TypeInv
  <2>3. notified' \in [Session -> Seq(Notice)]
    <3>1. <<"open">> \in Seq(Notice)
      BY NoticesTyped
    <3>2. QED
      BY <2>1, <3>1, NotifyTyped DEF Notify, TypeInv
  <2>4. readable' \in [Session -> BOOLEAN]
    BY <1>3, <2>1 DEF AsyncRead, TypeInv, TypeOK
  <2>5. QED
    BY <1>1, <1>2, <1>3, <1>4, <2>1, <2>2, <2>3, <2>4
       DEF AsyncRead, TypeInv, TypeOK, ManagerHandler, Notice, Part
<1>6. CASE s \notin SameLoop
  <2>1. UNCHANGED <<reading, readable, notified>>
    BY <1>3, <1>6 DEF Start, reader
  <2>2. sessionLoop' \in [Session -> Seq(SessionHandler)] /\ PostedIsSent'
    BY <1>3, <1>6, SessionLoopStarted
  <2>3. QED
    BY <1>1, <1>2, <1>3, <1>4, <2>1, <2>2 DEF TypeInv, TypeOK, ManagerHandler, SessionHandler
<1>7. QED
  BY <1>5, <1>6

\* close_session as run by the manager's loop.
LEMMA RemoveTyped ==
  ASSUME TypeInv, UNCHANGED m_max_session_count, NEW s \in Session, RemoveSession(s)
  PROVE  TypeInv'
<1>1. managerLoop' \in Seq(ManagerHandler)
  BY DEF RemoveSession, ManagerTakes, TypeInv, TypeOK, ManagerHandler
<1>2. /\ m_session_all' \in SUBSET Session /\ m_session_id' \in [Session -> Int]
      /\ \A t \in m_session_all' : m_session_id'[t] \in 1..m_current_session
  BY DEF RemoveSession, DoCloseSession, TypeInv, TypeOK
<1>3. UNCHANGED <<m_current_session, status, is_open, alive, sessionLoop, reading, readable,
                  m_send_queue, capacity, writing, wire, sends, here, notified, crashed>>
  BY DEF RemoveSession, socket, reader, writer
<1>4. QED
  BY <1>1, <1>2, <1>3 DEF TypeInv, TypeOK, WrittenIsQueued, PostedIsSent, ManagerHandler

\* check_session_alive.
LEMMA CheckTyped ==
  ASSUME TypeInv, ~crashed, UNCHANGED m_max_session_count, CheckSessionAlive \/ CheckErasesEntry
  PROVE  TypeInv'
<1>1. CASE CheckSessionAlive
  <2>1. /\ PostChecks
        /\ UNCHANGED <<managerLoop, m_session_all, m_session_id, m_current_session,
                       status, is_open, alive, reading, readable, m_send_queue, capacity, writing,
                       wire, sends, here, notified, crashed>>
    BY <1>1 DEF CheckSessionAlive, manager, socket, reader, writer
  <2>2. sessionLoop' \in [Session -> Seq(SessionHandler)] /\ PostedIsSent'
    BY <2>1, PostChecksAppend
  <2>3. QED
    BY <2>1, <2>2 DEF TypeInv, TypeOK, WrittenIsQueued, SessionHandler
<1>2. CASE CheckErasesEntry /\ UNCHANGED sessionLoop /\ crashed' = TRUE
           /\ UNCHANGED <<managerLoop, manager, status, socket, reader, writer, sends, here, notified>>
  BY <1>2 DEF TypeInv, TypeOK, WrittenIsQueued, PostedIsSent, manager, socket, reader, writer
<1>3. CASE CheckErasesEntry /\ UNCHANGED crashed
  <2>1. /\ is_open' = [s \in Session |-> is_open[s] /\ s \notin DeadHere]
        /\ notified' = [s \in Session |->
             IF s \in DeadHere THEN Append(notified[s], "close") ELSE notified[s]]
        /\ m_session_all' = m_session_all \ DeadHere
        /\ m_session_id' = [s \in Session |-> IF s \in DeadHere THEN -1 ELSE m_session_id[s]]
        /\ PostChecks
        /\ UNCHANGED <<managerLoop, m_current_session, status, alive, reading, readable,
                       m_send_queue, capacity, writing, wire, sends, here>>
    BY <1>3 DEF CheckErasesEntry, reader, writer
  <2>2. notified' \in [Session -> Seq(Notice)]
    <3>1. notified \in [Session -> Seq(Notice)]
      BY DEF TypeInv, TypeOK, Notice
    <3>2. ASSUME NEW s \in Session PROVE Append(notified[s], "close") \in Seq(Notice)
      BY <3>1, NoticesTyped
    <3>3. QED
      BY <2>1, <3>1, <3>2
  <2>3. sessionLoop' \in [Session -> Seq(SessionHandler)] /\ PostedIsSent'
    BY <2>1, PostChecksAppend
  <2>4. /\ m_session_all' \in SUBSET Session /\ m_session_id' \in [Session -> Int]
        /\ \A t \in m_session_all' : m_session_id'[t] \in 1..m_current_session
    BY <2>1 DEF TypeInv, TypeOK
  <2>5. QED
    BY <1>3, <2>1, <2>2, <2>3, <2>4 DEF TypeInv, TypeOK, WrittenIsQueued, SessionHandler, Notice
<1>4. QED
  BY <1>1, <1>2, <1>3 DEF CheckErasesEntry

\* on_accept_complete.
LEMMA AcceptTyped ==
  ASSUME TypeInv, UNCHANGED m_max_session_count, NEW s \in Session, Accept(s)
  PROVE  TypeInv'
<1>1. managerLoop' \in Seq(ManagerHandler)
  BY DEF Accept, TypeInv, TypeOK, ManagerHandler
<1>2. QED
  BY <1>1 DEF Accept, TypeInv, TypeOK, WrittenIsQueued, PostedIsSent, ManagerHandler, manager,
              reader, writer

\* Completions of reads.
LEMMA ReadTyped ==
  ASSUME TypeInv, UNCHANGED m_max_session_count, NEW s \in Session,
         ReadFails(s) \/ ReadPart(s) \/ OnReadComplete(s)
  PROVE  TypeInv'
<1>1. CASE ReadFails(s)
  <2>1. /\ DoClose(s, managerLoop, <<>>) /\ reading' = [reading EXCEPT ![s] = "none"]
        /\ UNCHANGED <<m_current_session, status, alive, sessionLoop, readable, m_send_queue,
                       capacity, writing, wire, sends, here, crashed>>
    BY <1>1 DEF ReadFails, writer
  <2>2. TypeOK /\ managerLoop \in Seq(ManagerHandler)
    BY DEF TypeInv, TypeOK, ManagerHandler
  <2>3. SocketsTyped'
    BY <2>1, <2>2, DoCloseTyped, NoticesTyped
  <2>4. WrittenIsQueued' /\ PostedIsSent'
    BY <2>1 DEF TypeInv, WrittenIsQueued, PostedIsSent
  <2>5. reading' \in [Session -> Part \cup {"none"}]
    BY <2>1 DEF TypeInv, TypeOK
  <2>6. QED
    BY <2>1, <2>3, <2>4, <2>5 DEF TypeInv, TypeOK, SocketsTyped, ManagerHandler, Notice
<1>2. CASE ReadPart(s)
  <2>1. reading' \in [Session -> Part \cup {"none"}] /\ readable' \in [Session -> BOOLEAN]
    BY <1>2 DEF ReadPart, AsyncRead, TypeInv, TypeOK, Part, socket
  <2>2. QED
    BY <1>2, <2>1 DEF ReadPart, TypeInv, TypeOK, WrittenIsQueued, PostedIsSent, manager, socket,
                      writer
<1>3. CASE OnReadComplete(s)
  <2>1. PICK told \in {<<>>} \cup {<<what>> : what \in PeerSends} :
           \/ /\ Notify(s, told)
              /\ UNCHANGED <<managerLoop, m_session_all, m_session_id, is_open, writer, sends, here>>
           \/ ActsHere(s, told)
    BY <1>3 DEF OnReadComplete
  <2>2. told \in Heard
    BY PeerSendsRead DEF Heard
  <2>3. UNCHANGED <<m_current_session, status, sessionLoop, crashed>> /\ AsyncRead(s, "len")
        /\ alive' = [alive EXCEPT ![s] = TRUE]
    BY <1>3 DEF OnReadComplete, ReadNext
  <2>4. /\ SocketsTyped' /\ WriterTyped' /\ PostedIsSent'
        /\ sends' \in [Session -> 0..MaxSend] /\ here' \in [Session -> SUBSET (1..MaxSend)]
    <3>1. CASE /\ Notify(s, told)
               /\ UNCHANGED <<managerLoop, m_session_all, m_session_id, is_open, writer, sends, here>>
      <4>1. notified' \in [Session -> Seq(Notice)]
        BY <2>2, <3>1, NoticesTyped, NotifyTyped DEF Notify, TypeInv
      <4>2. QED
        BY <2>3, <3>1, <4>1 DEF TypeInv, TypeOK, SocketsTyped, WriterTyped, WrittenIsQueued,
                                PostedIsSent, ManagerHandler, writer
    <3>2. QED
      BY <2>1, <2>2, <2>3, <3>1, ActsHereTyped
  <2>5. alive' \in [Session -> BOOLEAN] /\ reading' \in [Session -> Part \cup {"none"}]
    BY <2>3 DEF AsyncRead, TypeInv, TypeOK, Part
  <2>6. readable' \in [Session -> BOOLEAN]
    BY <2>3, <2>4 DEF AsyncRead, TypeInv, TypeOK, SocketsTyped
  <2>7. QED
    BY <2>3, <2>4, <2>5, <2>6
       DEF TypeInv, TypeOK, SocketsTyped, WriterTyped, ManagerHandler, Notice
<1>4. QED
  BY <1>1, <1>2, <1>3

\* What a session's loop takes, writes apart.
LEMMA SessionStepTyped ==
  ASSUME TypeInv, UNCHANGED m_max_session_count, NEW s \in Session,
         DoReadHeadLen(s) \/ DoSessionOpen(s) \/ CloseFun(s) \/ DoCheckAlive(s)
  PROVE  TypeInv'
<1>1. PICK op \in HandlerOp : SessionTakes(s, op)
  BY DEF DoReadHeadLen, DoSessionOpen, CloseFun, DoCheckAlive, HandlerOp
<1>2. UNCHANGED <<m_current_session, status, alive, m_send_queue, capacity, writing, wire, sends, here,
                  crashed>>
  BY DEF DoReadHeadLen, DoSessionOpen, CloseFun, DoCheckAlive, manager, socket, writer
<1>3. sessionLoop' \in [Session -> Seq(SessionHandler)] /\ PostedIsSent'
  BY <1>1, <1>2, SessionTakesTail
<1>4. WrittenIsQueued'
  BY <1>2 DEF TypeInv, WrittenIsQueued
<1>5. TypeOK /\ managerLoop \in Seq(ManagerHandler)
  BY DEF TypeInv, TypeOK, ManagerHandler
<1>6. CASE DoReadHeadLen(s)
  <2>1. UNCHANGED <<managerLoop, m_session_all, m_session_id, is_open, notified, here>>
    BY <1>6 DEF DoReadHeadLen, manager, socket
  <2>2. reading' \in [Session -> Part \cup {"none"}] /\ readable' \in [Session -> BOOLEAN]
    BY <1>6, <2>1 DEF DoReadHeadLen, AsyncRead, TypeInv, TypeOK, Part
  <2>3. QED
    BY <1>2, <1>3, <1>4, <2>1, <2>2 DEF TypeInv, TypeOK, SessionHandler
<1>7. CASE DoSessionOpen(s)
  <2>1. notified' \in [Session -> Seq(Notice)]
    <3>1. <<"open">> \in Seq(Notice)
      BY NoticesTyped
    <3>2. QED
      BY <1>5, <1>7, <3>1, NotifyTyped DEF DoSessionOpen, Notify
  <2>2. UNCHANGED <<managerLoop, m_session_all, m_session_id, is_open, reading, readable>>
    BY <1>7 DEF DoSessionOpen, manager, socket, reader
  <2>3. QED
    BY <1>2, <1>3, <1>4, <2>1, <2>2 DEF TypeInv, TypeOK, SessionHandler, Notice
<1>8. CASE DoClose(s, managerLoop, <<>>) /\ UNCHANGED reader
  <2>1. SocketsTyped'
    BY <1>2, <1>5, <1>8, DoCloseTyped, NoticesTyped
  <2>2. QED
    BY <1>2, <1>3, <1>4, <1>8, <2>1
       DEF TypeInv, TypeOK, SocketsTyped, ManagerHandler, SessionHandler, reader, Notice
<1>9. CASE UNCHANGED <<managerLoop, m_session_all, m_session_id, is_open, notified, reader>>
  BY <1>2, <1>3, <1>4, <1>9 DEF TypeInv, TypeOK, SessionHandler, reader
<1>10. QED
  BY <1>6, <1>7, <1>8, <1>9 DEF CloseFun, DoCheckAlive

\* do_write.
LEMMA DoWriteTyped ==
  ASSUME TypeInv, UNCHANGED m_max_session_count, NEW s \in Session, DoWrite(s)
  PROVE  TypeInv'
<1> DEFINE msg == Head(sessionLoop[s]).msg
<1>1. SessionTakes(s, "write")
      /\ UNCHANGED <<m_current_session, status, alive, reading, readable, sends, here, crashed>>
  BY DEF DoWrite, reader
<1>2. sessionLoop' \in [Session -> Seq(SessionHandler)] /\ PostedIsSent'
  BY <1>1, SessionTakesTail
<1>3. msg \in 1..MaxSend
  <2>1. 1 \in 1..Len(sessionLoop[s]) /\ sessionLoop[s][1].op = "write" /\ msg = sessionLoop[s][1].msg
    BY <1>1, SessionTakesTail
  <2>2. sessionLoop[s][1].msg \in 1..sends[s]
    BY <2>1 DEF PostedIsSent, TypeInv
  <2>3. sends[s] \in 0..MaxSend
    BY DEF TypeInv, TypeOK
  <2> HIDE DEF msg
  <2>4. QED
    BY <2>1, <2>2, <2>3, BoundsAreNat
<1>4. SocketsTyped' /\ WriterTyped'
  <2>1. Write(s, msg, <<>>) /\ <<>> \in Heard
    BY NoticesTyped DEF DoWrite
  <2> HIDE DEF msg
  <2>2. QED
    BY <1>1, <1>3, <2>1, WriteTyped
<1> HIDE DEF msg
<1>5. QED
  BY <1>1, <1>2, <1>4
     DEF TypeInv, TypeOK, SocketsTyped, WriterTyped, ManagerHandler, SessionHandler, Notice

\* send posts a write, and a shutdown posts a close.
LEMMA SendTyped ==
  ASSUME TypeInv, UNCHANGED m_max_session_count, NEW s \in Session, Send(s)
  PROVE  TypeInv'
<1> DEFINE h == Handler("write", sends[s] + 1)
<1>1. /\ sends[s] \in Nat /\ sends[s] < MaxSend /\ sends' = [sends EXCEPT ![s] = @ + 1]
      /\ sessionLoop' = [sessionLoop EXCEPT ![s] = Append(@, h)]
      /\ UNCHANGED <<managerLoop, m_session_all, m_session_id, m_current_session, status,
                     is_open, alive, reading, readable, m_send_queue, capacity, writing, wire,
                     here, notified, crashed>>
  BY BoundsAreNat DEF Send, TypeInv, TypeOK, manager, socket, reader, writer
<1>2. h \in SessionHandler /\ h.msg = sends[s] + 1
  BY <1>1, BoundsAreNat DEF Handler, SessionHandler, HandlerOp
<1> HIDE DEF h
<1>3. sends' \in [Session -> 0..MaxSend] /\ sends'[s] = sends[s] + 1
      /\ \A t \in Session \ {s} : sends'[t] = sends[t]
  <2>1. sends \in [Session -> 0..MaxSend] /\ sends[s] + 1 \in 0..MaxSend
    BY <1>1, BoundsAreNat DEF TypeInv, TypeOK
  <2>2. QED
    BY <1>1, <2>1
<1>4. /\ sessionLoop' \in [Session -> Seq(SessionHandler)] /\ Len(sessionLoop[s]) \in Nat
      /\ Len(sessionLoop'[s]) = Len(sessionLoop[s]) + 1
      /\ sessionLoop'[s][Len(sessionLoop[s]) + 1] = h
      /\ \A i \in 1..Len(sessionLoop[s]) : sessionLoop'[s][i] = sessionLoop[s][i]
      /\ \A t \in Session \ {s} : sessionLoop'[t] = sessionLoop[t]
  BY <1>1, <1>2, SessionLoopAppend
<1>5. PostedIsSent'
  <2> SUFFICES ASSUME NEW t \in Session, NEW i \in 1..Len(sessionLoop'[t]),
                      sessionLoop'[t][i].op = "write"
               PROVE  sessionLoop'[t][i].msg \in 1..sends'[t]
    BY DEF PostedIsSent
  <2>1. CASE t # s
    BY <1>3, <1>4, <2>1 DEF PostedIsSent, TypeInv
  <2>2. CASE t = s /\ i = Len(sessionLoop[s]) + 1
    BY <1>1, <1>2, <1>3, <1>4, <2>2
  <2>3. CASE t = s /\ i # Len(sessionLoop[s]) + 1
    <3>1. i \in 1..Len(sessionLoop[s]) /\ sessionLoop'[s][i] = sessionLoop[s][i]
      BY <1>4, <2>3
    <3>2. sessionLoop[s][i].msg \in 1..sends[s]
      BY <2>3, <3>1 DEF PostedIsSent, TypeInv
    <3>3. QED
      BY <1>1, <1>3, <2>3, <3>1, <3>2
  <2>4. QED
    BY <2>1, <2>2, <2>3
<1>6. WrittenIsQueued'
  BY <1>1 DEF TypeInv, WrittenIsQueued
<1>7. QED
  BY <1>1, <1>3, <1>4, <1>5, <1>6 DEF TypeInv, TypeOK, SessionHandler

\* A shutdown posts a close.
LEMMA ShutdownTyped ==
  ASSUME TypeInv, UNCHANGED m_max_session_count, NEW s \in Session, Shutdown(s)
  PROVE  TypeInv'
<1>1. Handler("close", 0) \in SessionHandler /\ Handler("close", 0).op # "write"
  BY BoundsAreNat DEF Handler, SessionHandler, HandlerOp
<1>2. /\ sessionLoop' = [sessionLoop EXCEPT ![s] = Append(@, Handler("close", 0))]
      /\ UNCHANGED <<managerLoop, m_session_all, m_session_id, m_current_session, status,
                     is_open, alive, reading, readable, m_send_queue, capacity, writing, wire,
                     sends, here, notified, crashed>>
  BY DEF Shutdown, manager, socket, reader, writer
<1>3. sessionLoop' \in [Session -> Seq(SessionHandler)] /\ PostedIsSent'
  BY <1>1, <1>2, SessionLoopAppend
<1>4. QED
  BY <1>2, <1>3 DEF TypeInv, TypeOK, WrittenIsQueued, SessionHandler

\* Completions of writes.
LEMMA WrittenTyped ==
  ASSUME TypeInv, UNCHANGED m_max_session_count, NEW s \in Session,
         OnWriteComplete(s) \/ WriteFails(s)
  PROVE  TypeInv'
<1>1. CASE OnWriteComplete(s)
  <2>1. /\ writing[s] # 0 /\ wire' = [wire EXCEPT ![s] = Append(@, writing[s])]
        /\ m_send_queue' = [m_send_queue EXCEPT ![s] = Tail(@)] /\ WriteNext(s)
        /\ UNCHANGED <<managerLoop, m_session_all, m_session_id, m_current_session, status,
                       is_open, alive, sessionLoop, reading, readable, capacity, sends, here,
                       notified, crashed>>
    BY <1>1 DEF OnWriteComplete, manager, socket, reader
  <2> DEFINE q == m_send_queue[s]
  <2>2. q \in Seq(1..MaxSend) /\ q # <<>> /\ Tail(q) \in Seq(1..MaxSend)
        /\ (Tail(q) # <<>> => Head(Tail(q)) \in 1..MaxSend)
    <3>1. q \in Seq(1..MaxSend) /\ q # <<>>
      BY <2>1 DEF TypeInv, TypeOK, WrittenIsQueued
    <3> HIDE DEF q
    <3>2. Tail(q) \in Seq(1..MaxSend)
      BY <3>1
    <3>3. Tail(q) # <<>> => Head(Tail(q)) \in 1..MaxSend
      BY <3>2, HeadInSeq
    <3>4. QED
      BY <3>1, <3>2, <3>3
  <2>3. writing[s] \in 1..MaxSend
    BY <2>1, BoundsAreNat DEF TypeInv, TypeOK
  <2>4. m_send_queue' \in [Session -> Seq(1..MaxSend)]
    BY <2>1, <2>2 DEF TypeInv, TypeOK
  <2>5. wire' \in [Session -> Seq(1..MaxSend)]
    BY <2>1, <2>3 DEF TypeInv, TypeOK
  <2>6. writing' \in [Session -> 0..MaxSend]
    <3>1. PICK next \in 0..MaxSend : writing' = [writing EXCEPT ![s] = next]
      <4>1. writing' = [writing EXCEPT ![s] = IF Tail(q) # <<>> /\ is_open[s] THEN Head(Tail(q)) ELSE 0]
        BY <2>1 DEF WriteNext
      <4>2. 0 \in 0..MaxSend /\ \A n \in 1..MaxSend : n \in 0..MaxSend
        BY BoundsAreNat
      <4> HIDE DEF q
      <4>3. QED
        BY <2>2, <4>1, <4>2
    <3>2. QED
      BY <3>1 DEF TypeInv, TypeOK
  <2>7. WrittenIsQueued'
    <3>1. writing'[s] # 0 => m_send_queue'[s] # <<>>
      BY <2>1 DEF TypeInv, TypeOK, WriteNext
    <3>2. \A t \in Session \ {s} : writing'[t] = writing[t] /\ m_send_queue'[t] = m_send_queue[t]
      BY <2>1 DEF TypeInv, TypeOK, WriteNext
    <3>3. QED
      BY <3>1, <3>2 DEF TypeInv, WrittenIsQueued
  <2>8. QED
    BY <2>1, <2>4, <2>5, <2>6, <2>7 DEF TypeInv, TypeOK, PostedIsSent
<1>2. CASE WriteFails(s)
  <2>1. /\ DoClose(s, managerLoop, <<>>) /\ writing' = [writing EXCEPT ![s] = 0]
        /\ UNCHANGED <<m_current_session, status, alive, sessionLoop, reading, readable,
                       m_send_queue, capacity, wire, sends, here, crashed>>
    BY <1>2 DEF WriteFails, reader
  <2>2. TypeOK /\ managerLoop \in Seq(ManagerHandler)
    BY DEF TypeInv, TypeOK, ManagerHandler
  <2>3. SocketsTyped'
    BY <2>1, <2>2, DoCloseTyped, NoticesTyped
  <2>4. WrittenIsQueued' /\ writing' \in [Session -> 0..MaxSend]
    BY <2>1, BoundsAreNat DEF TypeInv, TypeOK, WrittenIsQueued
  <2>5. QED
    BY <2>1, <2>3, <2>4 DEF TypeInv, TypeOK, SocketsTyped, PostedIsSent, ManagerHandler, Notice
<1>3. QED
  BY <1>1, <1>2

\* The upper layer on the session's loop.
LEMMA ActHereTyped ==
  ASSUME TypeInv, UNCHANGED m_max_session_count, NEW s \in Session, ActHere(s)
  PROVE  TypeInv'
<1>1. /\ ActsHere(s, <<>>) /\ <<>> \in Heard
      /\ UNCHANGED <<m_current_session, status, alive, sessionLoop, reading, readable, crashed>>
  BY NoticesTyped DEF ActHere, reader
<1>2. /\ SocketsTyped' /\ WriterTyped' /\ PostedIsSent'
      /\ sends' \in [Session -> 0..MaxSend] /\ here' \in [Session -> SUBSET (1..MaxSend)]
  BY <1>1, ActsHereTyped
<1>3. QED
  BY <1>1, <1>2 DEF TypeInv, TypeOK, SocketsTyped, WriterTyped, ManagerHandler, Notice

\* Every step keeps the types.
LEMMA NextTypeInv == TypeInv /\ [Next]_vars => TypeInv'
<1> SUFFICES ASSUME TypeInv, [Next]_vars PROVE TypeInv'
  OBVIOUS
<1>1. CASE UNCHANGED vars
  BY <1>1 DEF vars, manager, socket, reader, writer, TypeInv, TypeOK, WrittenIsQueued, PostedIsSent
<1>2. CASE Next
  <2>1. ~crashed /\ UNCHANGED m_max_session_count
    BY <1>2 DEF Next
  <2>2. ASSUME NEW s \in Session, Age(s) PROVE TypeInv'
    BY <2>1, <2>2 DEF Age, TypeInv, TypeOK, WrittenIsQueued, PostedIsSent, manager, reader, writer
  <2>3. QED
    BY <1>2, <2>1, <2>2, RefuseTyped, AddTyped, RemoveTyped, CheckTyped, AcceptTyped, ReadTyped,
       SessionStepTyped, DoWriteTyped, SendTyped, ShutdownTyped, ActHereTyped, WrittenTyped, Zenon
       DEF Next, ManagerStep, Check, SessionStep
<1>3. QED
  BY <1>1, <1>2

\* The types, and the two facts a write completion and a write handler rely on.
THEOREM TypeCorrect == SafeSpec => []TypeInv
BY InitTypeInv, NextTypeInv, PTL DEF SafeSpec

-------------------------------------------------------------------------------
(* The table, the sockets and the manager's loop.                          *)

\* Until the manager has taken it, an accepted session is open and nobody has heard
\* of it, so nothing can close it or be posted to it.
FreshOf(s) ==
  status[s] \in {"unborn", "accepted"} =>
    /\ notified[s] = <<>> /\ sessionLoop[s] = <<>>
    /\ reading[s] = "none" /\ writing[s] = 0 /\ m_session_id[s] = 0
    /\ is_open[s] <=> status[s] = "accepted"

Fresh == \A s \in Session : FreshOf(s)

\* The table holds the sessions that have an id, within the limit.
TableFits ==
  /\ IsFiniteSet(m_session_all) /\ Cardinality(m_session_all) <= m_max_session_count
  /\ \A s \in Session : s \in m_session_all <=> m_session_id[s] > 0
  /\ \A s \in m_session_all : status[s] = "started"
  /\ IdsUnique

\* A session is added at most once, and removed only after its socket has closed.
ManagerQueue ==
  /\ \A i \in 1..Len(managerLoop) :
       LET h == managerLoop[i] IN
       /\ h.op = "add" => status[h.session] = "accepted"
       /\ h.op = "remove" => status[h.session] \in {"refused", "started"} /\ ~is_open[h.session]
  /\ \A i, j \in 1..Len(managerLoop) :
       managerLoop[i].op = "add" /\ managerLoop[i] = managerLoop[j] => i = j

TableLife == TableFits /\ ManagerQueue /\ TableMatchesSockets

\* A handler on the manager's loop is its operation and its session.
LEMMA ManagerHandlerAt ==
  ASSUME TypeInv, NEW i \in 1..Len(managerLoop)
  PROVE  LET h == managerLoop[i] IN
         /\ h.op \in {"add", "remove"} /\ h.session \in Session
         /\ h = [op |-> h.op, session |-> h.session]
<1> DEFINE h == managerLoop[i]
<1>1. managerLoop \in Seq(ManagerHandler)
  BY DEF TypeInv, TypeOK, ManagerHandler
<1>2. h \in ManagerHandler
  BY <1>1
<1> HIDE DEF h
<1>3. h.op \in {"add", "remove"} /\ h.session \in Session /\ h = [op |-> h.op, session |-> h.session]
  BY <1>2 DEF ManagerHandler
<1>4. QED
  BY <1>3 DEF h

\* do_close_session takes no other session out of the table than the one it is called
\* for: ids tell sessions apart (ServerSessionManager.cpp:37).
LEMMA DoCloseSessionOwn ==
  ASSUME TypeInv, TableFits, NEW s \in Session, DoCloseSession(s)
  PROVE  /\ m_session_all' = m_session_all \ {s}
         /\ m_session_id' \in [Session -> Int] /\ m_session_id'[s] = -1
         /\ \A t \in Session \ {s} : m_session_id'[t] = m_session_id[t]
<1>1. /\ m_session_all' = {t \in m_session_all : m_session_id[t] # m_session_id[s]}
      /\ m_session_id' = [m_session_id EXCEPT ![s] = -1]
      /\ m_session_id \in [Session -> Int] /\ m_session_all \subseteq Session
  BY DEF DoCloseSession, TypeInv, TypeOK
<1>2. \A t \in m_session_all : m_session_id[t] = m_session_id[s] => t = s
  <2> SUFFICES ASSUME NEW t \in m_session_all, m_session_id[t] = m_session_id[s] PROVE t = s
    OBVIOUS
  <2>1. t \in Session /\ m_session_id[t] > 0
    BY <1>1 DEF TableFits
  <2>2. s \in m_session_all
    BY <2>1 DEF TableFits
  <2>3. QED
    BY <2>2 DEF TableFits, IdsUnique
<1>3. QED
  BY <1>1, <1>2

\* A table from which sessions are taken still fits.
LEMMA SmallerTableFits ==
  ASSUME TypeInv, TypeInv', TableFits, UNCHANGED <<m_max_session_count, m_current_session>>, NEW D \in SUBSET Session,
         m_session_all' = m_session_all \ D,
         \A s \in Session : m_session_id'[s] = IF s \in D THEN -1 ELSE m_session_id[s],
         \A s \in m_session_all \ D : status'[s] = status[s]
  PROVE  TableFits'
<1>1. IsFiniteSet(m_session_all') /\ Cardinality(m_session_all') <= Cardinality(m_session_all)
  BY FS_Subset DEF TableFits
<1>2. Cardinality(m_session_all') \in Nat /\ Cardinality(m_session_all) \in Nat
  BY <1>1, FS_CardinalityType DEF TableFits
<1>3. m_max_session_count \in Nat
  BY BoundsAreNat DEF TypeInv, TypeOK
<1>4. Cardinality(m_session_all') <= m_max_session_count'
  BY <1>1, <1>2, <1>3 DEF TableFits
<1>5. \A s \in Session : s \in m_session_all' <=> m_session_id'[s] > 0
  BY DEF TableFits
<1>6. m_session_all \subseteq Session
  BY DEF TypeInv, TypeOK
<1>7. IdsUnique'
  BY <1>6 DEF TableFits, IdsUnique
<1>8. \A s \in m_session_all' : status'[s] = "started"
  BY DEF TableFits
<1>9. QED
  BY <1>1, <1>4, <1>5, <1>7, <1>8 DEF TableFits

\* TcpSession::do_close of a session that is no longer fresh.
LEMMA CloseKeepsTable ==
  ASSUME TypeInv, TypeInv', TableLife, NEW s \in Session, status[s] \in {"refused", "started"},
         NEW told, DoClose(s, managerLoop, told),
         UNCHANGED <<m_max_session_count, m_current_session, status>>
  PROVE  TableLife'
<1>1. /\ managerLoop \in Seq(ManagerHandler) /\ is_open \in [Session -> BOOLEAN]
      /\ m_session_all \subseteq Session /\ SameLoop \subseteq Session
  BY SameLoopIsSession DEF TypeInv, TypeOK, ManagerHandler
<1>2. CASE ~is_open[s]
  BY <1>2 DEF DoClose, TableLife, TableFits, IdsUnique, ManagerQueue, TableMatchesSockets
<1>3. CASE is_open[s]
  <2>1. is_open' = [is_open EXCEPT ![s] = FALSE]
    BY <1>3 DEF DoClose
  <2>2. is_open'[s] = FALSE /\ \A t \in Session \ {s} : is_open'[t] = is_open[t]
    BY <1>1, <2>1
  <2>3. CASE s \in SameLoop
    <3>1. managerLoop' = managerLoop /\ DoCloseSession(s)
      BY <1>3, <2>3 DEF DoClose
    <3>2. /\ m_session_all' = m_session_all \ {s}
          /\ \A t \in Session : m_session_id'[t] = IF t \in {s} THEN -1 ELSE m_session_id[t]
      BY <3>1, DoCloseSessionOwn DEF TableLife
    <3>3. TableFits'
      BY <3>2, SmallerTableFits DEF TableLife
    <3>4. ManagerQueue'
      <4>1. \A i \in 1..Len(managerLoop) : managerLoop[i].session \in Session
        BY ManagerHandlerAt
      <4>2. \A t \in Session : is_open'[t] => is_open[t]
        BY <2>2
      <4>3. QED
        BY <3>1, <4>1, <4>2 DEF TableLife, ManagerQueue
    <3>5. TableMatchesSockets'
      BY <2>2, <3>1, <3>2 DEF TableLife, TableMatchesSockets, Removal
    <3>6. QED
      BY <3>3, <3>4, <3>5 DEF TableLife
  <2>4. CASE s \notin SameLoop
    <3> DEFINE h == Removal(s)
    <3>1. managerLoop' = Append(managerLoop, h) /\ UNCHANGED <<m_session_all, m_session_id>>
      BY <1>3, <2>4 DEF DoClose, Removal
    <3>2. h \in ManagerHandler /\ h.op = "remove" /\ h.session = s
      BY DEF Removal, ManagerHandler
    <3> HIDE DEF h
    <3>3. /\ managerLoop' \in Seq(ManagerHandler)
          /\ Len(managerLoop) \in Nat /\ Len(managerLoop') = Len(managerLoop) + 1
          /\ \A i \in 1..Len(managerLoop) : i \in 1..Len(managerLoop') /\ managerLoop'[i] = managerLoop[i]
          /\ managerLoop'[Len(managerLoop) + 1] = h
          /\ \A i \in 1..Len(managerLoop') : i \in 1..Len(managerLoop) \/ i = Len(managerLoop) + 1
      BY <1>1, <3>1, <3>2, AppendToSeq
    <3>4. TableFits'
      BY <3>1 DEF TableLife, TableFits, IdsUnique
    <3>5. ManagerQueue'
      <4>1. \A i \in 1..Len(managerLoop) : managerLoop[i] \in ManagerHandler
        BY <1>1
      <4>2. ASSUME NEW i \in 1..Len(managerLoop')
            PROVE  LET k == managerLoop'[i] IN
                   /\ k.op = "add" => status[k.session] = "accepted"
                   /\ k.op = "remove" => status[k.session] \in {"refused", "started"} /\ ~is_open'[k.session]
        <5>1. CASE i = Len(managerLoop) + 1
          BY <2>2, <3>2, <3>3, <5>1
        <5>2. CASE i \in 1..Len(managerLoop)
          BY <2>2, <3>3, <4>1, <5>2 DEF TableLife, ManagerQueue, ManagerHandler
        <5>3. QED
          BY <3>3, <5>1, <5>2
      <4>3. \A i, j \in 1..Len(managerLoop') :
              managerLoop'[i].op = "add" /\ managerLoop'[i] = managerLoop'[j] => i = j
        BY <3>2, <3>3 DEF TableLife, ManagerQueue
      <4>4. QED
        BY <4>2, <4>3 DEF ManagerQueue
    <3>6. TableMatchesSockets'
      <4>1. \A t \in Session : (\E i \in 1..Len(managerLoop) : managerLoop[i] = Removal(t))
               => (\E i \in 1..Len(managerLoop') : managerLoop'[i] = Removal(t))
        BY <3>3
      <4>2. \E i \in 1..Len(managerLoop') : managerLoop'[i] = Removal(s)
        BY <3>3 DEF h
      <4>3. QED
        BY <2>2, <3>1, <4>1, <4>2 DEF TableLife, TableMatchesSockets, Removal
    <3>7. QED
      BY <3>4, <3>5, <3>6 DEF TableLife
  <2>5. QED
    BY <2>3, <2>4
<1>4. QED
  BY <1>2, <1>3

\* on_accept_complete.
LEMMA AcceptKeepsTable ==
  ASSUME TypeInv, TypeInv', Fresh, TableLife, NEW s \in Session, Accept(s), UNCHANGED m_max_session_count
  PROVE  TableLife'
<1> DEFINE h == [op |-> "add", session |-> s]
<1>1. /\ status[s] = "unborn" /\ status' = [status EXCEPT ![s] = "accepted"]
      /\ is_open' = [is_open EXCEPT ![s] = TRUE] /\ managerLoop' = Append(managerLoop, h)
      /\ UNCHANGED <<m_session_all, m_session_id, m_current_session>>
  BY DEF Accept, manager
<1>2. /\ managerLoop \in Seq(ManagerHandler) /\ is_open \in [Session -> BOOLEAN]
      /\ m_session_all \subseteq Session
      /\ status \in [Session -> {"unborn", "accepted", "refused", "started"}]
  BY DEF TypeInv, TypeOK, ManagerHandler
<1>3. h \in ManagerHandler /\ h.op = "add" /\ h.session = s
  BY DEF ManagerHandler
<1> HIDE DEF h
<1>4. /\ managerLoop' \in Seq(ManagerHandler)
      /\ Len(managerLoop) \in Nat /\ Len(managerLoop') = Len(managerLoop) + 1
      /\ \A i \in 1..Len(managerLoop) : i \in 1..Len(managerLoop') /\ managerLoop'[i] = managerLoop[i]
      /\ managerLoop'[Len(managerLoop) + 1] = h
      /\ \A i \in 1..Len(managerLoop') : i \in 1..Len(managerLoop) \/ i = Len(managerLoop) + 1
  BY <1>1, <1>2, <1>3, AppendToSeq
<1>5. /\ status'[s] = "accepted" /\ is_open'[s] = TRUE /\ ~is_open[s]
      /\ \A t \in Session \ {s} : status'[t] = status[t] /\ is_open'[t] = is_open[t]
  BY <1>1, <1>2 DEF Fresh, FreshOf
<1>6. s \notin m_session_all
  BY <1>1 DEF TableLife, TableFits
<1>7. TableFits'
  BY <1>1, <1>2, <1>5, <1>6 DEF TableLife, TableFits, IdsUnique
<1>8. \A i \in 1..Len(managerLoop) : managerLoop[i] \in ManagerHandler /\ managerLoop[i].session # s
  <2> SUFFICES ASSUME NEW i \in 1..Len(managerLoop)
               PROVE  managerLoop[i] \in ManagerHandler /\ managerLoop[i].session # s
    OBVIOUS
  <2>1. managerLoop[i] \in ManagerHandler
    BY <1>2
  <2>2. /\ managerLoop[i].op = "add" => status[managerLoop[i].session] = "accepted"
        /\ managerLoop[i].op = "remove" => status[managerLoop[i].session] \in {"refused", "started"}
    BY DEF TableLife, ManagerQueue
  <2>3. QED
    BY <1>1, <2>1, <2>2 DEF ManagerHandler
<1>9. ManagerQueue'
  <2>1. ASSUME NEW i \in 1..Len(managerLoop')
        PROVE  LET k == managerLoop'[i] IN
               /\ k.op = "add" => status'[k.session] = "accepted"
               /\ k.op = "remove" => status'[k.session] \in {"refused", "started"} /\ ~is_open'[k.session]
    <3>1. CASE i = Len(managerLoop) + 1
      BY <1>3, <1>4, <1>5, <3>1
    <3>2. CASE i \in 1..Len(managerLoop)
      <4>1. managerLoop'[i] = managerLoop[i] /\ managerLoop[i].session \in Session \ {s}
        BY <1>4, <1>8, <3>2 DEF ManagerHandler
      <4>2. QED
        BY <1>5, <3>2, <4>1 DEF TableLife, ManagerQueue
    <3>3. QED
      BY <1>4, <3>1, <3>2
  <2>2. \A i, j \in 1..Len(managerLoop') :
          managerLoop'[i].op = "add" /\ managerLoop'[i] = managerLoop'[j] => i = j
    BY <1>3, <1>4, <1>8 DEF TableLife, ManagerQueue
  <2>3. QED
    BY <2>1, <2>2 DEF ManagerQueue
<1>10. TableMatchesSockets'
  BY <1>1, <1>4, <1>5, <1>6 DEF TableLife, TableMatchesSockets
<1>11. QED
  BY <1>7, <1>9, <1>10 DEF TableLife

\* The manager's loop after its head is taken.
LEMMA ManagerTakesTail ==
  ASSUME TypeInv, NEW op, NEW s \in Session, ManagerTakes(op, s), managerLoop' = Tail(managerLoop)
  PROVE  /\ Len(managerLoop) \in Nat \ {0} /\ managerLoop[1] = [op |-> op, session |-> s]
         /\ \A i \in 1..Len(managerLoop) : managerLoop[i].session \in Session
         /\ \A i \in 1..Len(managerLoop') :
              i + 1 \in 2..Len(managerLoop) /\ managerLoop'[i] = managerLoop[i + 1]
         /\ \A i \in 2..Len(managerLoop) :
              i - 1 \in 1..Len(managerLoop') /\ managerLoop'[i - 1] = managerLoop[i]
<1>1. managerLoop \in Seq(ManagerHandler) /\ managerLoop # <<>>
  BY DEF TypeInv, TypeOK, ManagerHandler, ManagerTakes
<1>2. \A i \in 1..Len(managerLoop) : managerLoop[i].session \in Session
  BY ManagerHandlerAt
<1>3. QED
  BY <1>1, <1>2, TailOfSeq DEF ManagerTakes

\* What is queued behind the handler the manager takes is still right after it, and the
\* removals of other sessions are still queued.
LEMMA TailKeepsQueue ==
  ASSUME TypeInv, ManagerQueue, NEW op, NEW s \in Session, ManagerTakes(op, s),
         managerLoop' = Tail(managerLoop),
         \A t \in Session \ {s} : status'[t] = status[t] /\ is_open'[t] = is_open[t],
         \/ op = "add" /\ status'[s] \in {"refused", "started"}
         \/ op = "remove" /\ UNCHANGED <<status, is_open>>
  PROVE  /\ ManagerQueue'
         /\ \A t \in Session :
              Removal(t) # managerLoop[1] /\ (\E i \in 1..Len(managerLoop) : managerLoop[i] = Removal(t))
              => \E i \in 1..Len(managerLoop') : managerLoop'[i] = Removal(t)
<1>1. /\ Len(managerLoop) \in Nat \ {0} /\ managerLoop[1] = [op |-> op, session |-> s]
      /\ \A i \in 1..Len(managerLoop) : managerLoop[i].session \in Session
      /\ \A i \in 1..Len(managerLoop') :
           i + 1 \in 2..Len(managerLoop) /\ managerLoop'[i] = managerLoop[i + 1]
      /\ \A i \in 2..Len(managerLoop) :
           i - 1 \in 1..Len(managerLoop') /\ managerLoop'[i - 1] = managerLoop[i]
  BY ManagerTakesTail
<1>2. ASSUME NEW i \in 2..Len(managerLoop)
      PROVE  LET h == managerLoop[i] IN
             /\ h.op = "add" => status'[h.session] = "accepted"
             /\ h.op = "remove" => status'[h.session] \in {"refused", "started"} /\ ~is_open'[h.session]
  <2> DEFINE h == managerLoop[i]
  <2>1. /\ i \in 1..Len(managerLoop) /\ i # 1 /\ h.session \in Session
        /\ h.op = "add" => status[h.session] = "accepted"
        /\ h.op = "remove" => status[h.session] \in {"refused", "started"} /\ ~is_open[h.session]
    BY <1>1 DEF ManagerQueue
  <2>2. CASE h.session # s \/ op = "remove"
    BY <2>1, <2>2
  <2>3. CASE h.session = s /\ op = "add"
    <3>1. 1 \in 1..Len(managerLoop) /\ status[s] = "accepted"
      BY <1>1, <2>3 DEF ManagerQueue
    <3>2. h.op \in {"add", "remove"} /\ h = [op |-> h.op, session |-> h.session]
      BY <2>1, ManagerHandlerAt
    <3>3. h.op # "remove"
      BY <2>1, <2>3, <3>1
    <3>4. h = managerLoop[1]
      BY <1>1, <2>3, <3>2, <3>3
    <3>5. QED
      BY <1>1, <2>1, <2>3, <3>1, <3>4 DEF ManagerQueue
  <2>4. QED
    BY <2>2, <2>3
<1>3. ManagerQueue'
  <2>1. ASSUME NEW i \in 1..Len(managerLoop')
        PROVE  LET h == managerLoop'[i] IN
               /\ h.op = "add" => status'[h.session] = "accepted"
               /\ h.op = "remove" => status'[h.session] \in {"refused", "started"} /\ ~is_open'[h.session]
    BY <1>1, <1>2
  <2>2. ASSUME NEW i \in 1..Len(managerLoop'), NEW j \in 1..Len(managerLoop'),
               managerLoop'[i].op = "add", managerLoop'[i] = managerLoop'[j]
        PROVE  i = j
    <3>1. i + 1 \in 1..Len(managerLoop) /\ j + 1 \in 1..Len(managerLoop) /\ i \in Int /\ j \in Int
      BY <1>1
    <3>2. managerLoop[i + 1].op = "add" /\ managerLoop[i + 1] = managerLoop[j + 1]
      BY <1>1, <2>2
    <3>3. i + 1 = j + 1
      BY <3>1, <3>2 DEF ManagerQueue
    <3>4. QED
      BY <3>1, <3>3
  <2>3. QED
    BY <2>1, <2>2 DEF ManagerQueue
<1>4. ASSUME NEW t \in Session, Removal(t) # managerLoop[1],
             NEW i \in 1..Len(managerLoop), managerLoop[i] = Removal(t)
      PROVE  \E j \in 1..Len(managerLoop') : managerLoop'[j] = Removal(t)
  <2>1. i # 1 /\ i \in 2..Len(managerLoop)
    BY <1>1, <1>4
  <2>2. i - 1 \in 1..Len(managerLoop') /\ managerLoop'[i - 1] = Removal(t)
    BY <1>1, <1>4, <2>1
  <2>3. QED
    BY <2>2
<1>5. QED
  BY <1>3, <1>4

\* do_add_session below the limit.
LEMMA AddKeepsTable ==
  ASSUME TypeInv, TypeInv', Fresh, TableLife, NEW s \in Session, AddSession(s),
         UNCHANGED m_max_session_count
  PROVE  TableLife'
<1>1. /\ ManagerTakes("add", s) /\ ~IsSessionOverLimit /\ managerLoop' = Tail(managerLoop)
      /\ status' = [status EXCEPT ![s] = "started"]
      /\ m_current_session' = m_current_session + 1
      /\ m_session_id' = [m_session_id EXCEPT ![s] = m_current_session + 1]
      /\ m_session_all' = m_session_all \cup {s} /\ UNCHANGED is_open
  BY DEF AddSession, NextSessionId
<1>2. /\ m_session_id \in [Session -> Int] /\ m_current_session \in Nat /\ m_session_all \subseteq Session
      /\ status \in [Session -> {"unborn", "accepted", "refused", "started"}]
      /\ \A t \in m_session_all : m_session_id[t] \in 1..m_current_session
  BY DEF TypeInv, TypeOK
<1>3. /\ Len(managerLoop) \in Nat \ {0} /\ managerLoop[1] = [op |-> "add", session |-> s]
  BY <1>1, ManagerTakesTail
<1>4. status[s] = "accepted"
  BY <1>3 DEF TableLife, ManagerQueue
<1>5. is_open[s] /\ m_session_id[s] = 0 /\ s \notin m_session_all
  BY <1>4 DEF Fresh, FreshOf, TableLife, TableFits
<1>6. /\ status'[s] = "started" /\ m_session_id'[s] = m_current_session + 1
      /\ \A t \in Session \ {s} : status'[t] = status[t] /\ m_session_id'[t] = m_session_id[t]
  BY <1>1, <1>2
<1>7. TableFits'
  <2>1. IsFiniteSet(m_session_all') /\ Cardinality(m_session_all') = Cardinality(m_session_all) + 1
    BY <1>1, <1>5, FS_AddElement DEF TableLife, TableFits
  <2>2. Cardinality(m_session_all) \in Nat /\ m_max_session_count \in Nat
    BY FS_CardinalityType, BoundsAreNat DEF TableLife, TableFits, TypeInv, TypeOK
  <2>3. Cardinality(m_session_all') <= m_max_session_count'
    BY <1>1, <2>1, <2>2 DEF IsSessionOverLimit
  <2>4. \A t \in Session : t \in m_session_all' <=> m_session_id'[t] > 0
    BY <1>1, <1>2, <1>6 DEF TableLife, TableFits
  <2>5. \A t \in m_session_all' : status'[t] = "started"
    BY <1>1, <1>2, <1>6 DEF TableLife, TableFits
  <2>6. IdsUnique'
    <3> SUFFICES ASSUME NEW t \in m_session_all', NEW u \in m_session_all'
                 PROVE  m_session_id'[t] > 0 /\ (m_session_id'[t] = m_session_id'[u] => t = u)
      BY DEF IdsUnique
    <3>1. m_session_id'[t] > 0
      BY <1>1, <1>2, <2>4
    <3>2. ASSUME m_session_id'[t] = m_session_id'[u] PROVE t = u
      <4>1. CASE t = s /\ u # s
        BY <1>1, <1>2, <1>6, <3>2, <4>1
      <4>2. CASE t # s /\ u = s
        BY <1>1, <1>2, <1>6, <3>2, <4>2
      <4>3. CASE t # s /\ u # s
        BY <1>1, <1>2, <1>6, <3>2, <4>3 DEF TableLife, TableFits, IdsUnique
      <4>4. QED
        BY <4>1, <4>2, <4>3
    <3>3. QED
      BY <3>1, <3>2
  <2>7. QED
    BY <2>1, <2>3, <2>4, <2>5, <2>6 DEF TableFits
<1>8. /\ ManagerQueue'
      /\ \A t \in Session :
           Removal(t) # managerLoop[1] /\ (\E i \in 1..Len(managerLoop) : managerLoop[i] = Removal(t))
           => \E i \in 1..Len(managerLoop') : managerLoop'[i] = Removal(t)
  BY <1>1, <1>6, TailKeepsQueue DEF TableLife
<1>9. TableMatchesSockets'
  <2>1. \A t \in Session : Removal(t) # managerLoop[1]
    BY <1>3 DEF Removal
  <2>2. QED
    BY <1>1, <1>2, <1>5, <1>6, <1>8, <2>1 DEF TableLife, TableMatchesSockets
<1>10. QED
  BY <1>7, <1>8, <1>9 DEF TableLife

\* close_session as run by the manager's loop.
LEMMA RemoveKeepsTable ==
  ASSUME TypeInv, TypeInv', TableLife, NEW s \in Session, RemoveSession(s),
         UNCHANGED m_max_session_count
  PROVE  TableLife'
<1>1. /\ ManagerTakes("remove", s) /\ managerLoop' = Tail(managerLoop) /\ DoCloseSession(s)
      /\ UNCHANGED <<m_current_session, status, is_open>>
  BY DEF RemoveSession, socket
<1>2. m_session_all' = m_session_all \ {s}
      /\ \A t \in Session : m_session_id'[t] = IF t \in {s} THEN -1 ELSE m_session_id[t]
  BY <1>1, DoCloseSessionOwn DEF TableLife
<1>3. TableFits'
  BY <1>1, <1>2, SmallerTableFits DEF TableLife
<1>4. Len(managerLoop) \in Nat \ {0} /\ managerLoop[1] = Removal(s)
  BY <1>1, ManagerTakesTail DEF Removal
<1>5. /\ ManagerQueue'
      /\ \A t \in Session :
           Removal(t) # managerLoop[1] /\ (\E i \in 1..Len(managerLoop) : managerLoop[i] = Removal(t))
           => \E i \in 1..Len(managerLoop') : managerLoop'[i] = Removal(t)
  BY <1>1, TailKeepsQueue DEF TableLife
<1>6. ~is_open[s]
  BY <1>4 DEF Removal, TableLife, ManagerQueue
<1>7. \A t \in Session \ {s} : Removal(t) # managerLoop[1]
  BY <1>4 DEF Removal
<1>8. TableMatchesSockets'
  BY <1>1, <1>2, <1>5, <1>6, <1>7 DEF TableLife, TableMatchesSockets
<1>9. QED
  BY <1>3, <1>5, <1>8 DEF TableLife

\* do_add_session over the limit.
LEMMA RefuseKeepsTable ==
  ASSUME TypeInv, TypeInv', Fresh, TableLife, NEW s \in Session, RefuseSession(s),
         UNCHANGED m_max_session_count
  PROVE  TableLife'
<1>1. /\ ManagerTakes("add", s) /\ status' = [status EXCEPT ![s] = "refused"]
      /\ UNCHANGED m_current_session
  BY DEF RefuseSession
<1>2. managerLoop[1] = [op |-> "add", session |-> s] /\ Len(managerLoop) \in Nat \ {0}
  <2>1. managerLoop \in Seq(ManagerHandler) /\ managerLoop # <<>>
    BY <1>1 DEF TypeInv, TypeOK, ManagerHandler, ManagerTakes
  <2>2. QED
    BY <1>1, <2>1, TailOfSeq DEF ManagerTakes
<1>3. status[s] = "accepted"
  BY <1>2 DEF TableLife, ManagerQueue
<1>4. is_open[s] /\ m_session_id[s] = 0 /\ s \notin m_session_all
  BY <1>3 DEF Fresh, FreshOf, TableLife, TableFits
<1>5. status'[s] = "refused" /\ \A t \in Session \ {s} : status'[t] = status[t]
  BY <1>1 DEF TypeInv, TypeOK
<1>6. m_session_all \subseteq Session /\ is_open \in [Session -> BOOLEAN]
  BY DEF TypeInv, TypeOK
<1>7. /\ managerLoop' = Tail(managerLoop)
      /\ m_session_all' = m_session_all
      /\ \A t \in Session \ {s} : m_session_id'[t] = m_session_id[t] /\ is_open'[t] = is_open[t]
      /\ m_session_id'[s] <= 0
  <2>1. CASE s \in SameLoop
    <3>1. managerLoop' = Tail(managerLoop) /\ DoCloseSession(s) /\ is_open' = [is_open EXCEPT ![s] = FALSE]
      BY <1>4, <2>1 DEF RefuseSession, DoClose
    <3>2. m_session_all' = m_session_all \ {s} /\ m_session_id'[s] = -1
          /\ \A t \in Session \ {s} : m_session_id'[t] = m_session_id[t]
      BY <3>1, DoCloseSessionOwn DEF TableLife
    <3>3. QED
      BY <1>4, <1>6, <3>1, <3>2
  <2>2. CASE s \notin SameLoop
    BY <1>4, <2>2 DEF RefuseSession
  <2>3. QED
    BY <2>1, <2>2
<1>8. TableFits'
  <2>1. \A t \in Session : t \in m_session_all' <=> m_session_id'[t] > 0
    <3>1. s \notin m_session_all' /\ ~(m_session_id'[s] > 0)
      BY <1>4, <1>7 DEF TypeInv, TypeOK
    <3>2. QED
      BY <1>7, <3>1 DEF TableLife, TableFits
  <2>2. (\A t \in m_session_all' : status'[t] = "started") /\ IdsUnique'
    BY <1>4, <1>5, <1>6, <1>7 DEF TableLife, TableFits, IdsUnique
  <2>3. QED
    BY <1>7, <2>1, <2>2 DEF TableLife, TableFits
<1>9. /\ ManagerQueue'
      /\ \A t \in Session :
           Removal(t) # managerLoop[1] /\ (\E i \in 1..Len(managerLoop) : managerLoop[i] = Removal(t))
           => \E i \in 1..Len(managerLoop') : managerLoop'[i] = Removal(t)
  BY <1>1, <1>5, <1>7, TailKeepsQueue DEF TableLife
<1>10. TableMatchesSockets'
  <2>1. \A t \in Session : Removal(t) # managerLoop[1]
    BY <1>2 DEF Removal
  <2>2. QED
    BY <1>4, <1>5, <1>7, <1>9, <2>1 DEF TableLife, TableMatchesSockets
<1>11. QED
  BY <1>8, <1>9, <1>10 DEF TableLife

\* check_session_alive, the sessions on its own loop.
LEMMA CheckKeepsTable ==
  ASSUME TypeInv, TypeInv', TableLife, ~crashed, CheckErasesEntry, UNCHANGED m_max_session_count
  PROVE  TableLife'
<1>1. CASE UNCHANGED <<managerLoop, manager, status, socket>>
  BY <1>1 DEF manager, socket, TableLife, TableFits, IdsUnique, ManagerQueue, TableMatchesSockets
<1>2. CASE /\ is_open' = [s \in Session |-> is_open[s] /\ s \notin DeadHere]
           /\ m_session_all' = m_session_all \ DeadHere
           /\ m_session_id' = [s \in Session |-> IF s \in DeadHere THEN -1 ELSE m_session_id[s]]
           /\ UNCHANGED <<managerLoop, m_current_session, status>>
  <2>1. DeadHere \subseteq m_session_all /\ m_session_all \subseteq Session
    BY DEF DeadHere, TypeInv, TypeOK
  <2>2. \A s \in Session : /\ is_open'[s] <=> is_open[s] /\ s \notin DeadHere
                           /\ m_session_id'[s] = IF s \in DeadHere THEN -1 ELSE m_session_id[s]
    BY <1>2
  <2>3. TableFits'
    BY <1>2, <2>1, <2>2, SmallerTableFits DEF TableLife
  <2>4. ManagerQueue'
    <3>1. \A i \in 1..Len(managerLoop) : managerLoop[i].session \in Session
      BY ManagerHandlerAt
    <3>2. QED
      BY <1>2, <2>2, <3>1 DEF TableLife, ManagerQueue
  <2>5. TableMatchesSockets'
    BY <1>2, <2>1, <2>2 DEF TableLife, TableMatchesSockets
  <2>6. QED
    BY <2>3, <2>4, <2>5 DEF TableLife
<1>3. QED
  BY <1>1, <1>2 DEF CheckErasesEntry

-------------------------------------------------------------------------------
(* What the upper layer is told of a session.                              *)

\* What a list of notices holds, holds once, and holds of requests after a close.
In(q, what) == \E i \in 1..Len(q) : q[i] = what
SingleIn(q, what) == \A i, j \in 1..Len(q) : q[i] = what /\ q[j] = what => i = j
LateIn(q) == \E c, i \in 1..Len(q) : c < i /\ q[c] = "close" /\ q[i] \in Contract!Read

Once(s, what) == SingleIn(notified[s], what)

\* The announcement of a session waits in its loop; it does so once.
PendingOpen(s) == \E i \in 1..Len(sessionLoop[s]) : sessionLoop[s][i].op = "session_open"
OnePending(s) ==
  \A i, j \in 1..Len(sessionLoop[s]) :
    sessionLoop[s][i].op = "session_open" /\ sessionLoop[s][j].op = "session_open" => i = j

\* The session reports its close when the socket closes and nothing twice, and after
\* a request told late no read can complete with another one.
NoticeOf(s) ==
  /\ FreshOf(s)
  /\ Contract!Told(s, "close") <=> status[s] # "unborn" /\ ~is_open[s]
  /\ Once(s, "close") /\ Once(s, "open")
  /\ OnePending(s) /\ (PendingOpen(s) => ~Contract!Told(s, "open"))
  /\ Contract!ReadLate(s) => ~readable[s]
  /\ s \in SameLoop /\ status[s] = "started" => notified[s] # <<>> /\ notified[s][1] = "open"

NoticeInv == \A s \in Session : NoticeOf(s)

\* A session a step does not touch.
SameSession(s) ==
  /\ notified'[s] = notified[s] /\ status'[s] = status[s] /\ is_open'[s] = is_open[s]
  /\ sessionLoop'[s] = sessionLoop[s] /\ reading'[s] = reading[s] /\ readable'[s] = readable[s]
  /\ writing'[s] = writing[s] /\ m_session_id'[s] = m_session_id[s]

\* A session a step leaves alone keeps its notice.
LEMMA SameKeepsNotice == ASSUME NEW s \in Session, NoticeOf(s), SameSession(s) PROVE NoticeOf(s)'
BY DEF NoticeOf, FreshOf, Once, SingleIn, PendingOpen, OnePending, Contract!Told, Contract!ReadLate, SameSession

\* One more notice: what it changes in what has been told.
LEMMA OneMore ==
  ASSUME NEW q \in Seq(Notice), NEW e \in Notice
  PROVE  /\ q \o <<e>> = Append(q, e) /\ Append(q, e) \in Seq(Notice)
         /\ \A w : In(Append(q, e), w) <=> In(q, w) \/ w = e
         /\ \A w : SingleIn(q, w) /\ (w = e => ~In(q, w)) => SingleIn(Append(q, e), w)
         /\ LateIn(Append(q, e)) <=> LateIn(q) \/ (e \in Contract!Read /\ In(q, "close"))
         /\ Append(q, e) # <<>>
         /\ Append(q, e)[1] = IF q = <<>> THEN e ELSE q[1]
<1> DEFINE n == Len(q)
           r == Append(q, e)
<1>1. /\ r # <<>> /\ r \in Seq(Notice) /\ n \in Nat /\ Len(r) = n + 1
      /\ \A i \in 1..n : i \in 1..(n + 1) /\ r[i] = q[i]
      /\ r[n + 1] = e
      /\ \A i \in 1..(n + 1) : i \in 1..n \/ i = n + 1
  BY AppendToSeq
<1>2. q \o <<e>> = Append(q, e)
  OBVIOUS
<1>3. r[1] = IF q = <<>> THEN e ELSE q[1]
  BY <1>1
<1> HIDE DEF n, r
<1>4. n = Len(q)
  BY DEF n
<1>5. ASSUME NEW w PROVE In(r, w) <=> In(q, w) \/ w = e
  BY <1>1, <1>4 DEF In
<1>6. ASSUME NEW w, SingleIn(q, w), w = e => ~In(q, w) PROVE SingleIn(r, w)
  BY <1>1, <1>4, <1>6 DEF In, SingleIn
<1>7. ASSUME LateIn(r) PROVE LateIn(q) \/ (e \in Contract!Read /\ In(q, "close"))
  <2>1. PICK c \in 1..(n + 1), i \in 1..(n + 1) :
          c < i /\ r[c] = "close" /\ r[i] \in Contract!Read
    BY <1>1, <1>7 DEF LateIn
  <2>2. c \in 1..n /\ q[c] = "close"
    BY <1>1, <2>1
  <2>3. CASE i = n + 1
    BY <1>1, <1>4, <2>1, <2>2, <2>3 DEF In
  <2>4. CASE i \in 1..n
    BY <1>1, <1>4, <2>1, <2>2, <2>4 DEF LateIn
  <2>5. QED
    BY <1>1, <2>3, <2>4
<1>8. ASSUME LateIn(q) PROVE LateIn(r)
  BY <1>1, <1>4, <1>8 DEF LateIn
<1>9. ASSUME e \in Contract!Read, In(q, "close") PROVE LateIn(r)
  <2>1. PICK c \in 1..n : q[c] = "close"
    BY <1>4, <1>9 DEF In
  <2>2. c < n + 1 /\ n + 1 \in 1..(n + 1)
    BY <1>1
  <2>3. QED
    BY <1>1, <1>9, <2>1, <2>2 DEF LateIn
<1>10. QED
  BY <1>1, <1>2, <1>3, <1>5, <1>6, <1>7, <1>8, <1>9 DEF r

\* The same of what a session has been told.
LEMMA TellOne ==
  ASSUME TypeInv, NEW s \in Session, NEW what \in Notice, Notify(s, <<what>>)
  PROVE  /\ \A w : Contract!Told(s, w)' <=> Contract!Told(s, w) \/ w = what
         /\ \A w : Once(s, w) /\ (w = what => ~Contract!Told(s, w)) => Once(s, w)'
         /\ Contract!ReadLate(s)' <=>
              Contract!ReadLate(s) \/ (what \in Contract!Read /\ Contract!Told(s, "close"))
         /\ notified'[s] # <<>>
         /\ notified'[s][1] = IF notified[s] = <<>> THEN what ELSE notified[s][1]
         /\ \A t \in Session \ {s} : notified'[t] = notified[t]
<1>1. notified \in [Session -> Seq(Notice)] /\ notified' = [notified EXCEPT ![s] = @ \o <<what>>]
  BY DEF TypeInv, TypeOK, Notify, Notice
<1>2. notified'[s] = Append(notified[s], what) /\ \A t \in Session \ {s} : notified'[t] = notified[t]
  BY <1>1, OneMore
<1>3. /\ \A w : Contract!Told(s, w) <=> In(notified[s], w)
      /\ \A w : Contract!Told(s, w)' <=> In(notified'[s], w)
      /\ Contract!ReadLate(s) <=> LateIn(notified[s])
      /\ Contract!ReadLate(s)' <=> LateIn(notified'[s])
  BY DEF Contract!Told, Contract!ReadLate, In, LateIn
<1>4. \A w : (Once(s, w) <=> SingleIn(notified[s], w)) /\ (Once(s, w)' <=> SingleIn(notified'[s], w))
  BY DEF Once
<1>5. notified[s] \in Seq(Notice)
  BY <1>1
<1>6. QED
  BY <1>2, <1>3, <1>4, <1>5, OneMore

\* The opening and the close are the session's own reports, no requests.
LEMMA OwnIsNotRead == "open" \notin Contract!Read /\ "close" \notin Contract!Read
BY DEF Contract!Read

\* A list of one with another appended is the list of the two.
LEMMA AppendToOne ==
  ASSUME NEW S, NEW x \in S, NEW y \in S
  PROVE  <<x>> \o <<y>> = <<x, y>>
<1>1. <<x>> \in Seq(S) /\ <<y>> \in Seq(S) /\ <<x, y>> \in Seq(S) /\ <<x>> \o <<y>> \in Seq(S)
  OBVIOUS
<1>2. Len(<<x>>) = 1 /\ Len(<<y>>) = 1 /\ Len(<<x, y>>) = 2 /\ Len(<<x>> \o <<y>>) = 2
  OBVIOUS
<1>3. \A i \in 1..2 : <<x, y>>[i] = (<<x>> \o <<y>>)[i]
  OBVIOUS
<1>4. QED
  BY <1>1, <1>2, <1>3, SeqEqual

\* What a handler may have heard, and may have followed by a close, is what the contract
\* has a handler tell.
LEMMA HeardTelling ==
  ASSUME NEW told \in Heard
  PROVE  /\ told \in Contract!Telling /\ told \o <<"close">> \in Contract!Telling
         /\ \A i \in 1..Len(told) : told[i] \in Contract!Read /\ told # <<>>
         /\ \A i \in 1..Len(told \o <<"close">>) :
              \/ (told \o <<"close">>)[i] \in Contract!Read /\ told # <<>>
              \/ (told \o <<"close">>)[i] = "close"
<1>1. CASE told = <<>>
  <2>1. told \o <<"close">> = <<"close">> /\ Len(told) = 0
    BY <1>1
  <2>2. Len(<<"close">>) = 1 /\ <<"close">>[1] = "close"
    OBVIOUS
  <2>3. QED
    BY <1>1, <2>1, <2>2 DEF Contract!Telling
<1>2. ASSUME NEW what \in Contract!Read, told = <<what>>
      PROVE  /\ told \in Contract!Telling /\ told \o <<"close">> \in Contract!Telling
             /\ \A i \in 1..Len(told) : told[i] \in Contract!Read /\ told # <<>>
             /\ \A i \in 1..Len(told \o <<"close">>) :
                  \/ (told \o <<"close">>)[i] \in Contract!Read /\ told # <<>>
                  \/ (told \o <<"close">>)[i] = "close"
  <2>1. what \in Notice /\ "close" \in Notice
    BY NoticesTyped DEF Notice
  <2>2. told \o <<"close">> = <<what, "close">>
    BY <1>2, <2>1, AppendToOne
  <2>3. Len(<<what>>) = 1 /\ <<what>>[1] = what /\ <<what>> # <<>>
    OBVIOUS
  <2>4. Len(<<what, "close">>) = 2 /\ <<what, "close">>[1] = what /\ <<what, "close">>[2] = "close"
    OBVIOUS
  <2>5. told \in Contract!Telling /\ <<what, "close">> \in Contract!Telling
    BY <1>2 DEF Contract!Telling
  <2>6. \A i \in 1..Len(told) : told[i] \in Contract!Read /\ told # <<>>
    BY <1>2, <2>3
  <2>7. \A i \in 1..Len(told \o <<"close">>) :
          \/ (told \o <<"close">>)[i] \in Contract!Read /\ told # <<>>
          \/ (told \o <<"close">>)[i] = "close"
    <3> SUFFICES ASSUME NEW i \in 1..Len(<<what, "close">>)
                 PROVE  \/ <<what, "close">>[i] \in Contract!Read /\ told # <<>>
                        \/ <<what, "close">>[i] = "close"
      BY <2>2
    <3>1. i = 1 \/ i = 2
      BY <2>4
    <3>2. told # <<>>
      BY <1>2, <2>3
    <3>3. QED
      BY <2>4, <3>1, <3>2
  <2>8. QED
    BY <1>2, <2>2, <2>5, <2>6, <2>7
<1>3. QED
  BY <1>1, <1>2 DEF Heard

\* What a session has been told when a handler may have heard a request of it.
LEMMA HeardMore ==
  ASSUME NEW q \in Seq(Notice), NEW told \in Heard
  PROVE  /\ q \o told \in Seq(Notice)
         /\ \A w \in Contract!Own : In(q \o told, w) <=> In(q, w)
         /\ \A w \in Contract!Own : SingleIn(q, w) => SingleIn(q \o told, w)
         /\ LateIn(q \o told) => LateIn(q) \/ (told # <<>> /\ In(q, "close"))
         /\ q # <<>> => q \o told # <<>> /\ (q \o told)[1] = q[1]
<1>1. CASE told = <<>>
  <2>1. q \o told = q
    BY <1>1
  <2>2. QED
    BY <2>1
<1>2. ASSUME NEW what \in Contract!Read, told = <<what>>
      PROVE  /\ q \o told \in Seq(Notice)
             /\ \A w \in Contract!Own : In(q \o told, w) <=> In(q, w)
             /\ \A w \in Contract!Own : SingleIn(q, w) => SingleIn(q \o told, w)
             /\ LateIn(q \o told) => LateIn(q) \/ (told # <<>> /\ In(q, "close"))
             /\ q # <<>> => q \o told # <<>> /\ (q \o told)[1] = q[1]
  <2>1. what \in Notice /\ what \notin Contract!Own
    BY DEF Notice, Contract!Own, Contract!Read
  <2>2. told # <<>>
    BY <1>2
  <2>3. q \o told = Append(q, what)
    BY <1>2, <2>1, OneMore
  <2>4. /\ Append(q, what) \in Seq(Notice)
        /\ \A w \in Contract!Own : In(Append(q, what), w) <=> In(q, w)
        /\ \A w \in Contract!Own : SingleIn(q, w) => SingleIn(Append(q, what), w)
        /\ LateIn(Append(q, what)) => LateIn(q) \/ In(q, "close")
        /\ q # <<>> => Append(q, what) # <<>> /\ Append(q, what)[1] = q[1]
    BY <2>1, OneMore
  <2>5. QED
    BY <2>2, <2>3, <2>4
<1>3. QED
  BY <1>1, <1>2 DEF Heard

\* The same when the handler has closed the session after that.
LEMMA ClosedMore ==
  ASSUME NEW q \in Seq(Notice), NEW told \in Heard, ~In(q, "close"),
         NEW r, r = q \o (told \o <<"close">>)
  PROVE  /\ In(r, "close")
         /\ In(r, "open") <=> In(q, "open")
         /\ SingleIn(q, "close") => SingleIn(r, "close")
         /\ SingleIn(q, "open") => SingleIn(r, "open")
         /\ LateIn(r) => LateIn(q) \/ (told # <<>> /\ In(q, "close"))
         /\ q # <<>> => r # <<>> /\ r[1] = q[1]
<1> DEFINE mid == q \o told
<1>1. "open" \in Contract!Own /\ "close" \in Contract!Own /\ "close" \in Notice
  BY NoticesTyped DEF Contract!Own
<1>2. /\ mid \in Seq(Notice)
      /\ In(mid, "open") <=> In(q, "open")
      /\ ~In(mid, "close")
      /\ SingleIn(q, "close") => SingleIn(mid, "close")
      /\ SingleIn(q, "open") => SingleIn(mid, "open")
      /\ LateIn(mid) => LateIn(q) \/ (told # <<>> /\ In(q, "close"))
      /\ q # <<>> => mid # <<>> /\ mid[1] = q[1]
  BY <1>1, HeardMore
<1>3. r = mid \o <<"close">>
  BY <1>1, NoticesTyped
<1> HIDE DEF mid
<1>4. r = Append(mid, "close")
  BY <1>1, <1>2, <1>3, OneMore
<1>5. /\ In(r, "close") /\ (In(r, "open") <=> In(mid, "open"))
      /\ SingleIn(mid, "close") => SingleIn(r, "close")
      /\ SingleIn(mid, "open") => SingleIn(r, "open")
      /\ LateIn(r) => LateIn(mid)
      /\ r # <<>> /\ (mid # <<>> => r[1] = mid[1])
  <2> DEFINE a == Append(mid, "close")
  <2>1. /\ In(a, "close") /\ (In(a, "open") <=> In(mid, "open"))
        /\ SingleIn(mid, "close") => SingleIn(a, "close")
        /\ SingleIn(mid, "open") => SingleIn(a, "open")
        /\ LateIn(a) <=> LateIn(mid) \/ ("close" \in Contract!Read /\ In(mid, "close"))
        /\ a # <<>> /\ a[1] = IF mid = <<>> THEN "close" ELSE mid[1]
    BY <1>1, <1>2, OneMore
  <2>2. r = a
    BY <1>4
  <2> HIDE DEF a
  <2>3. (LateIn(a) => LateIn(mid)) /\ (mid # <<>> => a[1] = mid[1])
    BY <2>1, OwnIsNotRead
  <2>4. QED
    BY <2>1, <2>2, <2>3
<1>6. QED
  BY <1>2, <1>5

\* Telling something of one session is a step of the contract if the contract allows it.
LEMMA TellIsContract ==
  ASSUME TypeInv, NEW s \in Session, NEW more \in Contract!Telling, Notify(s, more),
         \A i \in 1..Len(more) : Contract!MayTell(s, more[i])
  PROVE  Contract!Tell
<1> DEFINE told == [t \in Session |-> IF t = s THEN more ELSE <<>>]
<1>1. notified \in [Session -> Seq(Notice)]
  BY DEF TypeInv, TypeOK, Notice
<1>2. told \in [Session -> Contract!Telling]
  BY DEF Contract!Telling
<1>3. \A t \in Session : \A i \in 1..Len(told[t]) : Contract!MayTell(t, told[t][i])
  OBVIOUS
<1>4. \A t \in Session : notified[t] \o <<>> = notified[t]
  BY <1>1
<1>5. notified' = [t \in Session |-> notified[t] \o told[t]]
  <2>1. notified' = [t \in Session |-> IF t = s THEN notified[t] \o more ELSE notified[t]]
    BY <1>1 DEF Notify
  <2>2. \A t \in Session : (IF t = s THEN notified[t] \o more ELSE notified[t]) = notified[t] \o told[t]
    BY <1>4
  <2> HIDE DEF told
  <2>3. QED
    BY <2>1, <2>2
<1>6. QED
  BY <1>2, <1>3, <1>5 DEF Contract!Tell

\* The session's own report of its opening or its close is one.
LEMMA OwnIsContract ==
  ASSUME TypeInv, NEW s \in Session, NEW what \in Contract!Own, Notify(s, <<what>>),
         ~Contract!Told(s, what)
  PROVE  Contract!Tell
<1>1. <<what>> \in Contract!Telling /\ Len(<<what>>) = 1 /\ <<what>>[1] = what
  BY DEF Contract!Own, Contract!Telling
<1>2. Contract!MayTell(s, what)
  BY DEF Contract!MayTell
<1>3. \A i \in 1..Len(<<what>>) : Contract!MayTell(s, <<what>>[i])
  BY <1>1, <1>2
<1>4. QED
  BY <1>1, <1>3, TellIsContract

\* The announcement in the session's loop, when a handler is taken from it or posted to it.
LEMMA PendingTail ==
  ASSUME TypeInv, NEW s \in Session, NEW op, SessionTakes(s, op), OnePending(s)
  PROVE  /\ PendingOpen(s)' => PendingOpen(s)
         /\ OnePending(s)'
         /\ op = "session_open" => PendingOpen(s) /\ ~PendingOpen(s)'
<1>1. /\ Len(sessionLoop[s]) \in Nat \ {0} /\ sessionLoop[s][1].op = op
      /\ \A i \in 1..Len(sessionLoop'[s]) :
           i + 1 \in 2..Len(sessionLoop[s]) /\ sessionLoop'[s][i] = sessionLoop[s][i + 1]
  BY SessionTakesTail
<1>2. \A i \in 2..Len(sessionLoop[s]) : i \in 1..Len(sessionLoop[s]) /\ i # 1
  BY <1>1
<1>3. PendingOpen(s)' => PendingOpen(s)
  BY <1>1, <1>2 DEF PendingOpen
<1>4. OnePending(s)'
  <2> SUFFICES ASSUME NEW i \in 1..Len(sessionLoop'[s]), NEW j \in 1..Len(sessionLoop'[s]),
                      sessionLoop'[s][i].op = "session_open", sessionLoop'[s][j].op = "session_open"
               PROVE  i = j
    BY DEF OnePending
  <2>1. i + 1 = j + 1
    BY <1>1, <1>2 DEF OnePending
  <2>2. QED
    BY <2>1
<1>5. ASSUME op = "session_open" PROVE PendingOpen(s) /\ ~PendingOpen(s)'
  <2>1. 1 \in 1..Len(sessionLoop[s])
    BY <1>1
  <2>2. QED
    BY <1>1, <1>2, <1>5, <2>1 DEF PendingOpen, OnePending
<1>6. QED
  BY <1>3, <1>4, <1>5

\* ... when another handler is posted, or the checks are.
LEMMA PendingAppend ==
  ASSUME TypeInv, NEW s \in Session, NEW h \in SessionHandler, h.op # "session_open",
         sessionLoop' = [sessionLoop EXCEPT ![s] = Append(@, h)], OnePending(s)
  PROVE  (PendingOpen(s)' => PendingOpen(s)) /\ OnePending(s)'
<1>1. /\ Len(sessionLoop[s]) \in Nat /\ Len(sessionLoop'[s]) = Len(sessionLoop[s]) + 1
      /\ sessionLoop'[s][Len(sessionLoop[s]) + 1] = h
      /\ \A i \in 1..Len(sessionLoop[s]) : sessionLoop'[s][i] = sessionLoop[s][i]
  BY SessionLoopAppend
<1>2. \A i \in 1..Len(sessionLoop'[s]) : sessionLoop'[s][i].op = "session_open" =>
        i \in 1..Len(sessionLoop[s]) /\ sessionLoop[s][i].op = "session_open"
  BY <1>1
<1>3. QED
  BY <1>2 DEF PendingOpen, OnePending

\* The checks posted announce nothing.
LEMMA PendingChecks ==
  ASSUME TypeInv, PostChecks, NEW s \in Session, OnePending(s)
  PROVE  (PendingOpen(s)' => PendingOpen(s)) /\ OnePending(s)'
<1>1. \A i \in 1..Len(sessionLoop'[s]) : sessionLoop'[s][i].op = "session_open" =>
        i \in 1..Len(sessionLoop[s]) /\ sessionLoop[s][i].op = "session_open"
  BY PostChecksAppend
<1>2. QED
  BY <1>1 DEF PendingOpen, OnePending

-------------------------------------------------------------------------------
(* Each step tells what the contract allows.                               *)

\* Whatever a step does to its own session, it keeps the notices of all and is a
\* step of the contract or none.
NoticeStep == NoticeInv' /\ (Contract!Tell \/ UNCHANGED notified)

\* A step of one session, the others being left alone.
LEMMA NoticeStepOf ==
  ASSUME NoticeInv, NEW s \in Session, NoticeOf(s)', \A t \in Session \ {s} : SameSession(t),
         Contract!Tell \/ UNCHANGED notified
  PROVE  NoticeStep
BY SameKeepsNotice DEF NoticeStep, NoticeInv

\* The parts of a session's state that its reads, writes and handlers change.
LoopsOnly(s) ==
  \A t \in Session \ {s} :
    /\ sessionLoop'[t] = sessionLoop[t] /\ reading'[t] = reading[t]
    /\ readable'[t] = readable[t] /\ writing'[t] = writing[t]

\* A session that anything is posted to, read from, written to or told of has been
\* taken by the manager.
LEMMA ActiveIsTaken ==
  ASSUME TypeInv, NEW s \in Session, NoticeOf(s),
         sessionLoop[s] # <<>> \/ reading[s] # "none" \/ writing[s] # 0 \/ notified[s] # <<>>
           \/ m_session_id[s] # 0
  PROVE  status[s] \in {"refused", "started"}
BY DEF TypeInv, TypeOK, NoticeOf, FreshOf

\* A handler of s that may have heard a request ends by closing the session, or leaves
\* table and socket alone.
HeardOrClosed(s, told) ==
  \/ DoClose(s, managerLoop, told)
  \/ /\ Notify(s, told)
     /\ UNCHANGED <<managerLoop, m_session_all, m_session_id, is_open>>

\* Such a handler tells what the contract allows (TcpSession::do_close in whatever
\* handler, on_read_complete): a request only if its read was started in time, the
\* close only if the socket was open.
LEMMA HeardNotice ==
  ASSUME TypeInv, NoticeInv, NEW s \in Session, status[s] \in {"refused", "started"},
         NEW told \in Heard, HeardOrClosed(s, told), told # <<>> => readable[s],
         UNCHANGED status, readable'[s] => is_open'[s] \/ (readable[s] /\ told = <<>>),
         PendingOpen(s)' => PendingOpen(s), OnePending(s)', LoopsOnly(s)
  PROVE  NoticeStep
<1> DEFINE closes == DoClose(s, managerLoop, told) /\ is_open[s]
           more == IF closes THEN told \o <<"close">> ELSE told
<1>0. NoticeOf(s) /\ notified \in [Session -> Seq(Notice)]
  BY DEF NoticeInv, TypeInv, TypeOK, Notice
<1>1. /\ notified' = [notified EXCEPT ![s] = @ \o more]
      /\ is_open' = IF closes THEN [is_open EXCEPT ![s] = FALSE] ELSE is_open
      /\ \A t \in Session \ {s} : m_session_id'[t] = m_session_id[t]
  <2>1. CASE DoClose(s, managerLoop, told) /\ is_open[s]
    BY <2>1 DEF DoClose, DoCloseSession, Notify, TypeInv, TypeOK
  <2>2. CASE DoClose(s, managerLoop, told) /\ ~is_open[s]
    BY <2>2 DEF DoClose, Notify
  <2>3. CASE ~DoClose(s, managerLoop, told)
    BY <2>3 DEF HeardOrClosed, Notify
  <2>4. QED
    BY <2>1, <2>2, <2>3
<1>2. closes \in BOOLEAN /\ (closes => is_open[s]) /\ is_open[s] \in BOOLEAN
  BY DEF TypeInv, TypeOK
<1>3. closes => ~Contract!Told(s, "close")
  BY <1>0 DEF NoticeOf
<1> HIDE DEF closes
<1>4. more = IF closes THEN told \o <<"close">> ELSE told
  OBVIOUS
<1> HIDE DEF more
<1>5. /\ notified'[s] = notified[s] \o more
      /\ is_open'[s] <=> is_open[s] /\ ~closes
      /\ \A t \in Session \ {s} : is_open'[t] = is_open[t] /\ notified'[t] = notified[t]
  BY <1>0, <1>1, <1>2 DEF TypeInv, TypeOK
<1>6. /\ \A w : Contract!Told(s, w) <=> In(notified[s], w)
      /\ \A w : Contract!Told(s, w)' <=> In(notified'[s], w)
      /\ Contract!ReadLate(s) <=> LateIn(notified[s])
      /\ Contract!ReadLate(s)' <=> LateIn(notified'[s])
      /\ \A w : (Once(s, w) <=> SingleIn(notified[s], w)) /\ (Once(s, w)' <=> SingleIn(notified'[s], w))
  BY DEF Contract!Told, Contract!ReadLate, In, LateIn, Once
<1>7. /\ In(notified'[s], "close") <=> In(notified[s], "close") \/ closes
      /\ In(notified'[s], "open") <=> In(notified[s], "open")
      /\ SingleIn(notified[s], "close") => SingleIn(notified'[s], "close")
      /\ SingleIn(notified[s], "open") => SingleIn(notified'[s], "open")
      /\ LateIn(notified'[s]) => LateIn(notified[s]) \/ (told # <<>> /\ In(notified[s], "close"))
      /\ notified[s] # <<>> => notified'[s] # <<>> /\ notified'[s][1] = notified[s][1]
      /\ more \in Contract!Telling
      /\ \A i \in 1..Len(more) :
           \/ more[i] \in Contract!Read /\ told # <<>>
           \/ more[i] = "close" /\ closes
  <2> DEFINE q == notified[s]
             r == notified'[s]
  <2>1. q \in Seq(Notice) /\ (closes => ~In(q, "close")) /\ r = q \o more
    BY <1>0, <1>3, <1>5, <1>6
  <2> HIDE DEF q, r
  <2>2. CASE ~closes
    <3>1. more = told
      BY <1>4, <2>2
    <3>2. /\ \A w \in Contract!Own : In(r, w) <=> In(q, w)
          /\ \A w \in Contract!Own : SingleIn(q, w) => SingleIn(r, w)
          /\ LateIn(r) => LateIn(q) \/ (told # <<>> /\ In(q, "close"))
          /\ q # <<>> => r # <<>> /\ r[1] = q[1]
      BY <2>1, <3>1, HeardMore
    <3>3. "open" \in Contract!Own /\ "close" \in Contract!Own
      BY DEF Contract!Own
    <3>4. more \in Contract!Telling /\ \A i \in 1..Len(more) : more[i] \in Contract!Read /\ told # <<>>
      BY <3>1, HeardTelling
    <3>5. QED
      BY <2>2, <3>2, <3>3, <3>4 DEF q, r
  <2>3. CASE closes
    <3>1. more = told \o <<"close">>
      BY <1>4, <2>3
    <3>2. /\ In(r, "close")
          /\ In(r, "open") <=> In(q, "open")
          /\ SingleIn(q, "close") => SingleIn(r, "close")
          /\ SingleIn(q, "open") => SingleIn(r, "open")
          /\ LateIn(r) => LateIn(q) \/ (told # <<>> /\ In(q, "close"))
          /\ q # <<>> => r # <<>> /\ r[1] = q[1]
      BY <2>1, <2>3, <3>1, ClosedMore
    <3>3. /\ more \in Contract!Telling
          /\ \A i \in 1..Len(more) :
               (more[i] \in Contract!Read /\ told # <<>>) \/ more[i] = "close"
      BY <3>1, HeardTelling
    <3>4. QED
      BY <2>3, <3>2, <3>3 DEF q, r
  <2>4. QED
    BY <2>2, <2>3
<1>8. told # <<>> => ~Contract!ReadLate(s)
  BY <1>0 DEF NoticeOf
<1>9. \A i \in 1..Len(more) : Contract!MayTell(s, more[i])
  BY <1>3, <1>7, <1>8 DEF Contract!MayTell, Contract!Own
<1>10. Contract!Tell
  BY <1>1, <1>7, <1>9, TellIsContract DEF Notify
<1>11. Contract!Told(s, "close")' <=> status'[s] # "unborn" /\ ~is_open'[s]
  BY <1>0, <1>2, <1>5, <1>6, <1>7 DEF NoticeOf
<1>12. Contract!ReadLate(s)' => ~readable'[s]
  <2> SUFFICES ASSUME Contract!ReadLate(s)', readable'[s] PROVE FALSE
    BY DEF TypeInv, TypeOK
  <2>1. In(notified'[s], "close")
    BY <1>6 DEF LateIn, In
  <2>2. ~is_open'[s]
    BY <1>6, <1>11, <2>1
  <2>3. readable[s] /\ told = <<>>
    BY <2>2
  <2>4. ~Contract!ReadLate(s)
    BY <1>0, <2>3 DEF NoticeOf
  <2>5. QED
    BY <1>6, <1>7, <2>3, <2>4
<1>13. NoticeOf(s)'
  <2>1. FreshOf(s)'
    BY DEF FreshOf
  <2>2. Once(s, "close")' /\ Once(s, "open")'
    BY <1>0, <1>6, <1>7 DEF NoticeOf
  <2>3. PendingOpen(s)' => ~Contract!Told(s, "open")'
    BY <1>0, <1>6, <1>7 DEF NoticeOf
  <2>4. s \in SameLoop /\ status'[s] = "started" => notified'[s] # <<>> /\ notified'[s][1] = "open"
    BY <1>0, <1>7 DEF NoticeOf
  <2>5. QED
    BY <1>11, <1>12, <2>1, <2>2, <2>3, <2>4 DEF NoticeOf
<1>14. \A t \in Session \ {s} : SameSession(t)
  BY <1>1, <1>5 DEF LoopsOnly, SameSession
<1>15. QED
  BY <1>10, <1>13, <1>14, NoticeStepOf

\* A handler that only closes.
LEMMA CloseNotice ==
  ASSUME TypeInv, NoticeInv, NEW s \in Session, status[s] \in {"refused", "started"},
         DoClose(s, managerLoop, <<>>), UNCHANGED status, readable'[s] = readable[s],
         PendingOpen(s)' => PendingOpen(s), OnePending(s)', LoopsOnly(s)
  PROVE  NoticeStep
<1>1. HeardOrClosed(s, <<>>) /\ <<>> \in Heard
  BY NoticesTyped DEF HeardOrClosed
<1>2. QED
  BY <1>1, HeardNotice

\* do_write and what the upper layer does on the session's loop are such handlers.
LEMMA WriteIsHeard ==
  ASSUME TypeInv, NEW s \in Session, NEW told, NEW msg, Write(s, msg, told) \/ ActsHere(s, told)
  PROVE  HeardOrClosed(s, told) /\ \A t \in Session \ {s} : writing'[t] = writing[t]
<1>1. ASSUME NEW m, Write(s, m, told)
      PROVE  HeardOrClosed(s, told) /\ \A t \in Session \ {s} : writing'[t] = writing[t]
  <2>1. CASE PushFails(s)
    BY <1>1, <2>1 DEF Write, writer, HeardOrClosed
  <2>2. CASE ~PushFails(s)
    BY <1>1, <2>2 DEF Write, StartWrite, HeardOrClosed, TypeInv, TypeOK
  <2>3. QED
    BY <2>1, <2>2
<1>2. CASE DoClose(s, managerLoop, told) /\ UNCHANGED writer
  BY <1>2 DEF writer, HeardOrClosed
<1>3. QED
  BY <1>1, <1>2 DEF ActsHere

\* Steps that tell nothing and move neither status nor socket.
LEMMA QuietNotice ==
  ASSUME TypeInv, NoticeInv, NEW s \in Session, status[s] \in {"refused", "started"},
         UNCHANGED <<status, is_open, notified, m_session_id>>,
         Contract!ReadLate(s) => ~readable'[s],
         PendingOpen(s)' => PendingOpen(s), OnePending(s)', LoopsOnly(s)
  PROVE  NoticeStep
<1>0. NoticeOf(s)
  BY DEF NoticeInv
<1>1. NoticeOf(s)'
  BY <1>0 DEF NoticeOf, FreshOf, Once, SingleIn, Contract!Told, Contract!ReadLate
<1>2. \A t \in Session \ {s} : SameSession(t)
  BY DEF LoopsOnly, SameSession
<1>3. QED
  BY <1>1, <1>2, NoticeStepOf

\* A read started on a closed socket cannot complete, so it cannot report a message.
LEMMA ReadStartedLate ==
  ASSUME TypeInv, NEW s \in Session, NoticeOf(s), NEW part, AsyncRead(s, part), UNCHANGED is_open
  PROVE  /\ Contract!Told(s, "close") => ~readable'[s]
         /\ Contract!ReadLate(s) => Contract!Told(s, "close")
         /\ \A t \in Session \ {s} : reading'[t] = reading[t] /\ readable'[t] = readable[t]
<1>1. readable'[s] = is_open[s]
      /\ \A t \in Session \ {s} : reading'[t] = reading[t] /\ readable'[t] = readable[t]
  BY DEF AsyncRead, TypeInv, TypeOK
<1>2. Contract!Told(s, "close") => ~is_open[s]
  BY DEF NoticeOf
<1>3. Contract!ReadLate(s) => Contract!Told(s, "close")
  BY DEF Contract!Told, Contract!ReadLate
<1>4. QED
  BY <1>1, <1>2, <1>3 DEF TypeInv, TypeOK

\* The handlers of a session's loop.
LEMMA SessionStepNotice ==
  ASSUME TypeInv, NoticeInv, NEW s \in Session, SessionStep(s)
  PROVE  NoticeStep
<1>0. NoticeOf(s) /\ OnePending(s)
  BY DEF NoticeInv, NoticeOf
<1>1. PICK op \in HandlerOp : /\ SessionTakes(s, op)
                              /\ DoSessionOpen(s) => op = "session_open"
  BY DEF SessionStep, DoReadHeadLen, DoSessionOpen, CloseFun, DoCheckAlive, DoWrite, HandlerOp
<1>2. status[s] \in {"refused", "started"}
  BY <1>0, <1>1, ActiveIsTaken DEF SessionTakes
<1>3. (PendingOpen(s)' => PendingOpen(s)) /\ OnePending(s)'
      /\ (op = "session_open" => PendingOpen(s) /\ ~PendingOpen(s)')
  BY <1>0, <1>1, PendingTail
<1>4. \A t \in Session \ {s} : sessionLoop'[t] = sessionLoop[t]
  BY <1>1, SessionTakesTail
<1>5. UNCHANGED status
  BY DEF SessionStep, DoReadHeadLen, DoSessionOpen, CloseFun, DoCheckAlive, DoWrite
<1>6. CASE DoReadHeadLen(s)
  <2>1. AsyncRead(s, "len") /\ UNCHANGED <<is_open, notified, m_session_id, writing>>
    BY <1>6 DEF DoReadHeadLen, manager, socket, writer
  <2>2. QED
    BY <1>0, <1>2, <1>3, <1>4, <1>5, <2>1, ReadStartedLate, QuietNotice DEF LoopsOnly
<1>7. CASE DoSessionOpen(s)
  <2>1. Notify(s, <<"open">>) /\ UNCHANGED <<is_open, m_session_id, reading, readable, writing>>
    BY <1>7 DEF DoSessionOpen, manager, socket, reader, writer
  <2>2. ~Contract!Told(s, "open") /\ ~PendingOpen(s)'
    BY <1>0, <1>1, <1>3, <1>7 DEF NoticeOf
  <2>3. "open" \in Notice /\ "open" \in Contract!Own /\ "open" \notin Contract!Read
    BY NoticesTyped, OwnIsNotRead DEF Contract!Own
  <2>4. /\ \A w : Contract!Told(s, w)' <=> Contract!Told(s, w) \/ w = "open"
        /\ \A w : Once(s, w) /\ (w = "open" => ~Contract!Told(s, w)) => Once(s, w)'
        /\ Contract!ReadLate(s)' <=> Contract!ReadLate(s)
        /\ notified'[s] # <<>>
        /\ notified'[s][1] = IF notified[s] = <<>> THEN "open" ELSE notified[s][1]
        /\ \A t \in Session \ {s} : notified'[t] = notified[t]
    BY <2>1, <2>3, TellOne
  <2>5. /\ Contract!Told(s, "close")' <=> Contract!Told(s, "close")
        /\ Once(s, "close")' /\ Once(s, "open")'
    BY <1>0, <2>2, <2>4 DEF NoticeOf
  <2>6. NoticeOf(s)'
    BY <1>0, <1>2, <1>3, <1>5, <2>1, <2>2, <2>4, <2>5 DEF NoticeOf, FreshOf
  <2>7. \A t \in Session \ {s} : SameSession(t)
    BY <1>4, <1>5, <2>1, <2>4 DEF SameSession
  <2>8. Contract!Tell
    BY <2>1, <2>2, <2>3, OwnIsContract
  <2>9. QED
    BY <2>6, <2>7, <2>8, NoticeStepOf
<1>8. CASE DoClose(s, managerLoop, <<>>) /\ UNCHANGED <<reading, readable, writing>>
  BY <1>2, <1>3, <1>4, <1>5, <1>8, CloseNotice DEF LoopsOnly
<1>9. CASE UNCHANGED <<is_open, notified, m_session_id, reading, readable>>
           /\ \A t \in Session \ {s} : writing'[t] = writing[t]
  BY <1>0, <1>2, <1>3, <1>4, <1>5, <1>9, QuietNotice DEF LoopsOnly, NoticeOf
<1>10. CASE DoWrite(s)
  <2>1. /\ HeardOrClosed(s, <<>>) /\ <<>> \in Heard /\ UNCHANGED <<reading, readable>>
        /\ \A t \in Session \ {s} : writing'[t] = writing[t]
    BY <1>10, WriteIsHeard, NoticesTyped DEF DoWrite, reader
  <2>2. QED
    BY <1>2, <1>3, <1>4, <1>5, <2>1, HeardNotice DEF LoopsOnly
<1>11. CASE CloseFun(s) \/ DoCheckAlive(s)
  BY <1>8, <1>9, <1>11 DEF CloseFun, DoCheckAlive, reader, writer
<1>12. QED
  BY <1>6, <1>7, <1>10, <1>11 DEF SessionStep

\* Completions of reads.
LEMMA ReadNotice ==
  ASSUME TypeInv, NoticeInv, NEW s \in Session, ReadFails(s) \/ ReadPart(s) \/ OnReadComplete(s)
  PROVE  NoticeStep
<1>0. NoticeOf(s) /\ OnePending(s)
  BY DEF NoticeInv, NoticeOf
<1>1. status[s] \in {"refused", "started"}
  <2>1. reading[s] # "none"
    BY DEF ReadFails, ReadPart, OnReadComplete
  <2>2. QED
    BY <1>0, <2>1, ActiveIsTaken
<1>2. UNCHANGED <<status, sessionLoop>>
  BY DEF ReadFails, ReadPart, OnReadComplete
<1>3. (PendingOpen(s)' => PendingOpen(s)) /\ OnePending(s)'
  BY <1>0, <1>2 DEF PendingOpen, OnePending
<1>4. CASE ReadFails(s)
  <2>1. DoClose(s, managerLoop, <<>>) /\ UNCHANGED <<readable, writing>>
        /\ \A t \in Session \ {s} : reading'[t] = reading[t]
    BY <1>4 DEF ReadFails, TypeInv, TypeOK, writer
  <2>2. QED
    BY <1>1, <1>2, <1>3, <2>1, CloseNotice DEF LoopsOnly
<1>5. CASE ReadPart(s)
  <2>1. PICK part \in Part : AsyncRead(s, part)
    BY <1>5 DEF ReadPart, Part
  <2>2. UNCHANGED <<is_open, notified, m_session_id, writing>>
    BY <1>5 DEF ReadPart, manager, socket, writer
  <2>3. QED
    BY <1>0, <1>1, <1>2, <1>3, <2>1, <2>2, ReadStartedLate, QuietNotice DEF LoopsOnly
<1>6. CASE OnReadComplete(s)
  <2>1. /\ AsyncRead(s, "len") /\ readable[s]
        /\ \E told \in {<<>>} \cup {<<what>> : what \in PeerSends} :
             \/ /\ Notify(s, told)
                /\ UNCHANGED <<managerLoop, m_session_all, m_session_id, is_open, writer, sends, here>>
             \/ ActsHere(s, told)
    BY <1>6 DEF OnReadComplete, ReadNext
  <2>2. PICK told \in {<<>>} \cup {<<what>> : what \in PeerSends} :
             \/ /\ Notify(s, told)
                /\ UNCHANGED <<managerLoop, m_session_all, m_session_id, is_open, writer, sends, here>>
             \/ ActsHere(s, told)
    BY <2>1
  <2>3. told \in Heard
    BY PeerSendsRead DEF Heard
  <2>4. HeardOrClosed(s, told) /\ \A t \in Session \ {s} : writing'[t] = writing[t]
    BY <2>2, WriteIsHeard DEF HeardOrClosed, writer
  <2>5. /\ readable'[s] = is_open'[s]
        /\ \A t \in Session \ {s} : reading'[t] = reading[t] /\ readable'[t] = readable[t]
    BY <2>1 DEF AsyncRead, TypeInv, TypeOK
  <2>6. QED
    BY <1>1, <1>2, <1>3, <2>1, <2>3, <2>4, <2>5, HeardNotice DEF LoopsOnly
<1>7. QED
  BY <1>4, <1>5, <1>6

\* Send and shutdown post to a session that was told of.
LEMMA PostNotice ==
  ASSUME TypeInv, NoticeInv, NEW s \in Session, Send(s) \/ Shutdown(s)
  PROVE  NoticeStep
<1>0. NoticeOf(s) /\ OnePending(s)
  BY DEF NoticeInv, NoticeOf
<1>1. PICK h \in SessionHandler : h.op # "session_open" /\ sessionLoop' = [sessionLoop EXCEPT ![s] = Append(@, h)]
  <2>1. CASE Send(s)
    <3> DEFINE h == Handler("write", sends[s] + 1)
    <3>1. sends[s] \in Nat /\ sends[s] + 1 \in 0..MaxSend
      BY <2>1, BoundsAreNat DEF Send, TypeInv, TypeOK
    <3>2. h \in SessionHandler /\ h.op # "session_open"
      BY <3>1 DEF Handler, SessionHandler, HandlerOp
    <3>3. QED
      BY <2>1, <3>2 DEF Send
  <2>2. CASE Shutdown(s)
    <3>1. Handler("close", 0) \in SessionHandler /\ Handler("close", 0).op # "session_open"
      BY BoundsAreNat DEF Handler, SessionHandler, HandlerOp
    <3>2. QED
      BY <2>2, <3>1 DEF Shutdown
  <2>3. QED
    BY <2>1, <2>2
<1>2. /\ notified[s] # <<>>
      /\ UNCHANGED <<status, is_open, notified, m_session_id, reading, readable, writing>>
  BY DEF Send, Shutdown, manager, socket, reader, writer
<1>3. status[s] \in {"refused", "started"}
  BY <1>0, <1>2, ActiveIsTaken
<1>4. (PendingOpen(s)' => PendingOpen(s)) /\ OnePending(s)'
  BY <1>0, <1>1, PendingAppend
<1>5. \A t \in Session \ {s} : sessionLoop'[t] = sessionLoop[t]
  BY <1>1, SessionLoopAppend
<1>6. Contract!ReadLate(s) => ~readable'[s]
  BY <1>0, <1>2 DEF NoticeOf
<1>7. QED
  BY <1>2, <1>3, <1>4, <1>5, <1>6, QuietNotice DEF LoopsOnly

\* What the upper layer does on the session's own loop.
LEMMA ActHereNotice ==
  ASSUME TypeInv, NoticeInv, NEW s \in Session, ActHere(s)
  PROVE  NoticeStep
<1>0. NoticeOf(s) /\ OnePending(s)
  BY DEF NoticeInv, NoticeOf
<1>1. /\ notified[s] # <<>> /\ ActsHere(s, <<>>) /\ <<>> \in Heard
      /\ UNCHANGED <<status, sessionLoop, reading, readable>>
  BY NoticesTyped DEF ActHere, reader
<1>2. status[s] \in {"refused", "started"}
  BY <1>0, <1>1, ActiveIsTaken
<1>3. (PendingOpen(s)' => PendingOpen(s)) /\ OnePending(s)'
  BY <1>0, <1>1 DEF PendingOpen, OnePending
<1>4. HeardOrClosed(s, <<>>) /\ \A t \in Session \ {s} : writing'[t] = writing[t]
  BY <1>1, WriteIsHeard
<1>5. QED
  BY <1>1, <1>2, <1>3, <1>4, HeardNotice DEF LoopsOnly

\* Completions of writes.
LEMMA WrittenNotice ==
  ASSUME TypeInv, NoticeInv, NEW s \in Session, OnWriteComplete(s) \/ WriteFails(s)
  PROVE  NoticeStep
<1>0. NoticeOf(s) /\ OnePending(s)
  BY DEF NoticeInv, NoticeOf
<1>1. status[s] \in {"refused", "started"}
  <2>1. writing[s] # 0
    BY DEF OnWriteComplete, WriteFails
  <2>2. QED
    BY <1>0, <2>1, ActiveIsTaken
<1>2. UNCHANGED <<status, sessionLoop, reading, readable>>
      /\ \A t \in Session \ {s} : writing'[t] = writing[t]
  BY DEF OnWriteComplete, WriteFails, WriteNext, reader, TypeInv, TypeOK
<1>3. (PendingOpen(s)' => PendingOpen(s)) /\ OnePending(s)'
  BY <1>0, <1>2 DEF PendingOpen, OnePending
<1>4. CASE WriteFails(s)
  <2>1. DoClose(s, managerLoop, <<>>)
    BY <1>4 DEF WriteFails
  <2>2. QED
    BY <1>1, <1>2, <1>3, <2>1, CloseNotice DEF LoopsOnly
<1>5. CASE OnWriteComplete(s)
  <2>1. UNCHANGED <<is_open, notified, m_session_id>>
    BY <1>5 DEF OnWriteComplete, manager, socket
  <2>2. QED
    BY <1>0, <1>1, <1>2, <1>3, <2>1, QuietNotice DEF LoopsOnly, NoticeOf
<1>6. QED
  BY <1>4, <1>5

\* on_accept_complete tells nothing yet.
LEMMA AcceptNotice ==
  ASSUME TypeInv, NoticeInv, NEW s \in Session, Accept(s)
  PROVE  NoticeStep
<1>0. NoticeOf(s)
  BY DEF NoticeInv
<1>1. /\ status[s] = "unborn" /\ status' = [status EXCEPT ![s] = "accepted"]
      /\ is_open' = [is_open EXCEPT ![s] = TRUE]
      /\ UNCHANGED <<notified, m_session_id, sessionLoop, reading, readable, writing>>
  BY DEF Accept, manager, reader, writer
<1>2. /\ status'[s] = "accepted" /\ is_open'[s]
      /\ \A t \in Session \ {s} : status'[t] = status[t] /\ is_open'[t] = is_open[t]
  BY <1>1 DEF TypeInv, TypeOK
<1>3. NoticeOf(s)'
  BY <1>0, <1>1, <1>2
     DEF NoticeOf, FreshOf, Once, SingleIn, PendingOpen, OnePending, Contract!Told, Contract!ReadLate
<1>4. \A t \in Session \ {s} : SameSession(t)
  BY <1>1, <1>2 DEF SameSession
<1>5. QED
  BY <1>1, <1>3, <1>4, NoticeStepOf

\* do_add_session: the session is announced, at once on the manager's own loop.
LEMMA AddNotice ==
  ASSUME TypeInv, NoticeInv, ManagerQueue, NEW s \in Session, AddSession(s)
  PROVE  NoticeStep
<1>0. NoticeOf(s)
  BY DEF NoticeInv
<1>1. /\ ManagerTakes("add", s) /\ managerLoop' = Tail(managerLoop)
      /\ status' = [status EXCEPT ![s] = "started"]
      /\ m_session_id' = [m_session_id EXCEPT ![s] = NextSessionId]
      /\ Start(s) /\ UNCHANGED <<is_open, writing>>
  BY DEF AddSession, writer
<1>2. status[s] = "accepted"
  <2>1. managerLoop[1] = [op |-> "add", session |-> s] /\ Len(managerLoop) \in Nat \ {0}
    BY <1>1, ManagerTakesTail
  <2>2. QED
    BY <2>1 DEF ManagerQueue
<1>3. /\ notified[s] = <<>> /\ sessionLoop[s] = <<>> /\ is_open[s]
      /\ ~Contract!Told(s, "open") /\ ~Contract!Told(s, "close") /\ ~Contract!ReadLate(s)
      /\ Once(s, "open") /\ Once(s, "close") /\ ~PendingOpen(s) /\ OnePending(s)
  <2>1. notified[s] = <<>> /\ sessionLoop[s] = <<>> /\ is_open[s]
    BY <1>0, <1>2 DEF NoticeOf, FreshOf
  <2>2. QED
    BY <1>0, <2>1 DEF NoticeOf, Contract!Told, Contract!ReadLate, Once, SingleIn, PendingOpen, OnePending
<1>4. /\ status'[s] = "started"
      /\ \A t \in Session \ {s} : status'[t] = status[t] /\ m_session_id'[t] = m_session_id[t]
  BY <1>1 DEF TypeInv, TypeOK
<1>5. CASE s \in SameLoop
  <2>1. AsyncRead(s, "len") /\ Notify(s, <<"open">>) /\ UNCHANGED <<sessionLoop, is_open>>
    BY <1>1, <1>5 DEF Start
  <2>2. "open" \in Notice /\ "open" \in Contract!Own /\ "open" \notin Contract!Read
    BY NoticesTyped, OwnIsNotRead DEF Contract!Own
  <2>3. \A t \in Session \ {s} : reading'[t] = reading[t] /\ readable'[t] = readable[t]
    BY <1>0, <2>1, ReadStartedLate
  <2>4. /\ \A w : Contract!Told(s, w)' <=> Contract!Told(s, w) \/ w = "open"
        /\ \A w : Once(s, w) /\ (w = "open" => ~Contract!Told(s, w)) => Once(s, w)'
        /\ Contract!ReadLate(s)' <=> Contract!ReadLate(s)
        /\ notified'[s] # <<>>
        /\ notified'[s][1] = IF notified[s] = <<>> THEN "open" ELSE notified[s][1]
        /\ \A t \in Session \ {s} : notified'[t] = notified[t]
    BY <2>1, <2>2, TellOne
  <2>5. ~Contract!Told(s, "close")' /\ Once(s, "close")' /\ Once(s, "open")' /\ ~Contract!ReadLate(s)'
    BY <1>3, <2>4
  <2>6. ~PendingOpen(s)' /\ OnePending(s)'
    BY <1>3, <2>1 DEF PendingOpen, OnePending
  <2>7. NoticeOf(s)'
    BY <1>1, <1>3, <1>4, <2>4, <2>5, <2>6 DEF NoticeOf, FreshOf
  <2>8. \A t \in Session \ {s} : SameSession(t)
    BY <1>1, <1>4, <2>1, <2>3, <2>4 DEF SameSession
  <2>9. Contract!Tell
    BY <1>3, <2>1, <2>2, OwnIsContract
  <2>10. QED
    BY <2>7, <2>8, <2>9, NoticeStepOf
<1>6. CASE s \notin SameLoop
  <2>1. UNCHANGED <<notified, reading, readable>>
    BY <1>1, <1>6 DEF Start, reader
  <2>2. /\ Len(sessionLoop'[s]) = 2
        /\ sessionLoop'[s][1] = Handler("read_head_len", 0)
        /\ sessionLoop'[s][2] = Handler("session_open", 0)
        /\ \A t \in Session \ {s} : sessionLoop'[t] = sessionLoop[t]
    <3>1. Len(sessionLoop[s]) = 0
      BY <1>3
    <3>2. /\ Len(sessionLoop'[s]) = Len(sessionLoop[s]) + 2
          /\ sessionLoop'[s][Len(sessionLoop[s]) + 1] = Handler("read_head_len", 0)
          /\ sessionLoop'[s][Len(sessionLoop[s]) + 2] = Handler("session_open", 0)
          /\ \A t \in Session \ {s} : sessionLoop'[t] = sessionLoop[t]
      BY <1>1, <1>6, SessionLoopStarted
    <3>3. 0 + 1 = 1 /\ 0 + 2 = 2
      OBVIOUS
    <3>4. QED
      BY <3>1, <3>2, <3>3
  <2>3. OnePending(s)'
    <3>1. Handler("read_head_len", 0).op # "session_open"
      BY DEF Handler
    <3>2. \A i \in 1..Len(sessionLoop'[s]) : sessionLoop'[s][i].op = "session_open" => i = 2
      BY <2>2, <3>1
    <3>3. QED
      BY <3>2 DEF OnePending
  <2>4. /\ ~Contract!Told(s, "open")' /\ ~Contract!Told(s, "close")' /\ ~Contract!ReadLate(s)'
        /\ Once(s, "open")' /\ Once(s, "close")'
    BY <1>3, <2>1 DEF Contract!Told, Contract!ReadLate, Once, SingleIn
  <2>5. NoticeOf(s)'
    BY <1>1, <1>3, <1>4, <1>6, <2>3, <2>4 DEF NoticeOf, FreshOf
  <2>6. \A t \in Session \ {s} : SameSession(t)
    BY <1>1, <1>4, <2>1, <2>2 DEF SameSession
  <2>7. QED
    BY <2>1, <2>5, <2>6, NoticeStepOf
<1>7. QED
  BY <1>5, <1>6

\* do_add_session over the limit: on the manager's own loop the close is told at once.
LEMMA RefuseNotice ==
  ASSUME TypeInv, NoticeInv, ManagerQueue, NEW s \in Session, RefuseSession(s)
  PROVE  NoticeStep
<1>0. NoticeOf(s)
  BY DEF NoticeInv
<1>1. /\ ManagerTakes("add", s) /\ status' = [status EXCEPT ![s] = "refused"]
      /\ UNCHANGED <<reading, readable, writing>>
  BY DEF RefuseSession, reader, writer
<1>2. status[s] = "accepted"
  <2>1. managerLoop \in Seq(ManagerHandler) /\ managerLoop # <<>>
    BY <1>1 DEF TypeInv, TypeOK, ManagerHandler, ManagerTakes
  <2>2. managerLoop[1] = [op |-> "add", session |-> s] /\ Len(managerLoop) \in Nat \ {0}
    BY <1>1, <2>1, TailOfSeq DEF ManagerTakes
  <2>3. QED
    BY <2>2 DEF ManagerQueue
<1>3. /\ notified[s] = <<>> /\ sessionLoop[s] = <<>> /\ is_open[s]
      /\ ~Contract!Told(s, "open") /\ ~Contract!Told(s, "close") /\ ~Contract!ReadLate(s)
      /\ Once(s, "open") /\ Once(s, "close") /\ ~PendingOpen(s) /\ OnePending(s)
  <2>1. notified[s] = <<>> /\ sessionLoop[s] = <<>> /\ is_open[s]
    BY <1>0, <1>2 DEF NoticeOf, FreshOf
  <2>2. QED
    BY <1>0, <2>1 DEF NoticeOf, Contract!Told, Contract!ReadLate, Once, SingleIn, PendingOpen, OnePending
<1>4. status'[s] = "refused" /\ \A t \in Session \ {s} : status'[t] = status[t]
  BY <1>1 DEF TypeInv, TypeOK
<1>5. CASE s \in SameLoop
  <2>1. /\ is_open' = [is_open EXCEPT ![s] = FALSE] /\ UNCHANGED sessionLoop
        /\ Notify(s, <<>> \o <<"close">>)
        /\ \A t \in Session \ {s} : m_session_id'[t] = m_session_id[t]
    BY <1>3, <1>5 DEF RefuseSession, DoClose, DoCloseSession, TypeInv, TypeOK
  <2>2. ~is_open'[s] /\ \A t \in Session \ {s} : is_open'[t] = is_open[t]
    BY <2>1 DEF TypeInv, TypeOK
  <2>3. /\ Notify(s, <<"close">>)
        /\ "close" \in Notice /\ "close" \in Contract!Own /\ "close" \notin Contract!Read
    <3>1. <<>> \o <<"close">> = <<"close">>
      OBVIOUS
    <3>2. QED
      BY <2>1, <3>1, NoticesTyped, OwnIsNotRead DEF Contract!Own
  <2>4. /\ \A w : Contract!Told(s, w)' <=> Contract!Told(s, w) \/ w = "close"
        /\ \A w : Once(s, w) /\ (w = "close" => ~Contract!Told(s, w)) => Once(s, w)'
        /\ Contract!ReadLate(s)' <=> Contract!ReadLate(s)
        /\ notified'[s] # <<>>
        /\ notified'[s][1] = IF notified[s] = <<>> THEN "close" ELSE notified[s][1]
        /\ \A t \in Session \ {s} : notified'[t] = notified[t]
    BY <2>3, TellOne
  <2>5. Contract!Told(s, "close")' /\ Once(s, "close")' /\ Once(s, "open")' /\ ~Contract!ReadLate(s)'
    BY <1>3, <2>4
  <2>6. ~PendingOpen(s)' /\ OnePending(s)'
    BY <1>3, <2>1 DEF PendingOpen, OnePending
  <2>7. NoticeOf(s)'
    BY <1>4, <2>2, <2>5, <2>6 DEF NoticeOf, FreshOf
  <2>8. \A t \in Session \ {s} : SameSession(t)
    BY <1>1, <1>4, <2>1, <2>2, <2>4 DEF SameSession
  <2>9. Contract!Tell
    BY <1>3, <2>3, OwnIsContract
  <2>10. QED
    BY <2>7, <2>8, <2>9, NoticeStepOf
<1>6. CASE s \notin SameLoop
  <2>1. /\ sessionLoop' = [sessionLoop EXCEPT ![s] = Append(@, Handler("close", 0))]
        /\ UNCHANGED <<m_session_id, is_open, notified>>
    BY <1>6 DEF RefuseSession
  <2>2. Handler("close", 0) \in SessionHandler /\ Handler("close", 0).op # "session_open"
    BY BoundsAreNat DEF Handler, SessionHandler, HandlerOp
  <2>3. ~PendingOpen(s)' /\ OnePending(s)'
    BY <1>3, <2>1, <2>2, PendingAppend
  <2>4. \A t \in Session \ {s} : sessionLoop'[t] = sessionLoop[t]
    BY <2>1, <2>2, SessionLoopAppend
  <2>5. /\ ~Contract!Told(s, "close")' /\ ~Contract!ReadLate(s)'
        /\ Once(s, "open")' /\ Once(s, "close")'
    BY <1>3, <2>1 DEF Contract!Told, Contract!ReadLate, Once, SingleIn
  <2>6. NoticeOf(s)'
    BY <1>3, <1>4, <2>1, <2>3, <2>5 DEF NoticeOf, FreshOf
  <2>7. \A t \in Session \ {s} : SameSession(t)
    BY <1>1, <1>4, <2>1, <2>4 DEF SameSession
  <2>8. QED
    BY <2>1, <2>6, <2>7, NoticeStepOf
<1>7. QED
  BY <1>5, <1>6

\* close_session as run by the manager's loop tells nothing.
LEMMA RemoveNotice ==
  ASSUME TypeInv, TableFits, NoticeInv, ManagerQueue, NEW s \in Session, RemoveSession(s)
  PROVE  NoticeStep
<1>0. NoticeOf(s)
  BY DEF NoticeInv
<1>1. /\ ManagerTakes("remove", s) /\ managerLoop' = Tail(managerLoop) /\ DoCloseSession(s)
      /\ UNCHANGED <<status, is_open, sessionLoop, reading, readable, writing, notified>>
  BY DEF RemoveSession, socket, reader, writer
<1>2. status[s] \in {"refused", "started"}
  <2>1. managerLoop[1] = [op |-> "remove", session |-> s] /\ Len(managerLoop) \in Nat \ {0}
    BY <1>1, ManagerTakesTail
  <2>2. QED
    BY <2>1 DEF ManagerQueue
<1>3. \A t \in Session \ {s} : m_session_id'[t] = m_session_id[t]
  BY <1>1, DoCloseSessionOwn
<1>4. NoticeOf(s)'
  BY <1>0, <1>1, <1>2
     DEF NoticeOf, FreshOf, Once, SingleIn, PendingOpen, OnePending, Contract!Told, Contract!ReadLate
<1>5. \A t \in Session \ {s} : SameSession(t)
  BY <1>1, <1>3 DEF SameSession
<1>6. QED
  BY <1>1, <1>4, <1>5, NoticeStepOf

\* Time passes: nothing is told.
LEMMA AgeNotice ==
  ASSUME NoticeInv, NEW s \in Session, Age(s)
  PROVE  NoticeStep
<1>1. UNCHANGED <<notified, status, is_open, sessionLoop, reading, readable, writing, m_session_id>>
  BY DEF Age, manager, reader, writer
<1>2. \A t \in Session : SameSession(t)
  BY <1>1 DEF SameSession
<1>3. QED
  BY <1>1, <1>2, SameKeepsNotice DEF NoticeStep, NoticeInv

\* A session whose check is posted keeps its notice.
LEMMA CheckedKeepsNotice ==
  ASSUME TypeInv, TableFits, PostChecks, NEW s \in Session, NoticeOf(s),
         notified'[s] = notified[s], status'[s] = status[s], is_open'[s] = is_open[s],
         reading'[s] = reading[s], readable'[s] = readable[s], writing'[s] = writing[s],
         m_session_id'[s] = m_session_id[s]
  PROVE  NoticeOf(s)'
<1>1. (PendingOpen(s)' => PendingOpen(s)) /\ OnePending(s)'
  BY PendingChecks DEF NoticeOf
<1>2. CASE s \notin m_session_all
  <2>1. sessionLoop'[s] = sessionLoop[s]
    BY <1>2, PostChecksAppend
  <2>2. SameSession(s)
    BY <2>1 DEF SameSession
  <2>3. QED
    BY <2>2, SameKeepsNotice
<1>3. CASE s \in m_session_all
  <2>1. status[s] = "started"
    BY <1>3 DEF TableFits
  <2>2. QED
    BY <1>1, <2>1 DEF NoticeOf, FreshOf, Once, SingleIn, Contract!Told, Contract!ReadLate
<1>4. QED
  BY <1>2, <1>3

\* check_session_alive tells the close of the sessions it finds dead on its own loop.
LEMMA CheckNotice ==
  ASSUME TypeInv, TableFits, NoticeInv, Check
  PROVE  NoticeStep
<1>1. CASE CheckSessionAlive
  <2>1. /\ PostChecks
        /\ UNCHANGED <<notified, status, is_open, reading, readable, writing, m_session_id>>
    BY <1>1 DEF CheckSessionAlive, manager, socket, reader, writer
  <2>2. \A s \in Session : NoticeOf(s)'
    BY <2>1, CheckedKeepsNotice DEF NoticeInv
  <2>3. QED
    BY <2>1, <2>2 DEF NoticeStep, NoticeInv
<1>2. CASE UNCHANGED <<managerLoop, manager, status, socket, sessionLoop, reader, writer, sends, here, notified>>
  <2>1. UNCHANGED <<notified, status, is_open, sessionLoop, reading, readable, writing, m_session_id>>
    BY <1>2 DEF manager, socket, reader, writer
  <2>2. \A t \in Session : SameSession(t)
    BY <2>1 DEF SameSession
  <2>3. QED
    BY <2>1, <2>2, SameKeepsNotice DEF NoticeStep, NoticeInv
<1>3. CASE /\ is_open' = [s \in Session |-> is_open[s] /\ s \notin DeadHere]
           /\ notified' = [s \in Session |->
                IF s \in DeadHere THEN Append(notified[s], "close") ELSE notified[s]]
           /\ m_session_id' = [s \in Session |-> IF s \in DeadHere THEN -1 ELSE m_session_id[s]]
           /\ PostChecks
           /\ UNCHANGED <<status, reader, writer>>
  <2>1. UNCHANGED <<status, reading, readable, writing>>
    BY <1>3 DEF reader, writer
  <2>2. \A s \in DeadHere : s \in Session /\ is_open[s] /\ status[s] = "started"
    BY DEF DeadHere, TableFits, TypeInv, TypeOK
  <2>3. ASSUME NEW s \in Session, s \notin DeadHere PROVE NoticeOf(s)'
    <3>1. notified'[s] = notified[s] /\ is_open'[s] = is_open[s] /\ m_session_id'[s] = m_session_id[s]
      BY <1>3, <2>3 DEF TypeInv, TypeOK
    <3>2. NoticeOf(s)
      BY DEF NoticeInv
    <3>3. QED
      BY <1>3, <2>1, <3>1, <3>2, CheckedKeepsNotice
  <2>4. ASSUME NEW s \in DeadHere PROVE NoticeOf(s)' /\ Contract!MayTell(s, "close")
    <3>1. s \in Session /\ NoticeOf(s) /\ status[s] = "started" /\ is_open[s]
      BY <2>2 DEF NoticeInv
    <3>2. notified'[s] = Append(notified[s], "close") /\ ~is_open'[s]
      BY <1>3, <3>1
    <3>3. ~Contract!Told(s, "close")
      BY <3>1 DEF NoticeOf
    <3>4. /\ \A w : Contract!Told(s, w)' <=> Contract!Told(s, w) \/ w = "close"
          /\ \A w : Once(s, w) /\ (w = "close" => ~Contract!Told(s, w)) => Once(s, w)'
          /\ Contract!ReadLate(s)' <=> Contract!ReadLate(s)
          /\ notified'[s] # <<>>
          /\ notified'[s][1] = IF notified[s] = <<>> THEN "close" ELSE notified[s][1]
      <4>1. /\ \A w : Contract!Told(s, w) <=> In(notified[s], w)
            /\ \A w : Contract!Told(s, w)' <=> In(notified'[s], w)
            /\ Contract!ReadLate(s) <=> LateIn(notified[s])
            /\ Contract!ReadLate(s)' <=> LateIn(notified'[s])
            /\ \A w : (Once(s, w) <=> SingleIn(notified[s], w)) /\ (Once(s, w)' <=> SingleIn(notified'[s], w))
        BY DEF Contract!Told, Contract!ReadLate, In, LateIn, Once
      <4>2. notified[s] \in Seq(Notice) /\ "close" \in Notice
        BY <3>1, NoticesTyped DEF TypeInv, TypeOK, Notice
      <4>3. QED
        BY <3>2, <4>1, <4>2, OneMore, OwnIsNotRead
    <3>5. Contract!Told(s, "close")' /\ (Contract!Told(s, "open")' <=> Contract!Told(s, "open"))
          /\ Once(s, "close")' /\ Once(s, "open")'
      BY <3>1, <3>3, <3>4 DEF NoticeOf
    <3>6. (PendingOpen(s)' => PendingOpen(s)) /\ OnePending(s)'
      BY <1>3, <3>1, PendingChecks DEF NoticeOf
    <3>7. NoticeOf(s)'
      BY <2>1, <3>1, <3>2, <3>4, <3>5, <3>6 DEF NoticeOf, FreshOf
    <3>8. QED
      BY <3>3, <3>7 DEF Contract!MayTell, Contract!Own
  <2>5. NoticeInv'
    BY <2>3, <2>4 DEF NoticeInv
  <2>6. Contract!Tell
    <3> DEFINE told == [s \in Session |-> IF s \in DeadHere THEN <<"close">> ELSE <<>>]
    <3>1. told \in [Session -> Contract!Telling]
      BY DEF Contract!Telling
    <3>2. ASSUME NEW s \in Session, NEW i \in 1..Len(told[s]) PROVE Contract!MayTell(s, told[s][i])
      <4>1. s \in DeadHere
        OBVIOUS
      <4>2. told[s] = <<"close">> /\ i \in 1..1
        BY <4>1
      <4>3. told[s][i] = "close"
        BY <4>2
      <4>4. QED
        BY <2>4, <4>1, <4>3
    <3>3. notified' = [s \in Session |-> notified[s] \o told[s]]
      <4>1. ASSUME NEW s \in Session
            PROVE  (IF s \in DeadHere THEN Append(notified[s], "close") ELSE notified[s])
                     = notified[s] \o told[s]
        <5>1. notified[s] \in Seq(Notice) /\ "close" \in Notice
          BY NoticesTyped DEF TypeInv, TypeOK, Notice
        <5>2. notified[s] \o <<"close">> = Append(notified[s], "close") /\ notified[s] \o <<>> = notified[s]
          BY <5>1, OneMore
        <5>3. told[s] = IF s \in DeadHere THEN <<"close">> ELSE <<>>
          OBVIOUS
        <5> HIDE DEF told
        <5>4. QED
          BY <5>2, <5>3
      <4> HIDE DEF told
      <4>2. QED
        BY <1>3, <4>1
    <3>4. QED
      BY <3>1, <3>2, <3>3 DEF Contract!Tell
  <2>7. QED
    BY <2>5, <2>6 DEF NoticeStep
<1>4. QED
  BY <1>1, <1>2, <1>3 DEF Check, CheckErasesEntry

-------------------------------------------------------------------------------
(* The table, the notices and the contract.                                *)

\* Everything a session's life relies on.
LifeInv == TypeInv /\ TableLife /\ NoticeInv

\* The server starts with an empty table, no session and nothing told.
LEMMA InitLife == Init => LifeInv
<1> SUFFICES ASSUME Init PROVE LifeInv
  OBVIOUS
<1>1. TypeInv
  BY InitTypeInv
<1>2. IsFiniteSet(m_session_all) /\ Cardinality(m_session_all) = 0
  BY FS_EmptySet DEF Init
<1>3. TableFits
  BY <1>1, <1>2, BoundsAreNat DEF Init, TableFits, IdsUnique, TypeInv, TypeOK
<1>4. ManagerQueue /\ TableMatchesSockets
  BY DEF Init, ManagerQueue, TableMatchesSockets
<1>5. ASSUME NEW s \in Session PROVE NoticeOf(s)
  BY DEF Init, NoticeOf, FreshOf, Once, SingleIn, PendingOpen, OnePending, Contract!Told, Contract!ReadLate
<1>6. QED
  BY <1>1, <1>3, <1>4, <1>5 DEF LifeInv, TableLife, NoticeInv

\* The steps that leave the table and the manager's loop alone.
LEMMA ElsewhereKeepsTable ==
  ASSUME TableLife, UNCHANGED <<m_max_session_count, managerLoop, manager, status, is_open>>
  PROVE  TableLife'
BY DEF manager, TableLife, TableFits, IdsUnique, ManagerQueue, TableMatchesSockets

\* The steps of a session keep the table.
LEMMA SessionKeepsTable ==
  ASSUME LifeInv, TypeInv', UNCHANGED m_max_session_count, NEW s \in Session,
         \/ SessionStep(s) \/ ReadFails(s) \/ ReadPart(s) \/ OnReadComplete(s)
         \/ Send(s) \/ Shutdown(s) \/ ActHere(s) \/ OnWriteComplete(s) \/ WriteFails(s) \/ Age(s)
  PROVE  TableLife'
<1>0. TypeInv /\ TableLife /\ NoticeOf(s)
  BY DEF LifeInv, NoticeInv
<1>1. CASE UNCHANGED <<managerLoop, manager, status, is_open>>
  BY <1>0, <1>1, ElsewhereKeepsTable
<1>2. ASSUME NEW told, HeardOrClosed(s, told), UNCHANGED <<m_current_session, status>>,
             sessionLoop[s] # <<>> \/ reading[s] # "none" \/ writing[s] # 0 \/ notified[s] # <<>>
      PROVE  TableLife'
  <2>1. status[s] \in {"refused", "started"}
    BY <1>0, <1>2, ActiveIsTaken
  <2>2. CASE DoClose(s, managerLoop, told)
    BY <1>0, <1>2, <2>1, <2>2, CloseKeepsTable
  <2>3. CASE ~DoClose(s, managerLoop, told)
    BY <1>1, <1>2, <2>3 DEF HeardOrClosed, manager
  <2>4. QED
    BY <2>2, <2>3
<1>3. CASE SessionStep(s)
  <2>1. sessionLoop[s] # <<>>
    BY <1>3 DEF SessionStep, DoReadHeadLen, DoSessionOpen, CloseFun, DoCheckAlive, DoWrite, SessionTakes
  <2>2. CASE DoReadHeadLen(s) \/ DoSessionOpen(s)
    BY <1>1, <2>2 DEF DoReadHeadLen, DoSessionOpen, socket
  <2>3. CASE CloseFun(s)
    BY <1>2, <2>1, <2>3 DEF CloseFun, HeardOrClosed
  <2>4. CASE DoCheckAlive(s)
    <3>1. CASE IsAlive(s)
      BY <1>1, <2>4, <3>1 DEF DoCheckAlive, manager
    <3>2. CASE ~IsAlive(s)
      BY <1>2, <2>1, <2>4, <3>2 DEF DoCheckAlive, HeardOrClosed
    <3>3. QED
      BY <3>1, <3>2
  <2>5. CASE DoWrite(s)
    <3>1. HeardOrClosed(s, <<>>) /\ UNCHANGED <<m_current_session, status>>
      BY <1>0, <2>5, WriteIsHeard DEF DoWrite
    <3>2. QED
      BY <1>2, <2>1, <3>1
  <2>6. QED
    BY <1>3, <2>2, <2>3, <2>4, <2>5 DEF SessionStep
<1>4. CASE ReadFails(s)
  BY <1>2, <1>4 DEF ReadFails, HeardOrClosed
<1>5. CASE WriteFails(s)
  BY <1>2, <1>5 DEF WriteFails, HeardOrClosed
<1>6. CASE ReadPart(s) \/ Send(s) \/ Shutdown(s) \/ OnWriteComplete(s) \/ Age(s)
  BY <1>1, <1>6 DEF ReadPart, Send, Shutdown, OnWriteComplete, Age, socket
<1>7. CASE OnReadComplete(s)
  <2>1. PICK told : \/ Notify(s, told) /\ UNCHANGED <<managerLoop, m_session_all, m_session_id, is_open>>
                    \/ ActsHere(s, told)
    BY <1>7 DEF OnReadComplete
  <2>2. HeardOrClosed(s, told)
    BY <1>0, <2>1, WriteIsHeard DEF HeardOrClosed
  <2>3. reading[s] # "none" /\ UNCHANGED <<m_current_session, status>>
    BY <1>7 DEF OnReadComplete
  <2>4. QED
    BY <1>2, <2>2, <2>3
<1>8. CASE ActHere(s)
  <2>1. HeardOrClosed(s, <<>>) /\ notified[s] # <<>> /\ UNCHANGED <<m_current_session, status>>
    BY <1>0, <1>8, WriteIsHeard DEF ActHere
  <2>2. QED
    BY <1>2, <2>1
<1>9. QED
  BY <1>3, <1>4, <1>5, <1>6, <1>7, <1>8

\* Every step keeps the table and the notices, and tells what the contract allows.
LEMMA NextLife == LifeInv /\ [Next]_vars => LifeInv' /\ [Contract!Tell]_notified
<1> SUFFICES ASSUME LifeInv, [Next]_vars PROVE LifeInv' /\ [Contract!Tell]_notified
  OBVIOUS
<1>0. /\ TypeInv /\ TableLife /\ NoticeInv /\ TableFits /\ ManagerQueue /\ Fresh
      /\ \A s \in Session : NoticeOf(s)
  BY DEF LifeInv, TableLife, NoticeInv, NoticeOf, Fresh
<1>1. TypeInv'
  BY <1>0, NextTypeInv
<1>2. CASE UNCHANGED vars
  <2>1. UNCHANGED <<m_max_session_count, managerLoop, manager, status, is_open, notified, sessionLoop,
                    reading, readable, writing, m_session_id>>
    BY <1>2 DEF vars, manager, socket, reader, writer
  <2>2. TableLife'
    BY <1>0, <2>1, ElsewhereKeepsTable
  <2>3. \A s \in Session : SameSession(s)
    BY <2>1 DEF SameSession
  <2>4. NoticeInv'
    BY <1>0, <2>3, SameKeepsNotice DEF NoticeInv
  <2>5. QED
    BY <1>1, <2>1, <2>2, <2>4 DEF LifeInv
<1>3. CASE Next
  <2>1. ~crashed /\ UNCHANGED m_max_session_count
    BY <1>3 DEF Next
  <2>2. TableLife'
    <3>1. ASSUME CheckSessionAlive PROVE TableLife'
      BY <1>0, <2>1, <3>1, ElsewhereKeepsTable DEF CheckSessionAlive, socket
    <3>2. QED
      BY <1>0, <1>1, <1>3, <2>1, <3>1, RefuseKeepsTable, AddKeepsTable, RemoveKeepsTable, CheckKeepsTable,
         AcceptKeepsTable, SessionKeepsTable, Zenon
         DEF Next, ManagerStep, Check
  <2>3. NoticeStep
    BY <1>0, <1>3, RefuseNotice, AddNotice, RemoveNotice, CheckNotice, AcceptNotice, AgeNotice,
       SessionStepNotice, ReadNotice, PostNotice, ActHereNotice, WrittenNotice, Zenon
       DEF Next, ManagerStep
  <2>4. QED
    BY <1>1, <2>2, <2>3 DEF LifeInv, NoticeStep
<1>4. QED
  BY <1>2, <1>3

\* The invariant of a session's life.
LEMMA LifeAlways == SafeSpec => []LifeInv
BY InitLife, NextLife, PTL DEF SafeSpec
\* The table and the sockets agree up to removals on their way.
THEOREM TableMatchesSocketsAlways == Spec => []TableMatchesSockets
<1>1. LifeInv => TableMatchesSockets
  BY DEF LifeInv, TableLife
<1>2. QED
  BY LifeAlways, <1>1, PTL DEF Spec

\* What is told once is told one time, in numbers.
LEMMA TimesOnce ==
  ASSUME NEW s \in Session, NEW what, Once(s, what)
  PROVE  Times(s, what) = IF Contract!Told(s, what) THEN 1 ELSE 0
<1> DEFINE at == {i \in 1..Len(notified[s]) : notified[s][i] = what}
<1>1. CASE Contract!Told(s, what)
  <2>1. PICK i \in 1..Len(notified[s]) : notified[s][i] = what
    BY <1>1 DEF Contract!Told
  <2>2. at = {i}
    BY <2>1 DEF Once, SingleIn
  <2>3. QED
    BY <1>1, <2>2, FS_Singleton DEF Times
<1>2. CASE ~Contract!Told(s, what)
  <2>1. at = {}
    BY <1>2 DEF Contract!Told
  <2>2. QED
    BY <1>2, <2>1, FS_EmptySet DEF Times
<1>3. QED
  BY <1>1, <1>2

\* However a session ends, it reports its close exactly once, when the socket closes, and
\* its opening at most once, whatever requests with the same commands its peer sends.
THEOREM ClosesReported == Spec => []CloseReportedOnce
<1>1. LifeInv => CloseReportedOnce
  <2> SUFFICES ASSUME LifeInv, NEW s \in Session
               PROVE  /\ Times(s, "close") = IF status[s] # "unborn" /\ ~is_open[s] THEN 1 ELSE 0
                      /\ Times(s, "open") <= 1
    BY DEF CloseReportedOnce
  <2>1. NoticeOf(s)
    BY DEF LifeInv, NoticeInv
  <2>2. /\ Times(s, "close") = IF Contract!Told(s, "close") THEN 1 ELSE 0
        /\ Times(s, "open") = IF Contract!Told(s, "open") THEN 1 ELSE 0
    BY <2>1, TimesOnce DEF NoticeOf
  <2>3. QED
    BY <2>1, <2>2 DEF NoticeOf
<1>2. QED
  BY LifeAlways, <1>1, PTL DEF Spec

\* What the manager relies on: ids tell the sessions of the table apart, the sessions
\* being served keep to the limit, and on the manager's own loop a session is announced
\* before anything else is told of it.
THEOREM TableInvAlways == Spec => []TableInv
<1>1. LifeInv => TableInv
  <2> SUFFICES ASSUME LifeInv PROVE TableInv
    OBVIOUS
  <2>1. TypeOK /\ IdsUnique
    BY DEF LifeInv, TypeInv, TableLife, TableFits
  <2>2. LimitHolds
    <3> DEFINE served == {s \in Session : status[s] = "started" /\ is_open[s]}
    <3>1. served \subseteq m_session_all
      BY DEF LifeInv, TableLife, TableMatchesSockets
    <3>2. IsFiniteSet(m_session_all) /\ Cardinality(m_session_all) <= m_max_session_count
      BY DEF LifeInv, TableLife, TableFits
    <3>3. /\ Cardinality(served) <= Cardinality(m_session_all)
          /\ Cardinality(served) \in Nat /\ Cardinality(m_session_all) \in Nat
      BY <3>1, <3>2, FS_Subset, FS_CardinalityType
    <3>4. m_max_session_count \in Nat
      BY BoundsAreNat DEF LifeInv, TypeInv, TypeOK
    <3> HIDE DEF served
    <3>5. Cardinality(served) <= m_max_session_count
      BY <3>2, <3>3, <3>4
    <3>6. QED
      BY <3>5 DEF LimitHolds, served
  <2>3. OpenFirstOnOwnLoop
    BY SameLoopIsSession DEF LifeInv, NoticeInv, NoticeOf, OpenFirstOnOwnLoop
  <2>4. QED
    BY <2>1, <2>2, <2>3 DEF TableInv
<1>2. QED
  BY LifeAlways, <1>1, PTL DEF Spec

\* The upper layer is never told more than the contract allows.
THEOREM ImplementsContractAlways == Spec => ImplementsContract
<1>1. Init => Contract!Init
  BY DEF Init, Contract!Init
<1>2. QED
  BY <1>1, InitLife, NextLife, PTL DEF Spec, SafeSpec, ImplementsContract, Contract!Spec

-------------------------------------------------------------------------------
(* Sending.  Lists of messages first.                                      *)

\* The messages of q are in order: none twice, and each behind all that were sent before
\* it, but those it may overtake, h being the messages sent on the session's own loop.
InOrder(q, h) ==
  \A j \in 1..Len(q) :
    /\ \A i \in 1..(j - 1) : q[i] # q[j]
    /\ \A k \in 1..(q[j] - 1) :
         (\E i \in 1..(j - 1) : q[i] = k) \/ (q[j] \in h /\ k \notin h)

\* What is behind W once the outstanding write of d, if there is one, completes.
Out(W, d) == IF d = 0 THEN W ELSE Append(W, d)

\* Messages sent later change nothing in the order of those there are.
LEMMA InOrderSame ==
  ASSUME NEW n \in Nat, NEW q \in Seq(1..n), NEW h, NEW g, \A k \in 1..n : k \in h <=> k \in g,
         InOrder(q, h)
  PROVE  InOrder(q, g)
<1> SUFFICES ASSUME NEW j \in 1..Len(q)
             PROVE  /\ \A i \in 1..(j - 1) : q[i] # q[j]
                    /\ \A k \in 1..(q[j] - 1) :
                         (\E i \in 1..(j - 1) : q[i] = k) \/ (q[j] \in g /\ k \notin g)
  BY DEF InOrder
<1>1. q[j] \in 1..n
  OBVIOUS
<1>2. \A k \in 1..(q[j] - 1) : k \in 1..n
  BY <1>1
<1>3. QED
  BY <1>1, <1>2 DEF InOrder

\* A beginning of a list in order is in order.
LEMMA InOrderPart ==
  ASSUME NEW n \in Nat, NEW r \in Seq(1..n), NEW q \in Seq(1..n), NEW h, InOrder(r, h),
         Len(q) <= Len(r), \A i \in 1..Len(q) : q[i] = r[i]
  PROVE  InOrder(q, h)
<1> SUFFICES ASSUME NEW j \in 1..Len(q)
             PROVE  /\ \A i \in 1..(j - 1) : q[i] # q[j]
                    /\ \A k \in 1..(q[j] - 1) :
                         (\E i \in 1..(j - 1) : q[i] = k) \/ (q[j] \in h /\ k \notin h)
  BY DEF InOrder
<1>1. j \in 1..Len(r) /\ \A i \in 1..(j - 1) : i \in 1..Len(q)
  OBVIOUS
<1>2. q[j] = r[j] /\ \A i \in 1..(j - 1) : q[i] = r[i]
  BY <1>1
<1>3. QED
  BY <1>1, <1>2 DEF InOrder

\* A message behind all that it may not overtake, appended.
LEMMA InOrderMore ==
  ASSUME NEW n \in Nat, NEW q \in Seq(1..n), NEW m \in 1..n, NEW h, InOrder(q, h), ~In(q, m),
         \A k \in 1..(m - 1) : In(q, k) \/ (m \in h /\ k \notin h)
  PROVE  Append(q, m) \in Seq(1..n) /\ InOrder(Append(q, m), h)
<1> DEFINE l == Len(q)
           r == Append(q, m)
<1>1. /\ r \in Seq(1..n) /\ l \in Nat /\ Len(r) = l + 1 /\ r[l + 1] = m
      /\ \A i \in 1..l : r[i] = q[i]
      /\ \A i \in 1..(l + 1) : i \in 1..l \/ i = l + 1
  BY AppendToSeq
<1> HIDE DEF r
<1>2. ASSUME NEW j \in 1..(l + 1)
      PROVE  /\ \A i \in 1..(j - 1) : r[i] # r[j]
             /\ \A k \in 1..(r[j] - 1) :
                  (\E i \in 1..(j - 1) : r[i] = k) \/ (r[j] \in h /\ k \notin h)
  <2>1. CASE j \in 1..l
    <3>1. r[j] = q[j] /\ \A i \in 1..(j - 1) : i \in 1..l /\ r[i] = q[i]
      BY <1>1, <2>1
    <3>2. QED
      BY <2>1, <3>1 DEF InOrder
  <2>2. CASE j = l + 1
    <3>1. r[j] = m /\ j - 1 = l /\ \A i \in 1..l : r[i] = q[i]
      BY <1>1, <2>2
    <3>2. \A k : In(q, k) <=> \E i \in 1..l : q[i] = k
      BY DEF In
    <3> HIDE DEF l
    <3>3. QED
      BY <3>1, <3>2
  <2>3. QED
    BY <1>1, <2>1, <2>2
<1>3. QED
  BY <1>1, <1>2 DEF InOrder, r

\* Lists joined.
LEMMA Joined ==
  ASSUME NEW S, NEW W \in Seq(S), NEW Q \in Seq(S)
  PROVE  /\ W \o Q \in Seq(S) /\ Len(W) \in Nat /\ Len(Q) \in Nat
         /\ Len(W \o Q) = Len(W) + Len(Q)
         /\ \A i \in 1..Len(W) : (W \o Q)[i] = W[i]
         /\ \A i \in 1..Len(Q) : (W \o Q)[Len(W) + i] = Q[i]
OBVIOUS

\* A message appended to the queue is appended to the line; one that goes from the head
\* of the queue to the wire leaves the line as it is.
LEMMA LineAppend ==
  ASSUME NEW S, NEW W \in Seq(S), NEW Q \in Seq(S), NEW m \in S
  PROVE  W \o Append(Q, m) = Append(W \o Q, m)
<1>1. Append(Q, m) = Q \o <<m>> /\ Append(W \o Q, m) = (W \o Q) \o <<m>> /\ <<m>> \in Seq(S)
  OBVIOUS
<1>2. W \o (Q \o <<m>>) = (W \o Q) \o <<m>>
  BY <1>1
<1>3. QED
  BY <1>1, <1>2

LEMMA LineShift ==
  ASSUME NEW S, NEW W \in Seq(S), NEW Q \in Seq(S), Q # <<>>
  PROVE  Append(W, Head(Q)) \o Tail(Q) = W \o Q
<1>1. Head(Q) \in S /\ Tail(Q) \in Seq(S) /\ <<Head(Q)>> \in Seq(S)
  OBVIOUS
<1>2. <<Head(Q)>> \o Tail(Q) = Q
  <2>1. <<Head(Q)>> \o Tail(Q) \in Seq(S) /\ Len(<<Head(Q)>> \o Tail(Q)) = Len(Q)
    BY <1>1, TailOfSeq
  <2>2. \A i \in 1..Len(Q) : (<<Head(Q)>> \o Tail(Q))[i] = Q[i]
    BY <1>1, TailOfSeq
  <2>3. QED
    BY <2>1, <2>2, SeqEqual
<1>3. Append(W, Head(Q)) = W \o <<Head(Q)>>
  BY <1>1
<1>4. (W \o <<Head(Q)>>) \o Tail(Q) = W \o (<<Head(Q)>> \o Tail(Q))
  BY <1>1
<1>5. QED
  BY <1>2, <1>3, <1>4

\* The wire with or without its outstanding write is in order if the line is, and the
\* wire is if it is with that write.
LEMMA OutInOrder ==
  ASSUME NEW n \in Nat, NEW W \in Seq(1..n), NEW Q \in Seq(1..n), NEW h, InOrder(W \o Q, h)
  PROVE  InOrder(Out(W, IF Q = <<>> THEN 0 ELSE Head(Q)), h)
<1>1. CASE Q = <<>>
  <2>1. Out(W, IF Q = <<>> THEN 0 ELSE Head(Q)) = W /\ W \o Q = W
    BY <1>1 DEF Out
  <2>2. QED
    BY <2>1
<1>2. CASE Q # <<>>
  <2>1. Head(Q) \in 1..n /\ Head(Q) = Q[1] /\ Len(Q) >= 1
    BY <1>2, HeadInSeq
  <2>2. Head(Q) # 0
    BY <2>1
  <2>3. Out(W, IF Q = <<>> THEN 0 ELSE Head(Q)) = Append(W, Head(Q))
    BY <1>2, <2>2 DEF Out
  <2> DEFINE r == W \o Q
             a == Append(W, Head(Q))
  <2>4. /\ r \in Seq(1..n) /\ Len(W) \in Nat /\ Len(Q) \in Nat /\ Len(r) = Len(W) + Len(Q)
        /\ \A i \in 1..Len(W) : r[i] = W[i]
        /\ r[Len(W) + 1] = Q[1]
    BY <2>1, Joined
  <2>5. /\ a \in Seq(1..n) /\ Len(a) = Len(W) + 1 /\ a[Len(W) + 1] = Q[1]
        /\ \A i \in 1..Len(W) : a[i] = W[i]
        /\ \A i \in 1..Len(a) : i \in 1..Len(W) \/ i = Len(W) + 1
    BY <2>1, AppendToSeq
  <2>6. InOrder(r, h)
    OBVIOUS
  <2> HIDE DEF r, a
  <2>7. Len(a) <= Len(r) /\ \A i \in 1..Len(a) : a[i] = r[i]
    <3>1. Len(a) <= Len(r)
      <4> DEFINE l == Len(W)
                 m == Len(Q)
      <4>1. l \in Nat /\ m \in Nat /\ m >= 1 /\ Len(a) = l + 1 /\ Len(r) = l + m
        BY <2>1, <2>4, <2>5
      <4> HIDE DEF l, m
      <4>2. QED
        BY <4>1
    <3>2. ASSUME NEW i \in 1..Len(a) PROVE a[i] = r[i]
      <4>1. CASE i \in 1..Len(W)
        BY <2>4, <2>5, <4>1
      <4>2. CASE i = Len(W) + 1
        BY <2>4, <2>5, <4>2
      <4>3. QED
        BY <2>5, <4>1, <4>2
    <3>3. QED
      BY <3>1, <3>2
  <2>8. InOrder(a, h)
    BY <2>4, <2>5, <2>6, <2>7, InOrderPart
  <2>9. QED
    BY <2>3, <2>8 DEF a
<1>3. QED
  BY <1>1, <1>2

LEMMA WireInOut ==
  ASSUME NEW n \in Nat, NEW W \in Seq(1..n), NEW d \in 0..n, NEW h, InOrder(Out(W, d), h)
  PROVE  InOrder(W, h) /\ Out(W, d) \in Seq(1..n) /\ Out(W, 0) = W
<1>1. CASE d = 0
  BY <1>1 DEF Out
<1>2. CASE d # 0
  <2>1. d \in 1..n /\ Out(W, d) = Append(W, d)
    BY <1>2 DEF Out
  <2>2. /\ Append(W, d) \in Seq(1..n) /\ Len(W) <= Len(Append(W, d))
        /\ \A i \in 1..Len(W) : W[i] = Append(W, d)[i]
    BY <2>1, AppendToSeq
  <2>3. InOrder(W, h)
    BY <2>1, <2>2, InOrderPart
  <2>4. QED
    BY <2>1, <2>2, <2>3 DEF Out
<1>3. QED
  BY <1>1, <1>2

\* More messages may be sent than were.
LEMMA WiderSeq == ASSUME NEW n \in Nat, NEW m \in Nat, n <= m, NEW q \in Seq(1..n) PROVE q \in Seq(1..m)
<1>1. \A i \in 1..Len(q) : q[i] \in 1..m
  <2> SUFFICES ASSUME NEW i \in 1..Len(q) PROVE q[i] \in 1..m
    OBVIOUS
  <2>1. q[i] \in 1..n
    OBVIOUS
  <2>2. QED
    BY <2>1
<1>2. QED
  BY <1>1

-------------------------------------------------------------------------------
(* What holds of the messages sent on a session.                           *)

CapacityBound == IF INIT_SIZE < 2 * MAX_SIZE THEN 2 * MAX_SIZE ELSE INIT_SIZE

\* The messages written and those in the queue, on an open session; and the messages
\* written with the one whose write is outstanding.
Line(s) == wire[s] \o m_send_queue[s]
Outgoing(s) == Out(wire[s], writing[s])

IsWrite(s, i) == sessionLoop[s][i].op = "write"

\* The messages handed to send that have not entered the queue wait in the session's
\* loop, in the order they were sent; none of them was sent on that loop itself.
PostedInOrder(s) ==
  /\ \A i \in 1..Len(sessionLoop[s]) : IsWrite(s, i) =>
       sessionLoop[s][i].msg \notin here[s] /\ ~In(Line(s), sessionLoop[s][i].msg)
  /\ \A i, j \in 1..Len(sessionLoop[s]) :
       IsWrite(s, i) /\ IsWrite(s, j) /\ i < j => sessionLoop[s][i].msg < sessionLoop[s][j].msg
  /\ \A k \in 1..sends[s] :
       In(Line(s), k) \/ \E i \in 1..Len(sessionLoop[s]) : IsWrite(s, i) /\ sessionLoop[s][i].msg = k

\* Only messages sent are written, queued or on their way.
SentOf(s) ==
  /\ here[s] \subseteq 1..sends[s] /\ writing[s] \in 0..sends[s]
  /\ wire[s] \in Seq(1..sends[s]) /\ m_send_queue[s] \in Seq(1..sends[s])
  /\ status[s] = "unborn" => m_send_queue[s] = <<>> /\ wire[s] = <<>> /\ sends[s] = 0

\* The ring buffer has room for its queue; what is written is in order; on an open
\* session so is what will be, and the outstanding write is that of the queue's head.
SendOf(s) ==
  /\ Len(m_send_queue[s]) <= capacity[s] /\ capacity[s] \in 1..CapacityBound
  /\ SentOf(s)
  /\ InOrder(Outgoing(s), here[s])
  /\ is_open[s] =>
       /\ writing[s] = IF m_send_queue[s] = <<>> THEN 0 ELSE Head(m_send_queue[s])
       /\ InOrder(Line(s), here[s])
       /\ PostedInOrder(s)

SendInv == \A s \in Session : SendOf(s)

\* A session's loop keeps its writes when another handler is posted (d = 0) or taken
\* (d = 1).
LoopKeeps(s) ==
  \E d \in {0, 1} :
    /\ \A i \in 1..Len(sessionLoop'[s]) : sessionLoop'[s][i].op = "write" =>
         i + d \in 1..Len(sessionLoop[s]) /\ sessionLoop'[s][i] = sessionLoop[s][i + d]
    /\ \A i \in 1..Len(sessionLoop[s]) : IsWrite(s, i) =>
         i - d \in 1..Len(sessionLoop'[s]) /\ sessionLoop'[s][i - d] = sessionLoop[s][i]

\* Handlers other than writes do not disturb the order of the writes.
LEMMA KeptLoopInOrder ==
  ASSUME NEW s \in Session, PostedInOrder(s), LoopKeeps(s), Line(s)' = Line(s),
         sends'[s] = sends[s], here'[s] = here[s]
  PROVE  PostedInOrder(s)'
<1>1. PICK d \in {0, 1} :
        /\ \A i \in 1..Len(sessionLoop'[s]) : sessionLoop'[s][i].op = "write" =>
             i + d \in 1..Len(sessionLoop[s]) /\ sessionLoop'[s][i] = sessionLoop[s][i + d]
        /\ \A i \in 1..Len(sessionLoop[s]) : IsWrite(s, i) =>
             i - d \in 1..Len(sessionLoop'[s]) /\ sessionLoop'[s][i - d] = sessionLoop[s][i]
  BY DEF LoopKeeps
<1>2. ASSUME NEW i \in 1..Len(sessionLoop'[s]), sessionLoop'[s][i].op = "write"
      PROVE  sessionLoop'[s][i].msg \notin here[s] /\ ~In(Line(s), sessionLoop'[s][i].msg)
  <2>1. i + d \in 1..Len(sessionLoop[s]) /\ sessionLoop'[s][i] = sessionLoop[s][i + d]
    BY <1>1, <1>2
  <2>2. QED
    BY <1>2, <2>1 DEF PostedInOrder, IsWrite
<1>3. ASSUME NEW i \in 1..Len(sessionLoop'[s]), NEW j \in 1..Len(sessionLoop'[s]), i < j,
             sessionLoop'[s][i].op = "write", sessionLoop'[s][j].op = "write"
      PROVE  sessionLoop'[s][i].msg < sessionLoop'[s][j].msg
  <2>1. /\ i + d \in 1..Len(sessionLoop[s]) /\ sessionLoop'[s][i] = sessionLoop[s][i + d]
        /\ j + d \in 1..Len(sessionLoop[s]) /\ sessionLoop'[s][j] = sessionLoop[s][j + d]
    BY <1>1, <1>3
  <2>2. i + d < j + d
    BY <1>3
  <2>3. QED
    BY <1>3, <2>1, <2>2 DEF PostedInOrder, IsWrite
<1>4. ASSUME NEW k \in 1..sends[s], ~In(Line(s), k)
      PROVE  \E i \in 1..Len(sessionLoop'[s]) : sessionLoop'[s][i].op = "write" /\ sessionLoop'[s][i].msg = k
  <2>1. PICK i \in 1..Len(sessionLoop[s]) : IsWrite(s, i) /\ sessionLoop[s][i].msg = k
    BY <1>4 DEF PostedInOrder
  <2>2. i - d \in 1..Len(sessionLoop'[s]) /\ sessionLoop'[s][i - d] = sessionLoop[s][i]
    BY <1>1, <2>1
  <2>3. QED
    BY <2>1, <2>2 DEF IsWrite
<1>5. QED
  BY <1>2, <1>3, <1>4 DEF PostedInOrder, IsWrite

\* A loop left alone keeps its writes.
LEMMA SameLoopKept ==
  ASSUME TypeInv, NEW s \in Session, sessionLoop'[s] = sessionLoop[s]
  PROVE  LoopKeeps(s)
<1>1. Len(sessionLoop[s]) \in Nat
  BY DEF TypeInv, TypeOK
<1>2. \A i \in 1..Len(sessionLoop[s]) : i + 0 = i /\ i - 0 = i
  BY <1>1
<1>3. QED
  BY <1>2 DEF LoopKeeps

\* Taking a handler other than a write, and posting one.
LEMMA TailKept ==
  ASSUME TypeInv, NEW s \in Session, NEW op, SessionTakes(s, op), op # "write"
  PROVE  LoopKeeps(s)
<1>1. /\ Len(sessionLoop[s]) \in Nat \ {0} /\ sessionLoop[s][1].op = op
      /\ Len(sessionLoop'[s]) = Len(sessionLoop[s]) - 1
      /\ \A i \in 1..Len(sessionLoop'[s]) :
           i + 1 \in 2..Len(sessionLoop[s]) /\ sessionLoop'[s][i] = sessionLoop[s][i + 1]
  BY SessionTakesTail
<1>2. ASSUME NEW i \in 1..Len(sessionLoop[s]), IsWrite(s, i)
      PROVE  i - 1 \in 1..Len(sessionLoop'[s]) /\ sessionLoop'[s][i - 1] = sessionLoop[s][i]
  <2>1. i # 1
    BY <1>1, <1>2 DEF IsWrite
  <2>2. i - 1 \in 1..Len(sessionLoop'[s]) /\ (i - 1) + 1 = i
    BY <1>1, <2>1
  <2>3. QED
    BY <1>1, <2>2
<1>3. \A i \in 2..Len(sessionLoop[s]) : i \in 1..Len(sessionLoop[s])
  BY <1>1
<1>4. QED
  BY <1>1, <1>2, <1>3 DEF LoopKeeps

\* A handler other than a write is posted.
LEMMA AppendKept ==
  ASSUME TypeInv, NEW s \in Session, NEW h \in SessionHandler, h.op # "write",
         sessionLoop' = [sessionLoop EXCEPT ![s] = Append(@, h)]
  PROVE  \A t \in Session : LoopKeeps(t)
<1>1. /\ Len(sessionLoop[s]) \in Nat /\ Len(sessionLoop'[s]) = Len(sessionLoop[s]) + 1
      /\ sessionLoop'[s][Len(sessionLoop[s]) + 1] = h
      /\ \A i \in 1..Len(sessionLoop[s]) : sessionLoop'[s][i] = sessionLoop[s][i]
      /\ \A t \in Session \ {s} : sessionLoop'[t] = sessionLoop[t]
  BY SessionLoopAppend
<1>2. \A i \in 1..Len(sessionLoop'[s]) : sessionLoop'[s][i].op = "write" => i \in 1..Len(sessionLoop[s])
  BY <1>1
<1>3. \A i \in 1..Len(sessionLoop'[s]) : i + 0 = i /\ i - 0 = i
  BY <1>1
<1>4. \A i \in 1..Len(sessionLoop[s]) : i \in 1..Len(sessionLoop'[s])
  BY <1>1
<1>5. LoopKeeps(s)
  BY <1>1, <1>2, <1>3, <1>4 DEF LoopKeeps
<1>6. QED
  BY <1>1, <1>5, SameLoopKept

\* The checks posted, and the handlers a session is started with.
LEMMA ChecksKept == ASSUME TypeInv, PostChecks PROVE \A s \in Session : LoopKeeps(s)
<1> SUFFICES ASSUME NEW s \in Session PROVE LoopKeeps(s)
  OBVIOUS
<1>1. /\ Len(sessionLoop[s]) \in Nat /\ Len(sessionLoop'[s]) >= Len(sessionLoop[s])
      /\ sessionLoop'[s] \in Seq(SessionHandler)
      /\ \A i \in 1..Len(sessionLoop[s]) : sessionLoop'[s][i] = sessionLoop[s][i]
      /\ \A i \in 1..Len(sessionLoop'[s]) :
           i \in 1..Len(sessionLoop[s]) \/ sessionLoop'[s][i].op = "check_alive"
  BY PostChecksAppend
<1>2. \A i \in 1..Len(sessionLoop'[s]) : sessionLoop'[s][i].op = "write" => i \in 1..Len(sessionLoop[s])
  BY <1>1
<1>3. Len(sessionLoop'[s]) \in Nat
  BY <1>1
<1>4. \A i \in 1..Len(sessionLoop'[s]) : i + 0 = i /\ i - 0 = i
  BY <1>3
<1>5. \A i \in 1..Len(sessionLoop[s]) : i \in 1..Len(sessionLoop'[s])
  BY <1>1, <1>3
<1>6. QED
  BY <1>1, <1>2, <1>4, <1>5 DEF LoopKeeps

\* The two handlers a session is started with.
LEMMA StartKept ==
  ASSUME TypeInv, NEW s \in Session, Start(s)
  PROVE  \A t \in Session : LoopKeeps(t)
<1>1. CASE s \in SameLoop
  BY <1>1, SameLoopKept DEF Start
<1>2. CASE s \notin SameLoop
  <2>1. /\ Len(sessionLoop[s]) \in Nat /\ Len(sessionLoop'[s]) = Len(sessionLoop[s]) + 2
        /\ sessionLoop'[s][Len(sessionLoop[s]) + 1] = Handler("read_head_len", 0)
        /\ sessionLoop'[s][Len(sessionLoop[s]) + 2] = Handler("session_open", 0)
        /\ \A i \in 1..Len(sessionLoop[s]) : sessionLoop'[s][i] = sessionLoop[s][i]
        /\ \A t \in Session \ {s} : sessionLoop'[t] = sessionLoop[t]
    BY <1>2, SessionLoopStarted
  <2>2. Handler("read_head_len", 0).op # "write" /\ Handler("session_open", 0).op # "write"
    BY DEF Handler
  <2>3. \A i \in 1..Len(sessionLoop'[s]) :
          i \in 1..Len(sessionLoop[s]) \/ i = Len(sessionLoop[s]) + 1 \/ i = Len(sessionLoop[s]) + 2
    BY <2>1
  <2>4. \A i \in 1..Len(sessionLoop'[s]) : sessionLoop'[s][i].op = "write" => i \in 1..Len(sessionLoop[s])
    BY <2>1, <2>2, <2>3
  <2>5. \A i \in 1..Len(sessionLoop'[s]) : i + 0 = i /\ i - 0 = i
    BY <2>1
  <2>6. \A i \in 1..Len(sessionLoop[s]) : i \in 1..Len(sessionLoop'[s])
    BY <2>1
  <2>7. LoopKeeps(s)
    BY <2>1, <2>4, <2>5, <2>6 DEF LoopKeeps
  <2>8. QED
    BY <2>1, <2>7, SameLoopKept
<1>3. QED
  BY <1>1, <1>2

\* A session that is not written to in a step: its socket may close, and with it its
\* outstanding write may fail.
LEMMA SameKeepsSend ==
  ASSUME TypeInv, NEW s \in Session, SendOf(s),
         m_send_queue'[s] = m_send_queue[s], capacity'[s] = capacity[s], wire'[s] = wire[s],
         sends'[s] = sends[s], here'[s] = here[s],
         writing'[s] = writing[s] \/ (writing'[s] = 0 /\ ~is_open'[s]),
         is_open'[s] => is_open[s] /\ LoopKeeps(s), status'[s] = "unborn" => status[s] = "unborn"
  PROVE  SendOf(s)'
<1>1. sends[s] \in Nat /\ SentOf(s)
  BY BoundsAreNat DEF SendOf, TypeInv, TypeOK
<1>2. SentOf(s)'
  BY <1>1 DEF SentOf
<1>3. InOrder(Out(wire[s], writing[s]), here[s])
  BY DEF SendOf, Outgoing
<1>4. InOrder(Out(wire'[s], writing'[s]), here'[s])
  <2>1. InOrder(wire[s], here[s]) /\ Out(wire[s], 0) = wire[s]
    BY <1>1, <1>3, WireInOut DEF SentOf
  <2>2. CASE writing'[s] = writing[s]
    BY <1>3, <2>2
  <2>3. CASE writing'[s] = 0
    BY <2>1, <2>3
  <2>4. QED
    BY <2>2, <2>3
<1>5. ASSUME is_open'[s]
      PROVE  /\ writing'[s] = IF m_send_queue'[s] = <<>> THEN 0 ELSE Head(m_send_queue'[s])
             /\ InOrder(Line(s)', here'[s]) /\ PostedInOrder(s)'
  <2>1. Line(s)' = Line(s)
    BY DEF Line
  <2>2. is_open[s] /\ LoopKeeps(s) /\ InOrder(Line(s), here[s]) /\ PostedInOrder(s)
    BY <1>5 DEF SendOf
  <2>3. PostedInOrder(s)'
    BY <2>1, <2>2, KeptLoopInOrder
  <2>4. writing'[s] = writing[s]
    BY <1>5
  <2>5. writing[s] = IF m_send_queue[s] = <<>> THEN 0 ELSE Head(m_send_queue[s])
    BY <2>2 DEF SendOf
  <2>6. QED
    BY <2>1, <2>2, <2>3, <2>4, <2>5
<1>6. Len(m_send_queue'[s]) <= capacity'[s] /\ capacity'[s] \in 1..CapacityBound
  BY DEF SendOf
<1>7. QED
  BY <1>2, <1>4, <1>5, <1>6 DEF SendOf, Outgoing

\* The steps that write nothing: sockets may close, loops gain and lose other handlers.
LEMMA QuietSend ==
  ASSUME TypeInv, SendInv, UNCHANGED <<writer, sends, here>>,
         \A t \in Session : is_open'[t] => is_open[t] /\ LoopKeeps(t),
         \A t \in Session : status'[t] = "unborn" => status[t] = "unborn"
  PROVE  SendInv'
<1> SUFFICES ASSUME NEW t \in Session PROVE SendOf(t)'
  BY DEF SendInv
<1>1. SendOf(t)
  BY DEF SendInv
<1>2. UNCHANGED <<m_send_queue, capacity, writing, wire, sends, here>>
  BY DEF writer
<1>3. QED
  BY <1>1, <1>2, SameKeepsSend

\* TcpSession::do_close leaves the session's socket closed and the others alone.
LEMMA CloseOnlyCloses ==
  ASSUME TypeInv, NEW s \in Session, NEW loop, NEW told, DoClose(s, loop, told)
  PROVE  ~is_open'[s] /\ \A t \in Session \ {s} : is_open'[t] = is_open[t]
BY DEF DoClose, TypeInv, TypeOK

\* The manager's steps.
LEMMA ManagerSend ==
  ASSUME TypeInv, SendInv, ManagerQueue, ManagerStep
  PROVE  SendInv'
<1>1. PICK s \in Session : RefuseSession(s) \/ AddSession(s) \/ RemoveSession(s)
  BY DEF ManagerStep
<1>2. UNCHANGED <<writer, sends, here>>
  BY <1>1 DEF RefuseSession, AddSession, RemoveSession
<1>3. \A t \in Session : status'[t] = "unborn" => status[t] = "unborn"
  BY <1>1 DEF RefuseSession, AddSession, RemoveSession, TypeInv, TypeOK
<1>4. \A t \in Session : is_open'[t] => is_open[t] /\ LoopKeeps(t)
  <2>1. CASE RefuseSession(s) /\ s \in SameLoop
    <3>1. DoClose(s, Tail(managerLoop), <<>>) /\ UNCHANGED sessionLoop
      BY <2>1 DEF RefuseSession
    <3>2. QED
      BY <3>1, CloseOnlyCloses, SameLoopKept
  <2>2. CASE RefuseSession(s) /\ s \notin SameLoop
    <3>1. /\ sessionLoop' = [sessionLoop EXCEPT ![s] = Append(@, Handler("close", 0))]
          /\ UNCHANGED is_open
      BY <2>2 DEF RefuseSession
    <3>2. Handler("close", 0) \in SessionHandler /\ Handler("close", 0).op # "write"
      BY BoundsAreNat DEF Handler, SessionHandler, HandlerOp
    <3>3. QED
      BY <3>1, <3>2, AppendKept
  <2>3. CASE AddSession(s)
    BY <2>3, StartKept DEF AddSession
  <2>4. CASE RemoveSession(s)
    BY <2>4, SameLoopKept DEF RemoveSession, socket
  <2>5. QED
    BY <1>1, <2>1, <2>2, <2>3, <2>4
<1>5. QED
  BY <1>2, <1>3, <1>4, QuietSend

\* The alive check.
LEMMA CheckSend ==
  ASSUME TypeInv, SendInv, Check
  PROVE  SendInv'
<1>1. UNCHANGED <<writer, sends, here, status>>
  BY DEF Check, CheckSessionAlive, CheckErasesEntry
<1>2. \A t \in Session : is_open'[t] => is_open[t]
  BY DEF Check, CheckSessionAlive, CheckErasesEntry, socket
<1>3. PostChecks \/ UNCHANGED sessionLoop
  BY DEF Check, CheckSessionAlive, CheckErasesEntry
<1>4. \A t \in Session : LoopKeeps(t)
  BY <1>3, ChecksKept, SameLoopKept
<1>5. QED
  BY <1>1, <1>2, <1>4, QuietSend

\* A session's steps that do not write.
LEMMA OtherSend ==
  ASSUME TypeInv, SendInv, NEW s \in Session,
         \/ DoReadHeadLen(s) \/ DoSessionOpen(s) \/ CloseFun(s) \/ DoCheckAlive(s)
         \/ ReadFails(s) \/ ReadPart(s) \/ Shutdown(s) \/ Age(s)
  PROVE  SendInv'
<1>1. UNCHANGED <<writer, sends, here, status>>
  BY DEF DoReadHeadLen, DoSessionOpen, CloseFun, DoCheckAlive, ReadFails, ReadPart, Shutdown, Age
<1>2. \A t \in Session : LoopKeeps(t)
  <2>1. CASE DoReadHeadLen(s) \/ DoSessionOpen(s) \/ CloseFun(s) \/ DoCheckAlive(s)
    <3>1. PICK op \in HandlerOp : SessionTakes(s, op) /\ op # "write"
      BY <2>1 DEF DoReadHeadLen, DoSessionOpen, CloseFun, DoCheckAlive, HandlerOp
    <3>2. \A t \in Session \ {s} : sessionLoop'[t] = sessionLoop[t]
      BY <3>1, SessionTakesTail
    <3>3. QED
      BY <3>1, <3>2, TailKept, SameLoopKept
  <2>2. CASE Shutdown(s)
    <3>1. Handler("close", 0) \in SessionHandler /\ Handler("close", 0).op # "write"
      BY BoundsAreNat DEF Handler, SessionHandler, HandlerOp
    <3>2. QED
      BY <2>2, <3>1, AppendKept DEF Shutdown
  <2>3. CASE ReadFails(s) \/ ReadPart(s) \/ Age(s)
    BY <2>3, SameLoopKept DEF ReadFails, ReadPart, Age
  <2>4. QED
    BY <2>1, <2>2, <2>3
<1>3. \A t \in Session : is_open'[t] => is_open[t]
  <2>1. DoClose(s, managerLoop, <<>>) \/ UNCHANGED is_open
    BY DEF DoReadHeadLen, DoSessionOpen, CloseFun, DoCheckAlive, ReadFails, ReadPart, Shutdown, Age,
           socket
  <2>2. QED
    BY <2>1, CloseOnlyCloses
<1>4. QED
  BY <1>1, <1>2, <1>3, QuietSend

\* on_accept_complete opens a session that nothing was sent on.
LEMMA AcceptSend ==
  ASSUME TypeInv, NoticeInv, SendInv, NEW s \in Session, Accept(s)
  PROVE  SendInv'
<1>1. /\ status[s] = "unborn" /\ status' = [status EXCEPT ![s] = "accepted"]
      /\ is_open' = [is_open EXCEPT ![s] = TRUE]
      /\ UNCHANGED <<sessionLoop, m_send_queue, capacity, writing, wire, sends, here>>
  BY DEF Accept, writer
<1>2. /\ status'[s] = "accepted"
      /\ \A t \in Session \ {s} : status'[t] = status[t] /\ is_open'[t] = is_open[t]
  BY <1>1 DEF TypeInv, TypeOK
<1>3. ASSUME NEW t \in Session \ {s} PROVE SendOf(t)'
  BY <1>1, <1>2, SameLoopKept, SameKeepsSend DEF SendInv
<1>4. SendOf(s)'
  <2>1. SendOf(s) /\ SentOf(s) /\ sessionLoop[s] = <<>> /\ writing[s] = 0
    BY <1>1 DEF SendInv, SendOf, NoticeInv, NoticeOf, FreshOf
  <2>2. m_send_queue[s] = <<>> /\ wire[s] = <<>> /\ sends[s] = 0
    BY <1>1, <2>1 DEF SentOf
  <2>3. Line(s)' = <<>> /\ sends'[s] = 0 /\ Len(sessionLoop'[s]) = 0
    BY <1>1, <2>1, <2>2 DEF Line
  <2>4. PostedInOrder(s)'
    BY <2>3 DEF PostedInOrder
  <2>5. InOrder(Line(s)', here'[s])
    BY <2>3 DEF InOrder
  <2>6. SentOf(s)'
    BY <1>1, <1>2, <2>1 DEF SentOf
  <2>7. InOrder(Outgoing(s)', here'[s])
    BY <1>1, <2>1 DEF SendOf, Outgoing
  <2>8. QED
    BY <1>1, <2>1, <2>2, <2>4, <2>5, <2>6, <2>7 DEF SendOf
<1>5. QED
  BY <1>3, <1>4 DEF SendInv

\* What is sent on a session is of the right kind.
LEMMA SendTypes ==
  ASSUME TypeInv, NEW s \in Session
  PROVE  /\ sends[s] \in Nat /\ sends[s] <= MaxSend /\ sessionLoop[s] \in Seq(SessionHandler)
         /\ Len(sessionLoop[s]) \in Nat
<1>1. sends[s] \in 0..MaxSend /\ MaxSend \in Nat /\ sessionLoop[s] \in Seq(SessionHandler)
  BY BoundsAreNat DEF TypeInv, TypeOK, SessionHandler
<1>2. QED
  BY <1>1

\* The messages written and queued are among those sent.
LEMMA LineSent ==
  ASSUME NEW s \in Session, SentOf(s), sends[s] \in Nat
  PROVE  Line(s) \in Seq(1..sends[s]) /\ \A k : In(Line(s), k) => k \in 1..sends[s]
<1>1. Line(s) \in Seq(1..sends[s])
  BY Joined DEF SentOf, Line
<1>2. QED
  BY <1>1 DEF In

\* More messages sent.
LEMMA SentMore ==
  ASSUME NEW s \in Session, SentOf(s), sends[s] \in Nat, sends'[s] \in Nat, sends[s] <= sends'[s],
         here'[s] \subseteq 1..sends'[s], status'[s] # "unborn",
         writing'[s] \in 0..sends'[s], wire'[s] = wire[s],
         m_send_queue'[s] \in Seq(1..sends'[s])
  PROVE  SentOf(s)'
<1>1. wire'[s] \in Seq(1..sends'[s])
  BY WiderSeq DEF SentOf
<1>2. QED
  BY <1>1 DEF SentOf

\* send, from another thread, posts the next message behind those posted before.
LEMMA SendSend ==
  ASSUME TypeInv, NoticeInv, SendInv, NEW s \in Session, Send(s)
  PROVE  SendInv'
<1> DEFINE h == Handler("write", sends[s] + 1)
<1>1. /\ sends' = [sends EXCEPT ![s] = @ + 1] /\ notified[s] # <<>> /\ sends[s] < MaxSend
      /\ sessionLoop' = [sessionLoop EXCEPT ![s] = Append(@, h)]
      /\ UNCHANGED <<status, is_open, m_send_queue, capacity, writing, wire, here>>
  BY DEF Send, socket, writer
<1>2. sends[s] \in Nat /\ h \in SessionHandler /\ h.op = "write" /\ h.msg = sends[s] + 1
  BY <1>1, BoundsAreNat DEF TypeInv, TypeOK, Handler, SessionHandler, HandlerOp
<1> HIDE DEF h
<1>3. /\ Len(sessionLoop[s]) \in Nat /\ Len(sessionLoop'[s]) = Len(sessionLoop[s]) + 1
      /\ sessionLoop'[s][Len(sessionLoop[s]) + 1] = h
      /\ \A i \in 1..Len(sessionLoop[s]) : sessionLoop'[s][i] = sessionLoop[s][i]
      /\ \A t \in Session \ {s} : sessionLoop'[t] = sessionLoop[t]
  BY <1>1, <1>2, SessionLoopAppend
<1>4. sends'[s] = sends[s] + 1 /\ \A t \in Session \ {s} : sends'[t] = sends[t]
  BY <1>1 DEF TypeInv, TypeOK
<1>5. ASSUME NEW t \in Session \ {s} PROVE SendOf(t)'
  BY <1>1, <1>3, <1>4, SameLoopKept, SameKeepsSend DEF SendInv
<1>6. SendOf(s) /\ status[s] # "unborn" /\ SentOf(s)
  BY <1>1 DEF SendInv, SendOf, NoticeInv, NoticeOf, FreshOf
<1>7. Line(s)' = Line(s) /\ Outgoing(s)' = Outgoing(s) /\ \A k : In(Line(s), k) => k \in 1..sends[s]
  BY <1>1, <1>2, <1>6, LineSent DEF Line, Outgoing
<1>8. ASSUME is_open[s] PROVE PostedInOrder(s)'
  <2> DEFINE n == Len(sessionLoop[s])
             k == sends[s]
             q == sessionLoop[s]
             r == sessionLoop'[s]
             H == here[s]
             L == Line(s)
  <2>1. /\ k \in Nat /\ n \in Nat
        /\ \A i \in 1..n : q[i].op = "write" => q[i].msg \notin H /\ ~In(L, q[i].msg) /\ q[i].msg \in 1..k
        /\ \A i, j \in 1..n : q[i].op = "write" /\ q[j].op = "write" /\ i < j => q[i].msg < q[j].msg
        /\ \A m \in 1..k : In(L, m) \/ \E i \in 1..n : q[i].op = "write" /\ q[i].msg = m
    BY <1>2, <1>3, <1>6, <1>8 DEF SendOf, PostedInOrder, IsWrite, TypeInv, PostedIsSent
  <2>2. /\ Len(r) = n + 1 /\ r[n + 1].op = "write" /\ r[n + 1].msg = k + 1
        /\ \A i \in 1..n : i \in 1..(n + 1) /\ r[i] = q[i]
        /\ \A i \in 1..(n + 1) : i \in 1..n \/ i = n + 1
    BY <1>2, <1>3
  <2>3. k + 1 \notin H /\ ~In(L, k + 1)
    BY <1>2, <1>6, <1>7 DEF SentOf
  <2> HIDE DEF n, k, q, r, H, L
  <2>4. ASSUME NEW i \in 1..(n + 1), r[i].op = "write" PROVE r[i].msg \notin H /\ ~In(L, r[i].msg)
    <3>1. CASE i = n + 1
      BY <2>2, <2>3, <3>1
    <3>2. CASE i \in 1..n
      BY <2>1, <2>2, <2>4, <3>2
    <3>3. QED
      BY <2>2, <3>1, <3>2
  <2>5. ASSUME NEW i \in 1..(n + 1), NEW j \in 1..(n + 1), i < j, r[i].op = "write", r[j].op = "write"
        PROVE  r[i].msg < r[j].msg
    <3>1. i \in 1..n
      BY <2>1, <2>5
    <3>2. CASE j \in 1..n
      BY <2>1, <2>2, <2>5, <3>1, <3>2
    <3>3. CASE j = n + 1
      <4>1. r[i].msg \in 1..k
        BY <2>1, <2>2, <2>5, <3>1
      <4>2. QED
        BY <2>1, <2>2, <3>3, <4>1
    <3>4. QED
      BY <2>2, <3>2, <3>3
  <2>6. ASSUME NEW m \in 1..(k + 1)
        PROVE  In(L, m) \/ \E i \in 1..(n + 1) : r[i].op = "write" /\ r[i].msg = m
    <3>1. CASE m = k + 1
      BY <2>1, <2>2, <3>1
    <3>2. CASE m \in 1..k
      BY <2>1, <2>2, <3>2
    <3>3. QED
      BY <2>1, <3>1, <3>2
  <2>7. here'[s] = H /\ Line(s)' = L /\ sends'[s] = k + 1 /\ sessionLoop'[s] = r /\ Len(r) = n + 1
    BY <1>1, <1>4, <1>7, <2>2 DEF H, L, k, r
  <2>8. QED
    BY <2>4, <2>5, <2>6, <2>7 DEF PostedInOrder, IsWrite
<1>9. SentOf(s)'
  <2>1. sends[s] <= sends'[s] /\ sends'[s] \in Nat
    BY <1>2, <1>4
  <2>2. here'[s] \subseteq 1..sends'[s] /\ writing'[s] \in 0..sends'[s]
    BY <1>1, <1>2, <1>4, <1>6 DEF SentOf
  <2>3. m_send_queue'[s] \in Seq(1..sends'[s])
    BY <1>1, <1>2, <1>6, <2>1, WiderSeq DEF SentOf
  <2>4. QED
    BY <1>1, <1>2, <1>6, <2>1, <2>2, <2>3, SentMore
<1>10. SendOf(s)'
  <2>1. is_open[s] => /\ writing[s] = IF m_send_queue[s] = <<>> THEN 0 ELSE Head(m_send_queue[s])
                      /\ InOrder(Line(s), here[s])
    BY <1>6 DEF SendOf
  <2>2. InOrder(Outgoing(s), here[s]) /\ Len(m_send_queue[s]) <= capacity[s] /\ capacity[s] \in 1..CapacityBound
    BY <1>6 DEF SendOf
  <2>3. QED
    BY <1>1, <1>7, <1>8, <1>9, <2>1, <2>2 DEF SendOf
<1>11. QED
  BY <1>5, <1>10 DEF SendInv

\* What a write handler finds: the queue has room after at most one doubling, within
\* the bound (MessageQueue::push).
LEMMA PushFits ==
  ASSUME NEW n \in Nat, NEW c \in 1..CapacityBound, n <= c, ~(n = c /\ MAX_SIZE < n)
  PROVE  LET d == IF n = c THEN 2 * c ELSE c IN n + 1 <= d /\ d \in 1..CapacityBound
<1>1. INIT_SIZE \in Nat /\ MAX_SIZE \in Nat
  BY SizesPositive
<1>2. CapacityBound \in Nat /\ 2 * MAX_SIZE <= CapacityBound /\ INIT_SIZE <= CapacityBound
  BY <1>1 DEF CapacityBound
<1>3. CASE n = c
  <2>1. c <= MAX_SIZE /\ c \in Nat /\ c >= 1
    BY <1>1, <1>2, <1>3
  <2>2. n + 1 <= 2 * c /\ 2 * c <= 2 * MAX_SIZE
    BY <1>1, <1>3, <2>1
  <2>3. 2 * c \in 1..CapacityBound
    BY <1>1, <1>2, <2>1, <2>2
  <2>4. QED
    BY <1>3, <2>2, <2>3
<1>4. CASE n # c
  BY <1>2, <1>4
<1>5. QED
  BY <1>3, <1>4

\* The message that do_write is given comes next in the line: behind all it may not
\* overtake, and before those that stay in the loop.
ComesNext(s, msg) ==
  /\ ~In(Line(s), msg)
  /\ \A k \in 1..(msg - 1) : In(Line(s), k) \/ (msg \in here'[s] /\ k \notin here'[s])
  /\ \A i \in 1..Len(sessionLoop'[s]) : sessionLoop'[s][i].op = "write" =>
       /\ sessionLoop'[s][i].msg \notin here'[s] /\ sessionLoop'[s][i].msg # msg
       /\ ~In(Line(s), sessionLoop'[s][i].msg)
  /\ \A i, j \in 1..Len(sessionLoop'[s]) :
       sessionLoop'[s][i].op = "write" /\ sessionLoop'[s][j].op = "write" /\ i < j =>
         sessionLoop'[s][i].msg < sessionLoop'[s][j].msg
  /\ \A k \in 1..sends'[s] :
       \/ In(Line(s), k) \/ k = msg
       \/ \E i \in 1..Len(sessionLoop'[s]) : sessionLoop'[s][i].op = "write" /\ sessionLoop'[s][i].msg = k

\* A message that comes next, once in the line, leaves the loop in order.
LEMMA LineTakes ==
  ASSUME NEW s \in Session, NEW n, NEW msg \in 1..n, Line(s) \in Seq(1..n), ComesNext(s, msg),
         Line(s)' = Append(Line(s), msg)
  PROVE  PostedInOrder(s)'
<1>1. \A k : In(Line(s)', k) <=> In(Line(s), k) \/ k = msg
  <2> DEFINE l == Len(Line(s))
             q == Line(s)
             r == Append(q, msg)
  <2>1. /\ Len(r) = l + 1 /\ l \in Nat /\ r[l + 1] = msg
        /\ \A i \in 1..l : i \in 1..(l + 1) /\ r[i] = q[i]
        /\ \A i \in 1..(l + 1) : i \in 1..l \/ i = l + 1
    BY AppendToSeq
  <2>2. l = Len(q)
    OBVIOUS
  <2>3. Line(s)' = r
    OBVIOUS
  <2> HIDE DEF l, r, q
  <2>4. l + 1 \in 1..(l + 1)
    BY <2>1
  <2>5. \A k : In(r, k) <=> In(q, k) \/ k = msg
    BY <2>1, <2>2, <2>4 DEF In
  <2>6. QED
    BY <2>3, <2>5 DEF q
<1>2. QED
  BY <1>1 DEF PostedInOrder, IsWrite, ComesNext

\* do_write for one session: the message enters the queue, or the session closes.
LEMMA WriteSend ==
  ASSUME TypeInv, SendInv, NEW s \in Session, NEW told, NEW msg, Write(s, msg, told),
         status'[s] = status[s], status[s] # "unborn", sends'[s] \in Nat,
         sends[s] <= sends'[s], sends'[s] <= MaxSend, msg \in 1..sends'[s],
         here'[s] \subseteq 1..sends'[s], \A k \in 1..sends[s] : k \in here'[s] <=> k \in here[s],
         is_open[s] => ComesNext(s, msg)
  PROVE  SendOf(s)'
<1> DEFINE n == sends[s]
           N == sends'[s]
           q == m_send_queue[s]
           W == wire[s]
           d == writing[s]
<1>1. /\ n \in Nat /\ N \in Nat /\ n <= N /\ MaxSend \in Nat /\ N <= MaxSend
      /\ SendOf(s) /\ SentOf(s)
  BY BoundsAreNat, SendTypes DEF SendInv, SendOf
<1>2. /\ q \in Seq(1..n) /\ W \in Seq(1..n) /\ d \in 0..n /\ InOrder(Out(W, d), here[s])
      /\ Line(s) \in Seq(1..n)
  BY <1>1, LineSent DEF SentOf, SendOf, Outgoing
<1>3. InOrder(Out(W, d), here'[s])
  <2> DEFINE H == here[s]
             G == here'[s]
             o == Out(W, d)
  <2>1. o \in Seq(1..n)
    BY <1>1, <1>2, WireInOut
  <2>2. n \in Nat /\ InOrder(o, H) /\ \A k \in 1..n : k \in H <=> k \in G
    BY <1>1, <1>2
  <2> HIDE DEF H, G, o, n
  <2>3. InOrder(o, G)
    BY <2>1, <2>2, InOrderSame
  <2>4. QED
    BY <2>3 DEF G, o
<1>4. CASE PushFails(s)
  <2>1. DoClose(s, managerLoop, told) /\ UNCHANGED writer
    BY <1>4 DEF Write
  <2>2. ~is_open'[s] /\ UNCHANGED <<m_send_queue, capacity, writing, wire>>
    BY <2>1, CloseOnlyCloses DEF writer
  <2>3. q \in Seq(1..N) /\ d \in 0..N
    BY <1>1, <1>2, WiderSeq
  <2>4. SentOf(s)'
    BY <1>1, <2>2, <2>3, SentMore
  <2>5. InOrder(Outgoing(s)', here'[s])
    BY <1>3, <2>2 DEF Outgoing
  <2>6. QED
    BY <1>1, <2>2, <2>4, <2>5 DEF SendOf
<1>5. CASE ~PushFails(s)
  <2>1. /\ m_send_queue'[s] = Append(q, msg)
        /\ capacity'[s] = IF Len(q) = capacity[s] THEN 2 * capacity[s] ELSE capacity[s]
        /\ writing'[s] = IF q = <<>> /\ is_open[s] THEN msg ELSE d
        /\ wire'[s] = W /\ is_open'[s] = is_open[s]
    BY <1>5 DEF Write, StartWrite, Full, TypeInv, TypeOK
  <2>2. q \in Seq(1..N) /\ W \in Seq(1..N) /\ Line(s) \in Seq(1..N)
    BY <1>1, <1>2, WiderSeq
  <2>3. /\ Append(q, msg) \in Seq(1..N) /\ Append(q, msg) # <<>>
        /\ Len(q) \in Nat /\ Len(Append(q, msg)) = Len(q) + 1
    <3>1. msg \in 1..N
      OBVIOUS
    <3> HIDE DEF q, N
    <3>2. QED
      BY <2>2, <3>1, AppendToSeq
  <2>4. Len(m_send_queue'[s]) <= capacity'[s] /\ capacity'[s] \in 1..CapacityBound
    <3> DEFINE l == Len(q)
               c == capacity[s]
    <3>1. l \in Nat /\ l <= c /\ c \in 1..CapacityBound /\ ~(l = c /\ MAX_SIZE < l)
      BY <1>1, <1>5, <2>3 DEF SendOf, PushFails, Full
    <3>2. Len(m_send_queue'[s]) = l + 1 /\ capacity'[s] = IF l = c THEN 2 * c ELSE c
      BY <2>1, <2>3
    <3> HIDE DEF l, c
    <3>3. QED
      BY <3>1, <3>2, PushFits
  <2>5. SentOf(s)'
    <3>1. writing'[s] \in 0..N
      BY <1>1, <1>2, <2>1
    <3>2. QED
      BY <1>1, <2>1, <2>3, <3>1, SentMore
  <2>6. CASE ~is_open[s]
    <3>1. Outgoing(s)' = Out(W, d)
      BY <2>1, <2>6 DEF Outgoing
    <3>2. QED
      BY <1>3, <2>1, <2>4, <2>5, <2>6, <3>1 DEF SendOf
  <2>7. CASE is_open[s]
    <3>1. /\ ComesNext(s, msg) /\ InOrder(Line(s), here[s])
          /\ d = IF q = <<>> THEN 0 ELSE Head(q)
      BY <1>1, <2>7 DEF SendOf
    <3>2. Line(s)' = Append(Line(s), msg) /\ Line(s) = W \o q /\ Line(s)' = W \o Append(q, msg)
      <4>1. Line(s) = W \o q /\ Line(s)' = W \o Append(q, msg) /\ msg \in 1..N
        BY <2>1 DEF Line
      <4> HIDE DEF q, N, W
      <4>2. W \o Append(q, msg) = Append(W \o q, msg)
        BY <2>2, <4>1, LineAppend
      <4>3. QED
        BY <4>1, <4>2
    <3>3. InOrder(Line(s), here'[s])
      <4> DEFINE H == here[s]
                 G == here'[s]
                 o == Line(s)
      <4>1. n \in Nat /\ o \in Seq(1..n) /\ InOrder(o, H) /\ \A k \in 1..n : k \in H <=> k \in G
        BY <1>1, <1>2, <3>1
      <4> HIDE DEF H, G, o, n
      <4>2. InOrder(o, G)
        BY <4>1, InOrderSame
      <4>3. QED
        BY <4>2 DEF G, o
    <3>4. InOrder(Append(Line(s), msg), here'[s])
      <4> DEFINE G == here'[s]
                 o == Line(s)
      <4>1. /\ N \in Nat /\ o \in Seq(1..N) /\ msg \in 1..N /\ InOrder(o, G) /\ ~In(o, msg)
            /\ \A k \in 1..(msg - 1) : In(o, k) \/ (msg \in G /\ k \notin G)
        BY <1>1, <2>2, <3>1, <3>3 DEF ComesNext
      <4> HIDE DEF G, o, N
      <4>2. InOrder(Append(o, msg), G)
        BY <4>1, InOrderMore
      <4>3. QED
        BY <4>2 DEF G, o
    <3>5. PostedInOrder(s)'
      BY <2>2, <3>1, <3>2, LineTakes
    <3>6. writing'[s] = Head(Append(q, msg))
      <4>1. CASE q = <<>>
        <5>1. Append(q, msg) = <<msg>> /\ writing'[s] = msg
          BY <2>1, <2>7, <4>1
        <5>2. QED
          BY <5>1
      <4>2. CASE q # <<>>
        <5>1. Head(q) = q[1] /\ Append(q, msg)[1] = q[1] /\ Head(Append(q, msg)) = Append(q, msg)[1]
          BY <2>2, <2>3, <4>2, HeadInSeq, AppendToSeq
        <5>2. QED
          BY <2>1, <3>1, <4>2, <5>1
      <4>3. QED
        BY <4>1, <4>2
    <3>7. InOrder(Outgoing(s)', here'[s])
      <4> DEFINE Q == Append(q, msg)
      <4>1. Q \in Seq(1..N) /\ Q # <<>> /\ InOrder(W \o Q, here'[s])
        BY <2>3, <3>2, <3>4
      <4>2. Outgoing(s)' = Out(W, Head(Q))
        BY <2>1, <3>6 DEF Outgoing
      <4> HIDE DEF Q, N, W
      <4>3. InOrder(Out(W, IF Q = <<>> THEN 0 ELSE Head(Q)), here'[s])
        BY <1>1, <2>2, <4>1, OutInOrder
      <4>4. (IF Q = <<>> THEN 0 ELSE Head(Q)) = Head(Q)
        BY <4>1
      <4>5. QED
        BY <4>2, <4>3, <4>4
    <3>8. InOrder(Line(s)', here'[s])
      BY <3>2, <3>4
    <3>9. writing'[s] = IF m_send_queue'[s] = <<>> THEN 0 ELSE Head(m_send_queue'[s])
      BY <2>1, <2>3, <3>6
    <3>10. QED
      BY <2>4, <2>5, <3>5, <3>7, <3>8, <3>9 DEF SendOf
  <2>8. QED
    BY <2>6, <2>7
<1>6. QED
  BY <1>4, <1>5

\* do_write leaves the other sessions alone.
LEMMA WriteElsewhere ==
  ASSUME TypeInv, NEW s \in Session, NEW told, NEW msg, Write(s, msg, told), NEW t \in Session \ {s}
  PROVE  /\ m_send_queue'[t] = m_send_queue[t] /\ capacity'[t] = capacity[t]
         /\ writing'[t] = writing[t] /\ wire'[t] = wire[t] /\ is_open'[t] = is_open[t]
<1>1. CASE PushFails(s)
  BY <1>1, CloseOnlyCloses DEF Write, writer
<1>2. CASE ~PushFails(s)
  BY <1>2 DEF Write, StartWrite, TypeInv, TypeOK
<1>3. QED
  BY <1>1, <1>2

\* The message at the head of the loop is one that was sent.
LEMMA HeadIsSent ==
  ASSUME TypeInv, NEW s \in Session, SessionTakes(s, "write")
  PROVE  /\ Head(sessionLoop[s]) = sessionLoop[s][1] /\ Head(sessionLoop[s]).msg \in 1..sends[s]
<1>1. sessionLoop[s] \in Seq(SessionHandler) /\ sessionLoop[s] # <<>> /\ Head(sessionLoop[s]).op = "write"
  BY SendTypes DEF SessionTakes
<1>2. Head(sessionLoop[s]) = sessionLoop[s][1] /\ 1 \in 1..Len(sessionLoop[s])
  BY <1>1, HeadInSeq
<1>3. QED
  BY <1>1, <1>2 DEF TypeInv, PostedIsSent

\* do_write: of the messages posted, the one at the head of the loop comes next.
LEMMA HeadComesNext ==
  ASSUME TypeInv, NEW s \in Session, SessionTakes(s, "write"), PostedInOrder(s),
         sends'[s] = sends[s], here'[s] = here[s]
  PROVE  ComesNext(s, Head(sessionLoop[s]).msg)
<1> DEFINE n == Len(sessionLoop[s])
           k == sends[s]
           q == sessionLoop[s]
           r == sessionLoop'[s]
           H == here[s]
           L == Line(s)
           m == q[1].msg
<1>1. /\ n \in Nat \ {0} /\ q[1].op = "write" /\ Len(r) = n - 1
      /\ \A i \in 1..Len(r) : i + 1 \in 2..n /\ r[i] = q[i + 1]
  BY SessionTakesTail
<1>2. Head(q).msg = m /\ m \in 1..k /\ k \in Nat
  BY HeadIsSent, SendTypes
<1>3. /\ \A i \in 1..n : q[i].op = "write" =>
           q[i].msg \notin H /\ ~In(L, q[i].msg) /\ q[i].msg \in 1..k
      /\ \A i, j \in 1..n : q[i].op = "write" /\ q[j].op = "write" /\ i < j => q[i].msg < q[j].msg
      /\ \A l \in 1..k : In(L, l) \/ \E i \in 1..n : q[i].op = "write" /\ q[i].msg = l
  BY DEF PostedInOrder, IsWrite, TypeInv, PostedIsSent
<1>4. m = q[1].msg
  OBVIOUS
<1> HIDE DEF n, k, q, r, H, L, m
<1>5. 1 \in 1..n /\ ~In(L, m)
  BY <1>1, <1>3, <1>4
<1>6. ASSUME NEW l \in 1..(m - 1) PROVE In(L, l)
  <2>1. l \in 1..k /\ l < m /\ l # m
    BY <1>2
  <2>2. SUFFICES ASSUME NEW i \in 1..n, q[i].op = "write", q[i].msg = l PROVE FALSE
    BY <1>3, <2>1
  <2>3. i = 1 \/ 1 < i
    BY <1>1
  <2>4. i # 1
    BY <1>4, <2>1, <2>2
  <2>5. q[1].msg < q[i].msg
    BY <1>1, <1>3, <1>5, <2>2, <2>3, <2>4
  <2>6. m < l
    BY <1>4, <2>2, <2>5
  <2>7. QED
    BY <1>2, <2>1, <2>6
<1>7. ASSUME NEW i \in 1..Len(r), r[i].op = "write"
      PROVE  r[i].msg \notin H /\ r[i].msg # m /\ ~In(L, r[i].msg)
  <2>1. i + 1 \in 1..n /\ 1 < i + 1 /\ r[i] = q[i + 1]
    BY <1>1
  <2>2. q[i + 1].msg \notin H /\ ~In(L, q[i + 1].msg) /\ q[i + 1].msg \in 1..k
    BY <1>3, <1>7, <2>1
  <2>3. q[1].msg < q[i + 1].msg
    BY <1>1, <1>3, <1>5, <1>7, <2>1
  <2>4. q[i + 1].msg # m
    BY <1>2, <1>4, <2>2, <2>3
  <2>5. QED
    BY <2>1, <2>2, <2>4
<1>8. ASSUME NEW i \in 1..Len(r), NEW j \in 1..Len(r), i < j, r[i].op = "write", r[j].op = "write"
      PROVE  r[i].msg < r[j].msg
  <2>1. i + 1 \in 1..n /\ j + 1 \in 1..n /\ i + 1 < j + 1 /\ r[i] = q[i + 1] /\ r[j] = q[j + 1]
    BY <1>1, <1>8
  <2>2. QED
    BY <1>3, <1>8, <2>1
<1>9. ASSUME NEW l \in 1..k, ~In(L, l), l # m PROVE \E i \in 1..Len(r) : r[i].op = "write" /\ r[i].msg = l
  <2>1. PICK i \in 1..n : q[i].op = "write" /\ q[i].msg = l
    BY <1>3, <1>9
  <2>2. i # 1
    BY <1>4, <1>9, <2>1
  <2>3. i - 1 \in 1..Len(r) /\ (i - 1) + 1 = i
    BY <1>1, <2>2
  <2>4. QED
    BY <1>1, <2>1, <2>3
<1>10. ComesNext(s, m)
  <2>1. here'[s] = H /\ sends'[s] = k /\ Line(s) = L /\ sessionLoop'[s] = r
    BY DEF H, k, L, r
  <2>2. QED
    BY <1>5, <1>6, <1>7, <1>8, <1>9, <2>1 DEF ComesNext
<1>11. QED
  BY <1>2, <1>10 DEF q

\* do_write: the next message posted enters the queue, or the session closes.
LEMMA DoWriteSend ==
  ASSUME TypeInv, SendInv, NEW s \in Session, DoWrite(s)
  PROVE  SendInv'
<1> DEFINE msg == Head(sessionLoop[s]).msg
<1>1. /\ SessionTakes(s, "write") /\ Write(s, msg, <<>>)
      /\ status' = status /\ sends' = sends /\ here' = here
  BY DEF DoWrite
<1>2. \A t \in Session \ {s} : sessionLoop'[t] = sessionLoop[t]
  BY <1>1, SessionTakesTail
<1>3. SendOf(s) /\ SentOf(s) /\ msg \in 1..sends[s] /\ sends[s] \in Nat /\ sends[s] <= MaxSend
  BY <1>1, HeadIsSent, SendTypes DEF SendInv, SendOf
<1>4. status[s] # "unborn"
  BY <1>3 DEF SentOf
<1>5. is_open[s] => ComesNext(s, msg)
  BY <1>1, <1>3, HeadComesNext DEF SendOf
<1> HIDE DEF msg
<1>6. SendOf(s)'
  <2>1. here'[s] \subseteq 1..sends'[s] /\ msg \in 1..sends'[s] /\ sends'[s] = sends[s] /\ here'[s] = here[s]
    BY <1>1, <1>3 DEF SentOf
  <2>2. sends'[s] \in Nat /\ sends[s] <= sends'[s] /\ sends'[s] <= MaxSend
    BY <1>3, <2>1
  <2>3. QED
    BY <1>1, <1>4, <1>5, <2>1, <2>2, WriteSend
<1>7. ASSUME NEW t \in Session \ {s} PROVE SendOf(t)'
  <2>1. /\ m_send_queue'[t] = m_send_queue[t] /\ capacity'[t] = capacity[t]
        /\ writing'[t] = writing[t] /\ wire'[t] = wire[t] /\ is_open'[t] = is_open[t]
    BY <1>1, WriteElsewhere
  <2>2. SendOf(t) /\ LoopKeeps(t)
    BY <1>2, SameLoopKept DEF SendInv
  <2>3. QED
    BY <1>1, <2>1, <2>2, SameKeepsSend
<1>8. QED
  BY <1>6, <1>7 DEF SendInv

\* A message sent on the session's own loop comes next: it may overtake what is posted.
LEMMA SentHereNext ==
  ASSUME TypeInv, NEW s \in Session, SentOf(s), PostedInOrder(s), sends'[s] = sends[s] + 1,
         here'[s] = here[s] \cup {sends'[s]}, sessionLoop'[s] = sessionLoop[s]
  PROVE  ComesNext(s, sends'[s])
<1> DEFINE k == sends[s]
           m == sends'[s]
           n == Len(sessionLoop[s])
           q == sessionLoop[s]
           H == here[s]
           G == here'[s]
           L == Line(s)
<1>1. k \in Nat /\ n \in Nat /\ m = k + 1 /\ G = H \cup {m} /\ H \subseteq 1..k
  BY SendTypes DEF SentOf
<1>2. \A i : In(L, i) => i \in 1..k
  BY <1>1, LineSent
<1>3. /\ \A i \in 1..n : q[i].op = "write" =>
           q[i].msg \notin H /\ ~In(L, q[i].msg) /\ q[i].msg \in 1..k
      /\ \A i, j \in 1..n : q[i].op = "write" /\ q[j].op = "write" /\ i < j => q[i].msg < q[j].msg
      /\ \A l \in 1..k : In(L, l) \/ \E i \in 1..n : q[i].op = "write" /\ q[i].msg = l
  BY DEF PostedInOrder, IsWrite, TypeInv, PostedIsSent
<1>4. sends'[s] = m /\ sessionLoop'[s] = q /\ here'[s] = G /\ Line(s) = L /\ Len(q) = n
  OBVIOUS
<1> HIDE DEF n, k, q, m, H, G, L
<1>5. m \notin 1..k /\ ~In(L, m) /\ m \in G
  BY <1>1, <1>2
<1>6. ASSUME NEW l \in 1..(m - 1) PROVE In(L, l) \/ (m \in G /\ l \notin G)
  <2>1. l \in 1..k /\ l # m
    BY <1>1
  <2>2. CASE In(L, l)
    BY <2>2
  <2>3. CASE ~In(L, l)
    <3>1. PICK i \in 1..n : q[i].op = "write" /\ q[i].msg = l
      BY <1>3, <2>1, <2>3
    <3>2. l \notin H
      BY <1>3, <3>1
    <3>3. QED
      BY <1>1, <1>5, <2>1, <3>2
  <2>4. QED
    BY <2>2, <2>3
<1>7. ASSUME NEW i \in 1..n, q[i].op = "write"
      PROVE  q[i].msg \notin G /\ q[i].msg # m /\ ~In(L, q[i].msg)
  <2>1. q[i].msg \notin H /\ ~In(L, q[i].msg) /\ q[i].msg \in 1..k
    BY <1>3, <1>7
  <2>2. q[i].msg # m
    BY <1>5, <2>1
  <2>3. QED
    BY <1>1, <2>1, <2>2
<1>8. ASSUME NEW l \in 1..m
      PROVE  In(L, l) \/ l = m \/ \E i \in 1..n : q[i].op = "write" /\ q[i].msg = l
  <2>1. l \in 1..k \/ l = m
    BY <1>1
  <2>2. QED
    BY <1>3, <2>1
<1>9. QED
  BY <1>3, <1>4, <1>5, <1>6, <1>7, <1>8 DEF ComesNext

\* What the upper layer does on the session's own loop.
LEMMA ActsHereSend ==
  ASSUME TypeInv, SendInv, NEW s \in Session, NEW told, ActsHere(s, told), status[s] # "unborn",
         UNCHANGED <<status, sessionLoop>>
  PROVE  SendInv'
<1>1. CASE DoClose(s, managerLoop, told) /\ UNCHANGED <<writer, sends, here>>
  <2>1. \A t \in Session : is_open'[t] => is_open[t] /\ LoopKeeps(t)
    BY <1>1, CloseOnlyCloses, SameLoopKept
  <2>2. QED
    BY <1>1, <2>1, QuietSend
<1>2. CASE /\ sends[s] < MaxSend
           /\ sends' = [sends EXCEPT ![s] = @ + 1]
           /\ here' = [here EXCEPT ![s] = @ \cup {sends'[s]}]
           /\ Write(s, sends'[s], told)
  <2>1. /\ sends'[s] = sends[s] + 1 /\ here'[s] = here[s] \cup {sends'[s]}
        /\ \A t \in Session \ {s} : sends'[t] = sends[t] /\ here'[t] = here[t]
    BY <1>2 DEF TypeInv, TypeOK
  <2>2. /\ sends[s] \in Nat /\ MaxSend \in Nat /\ SendOf(s) /\ SentOf(s) /\ here[s] \subseteq 1..sends[s]
    BY BoundsAreNat, SendTypes DEF SendInv, SendOf, SentOf
  <2>3. /\ sends'[s] \in Nat /\ sends[s] <= sends'[s] /\ sends'[s] <= MaxSend
        /\ sends'[s] \in 1..sends'[s] /\ here'[s] \subseteq 1..sends'[s]
        /\ \A k \in 1..sends[s] : k \in here'[s] <=> k \in here[s]
    BY <1>2, <2>1, <2>2
  <2>4. is_open[s] => ComesNext(s, sends'[s])
    BY <2>1, <2>2, SentHereNext DEF SendOf
  <2>5. SendOf(s)'
    BY <1>2, <2>3, <2>4, WriteSend
  <2>6. ASSUME NEW t \in Session \ {s} PROVE SendOf(t)'
    <3>1. /\ m_send_queue'[t] = m_send_queue[t] /\ capacity'[t] = capacity[t]
          /\ writing'[t] = writing[t] /\ wire'[t] = wire[t] /\ is_open'[t] = is_open[t]
      BY <1>2, WriteElsewhere
    <3>2. SendOf(t) /\ LoopKeeps(t)
      BY SameLoopKept DEF SendInv
    <3>3. QED
      BY <2>1, <3>1, <3>2, SameKeepsSend
  <2>7. QED
    BY <2>5, <2>6 DEF SendInv
<1>3. QED
  BY <1>1, <1>2 DEF ActsHere

\* A handler of another session, or the expiry of a request, on that loop; and a
\* request read.
LEMMA ReceivedSend ==
  ASSUME TypeInv, NoticeInv, SendInv, NEW s \in Session, ActHere(s) \/ OnReadComplete(s)
  PROVE  SendInv'
<1>1. status[s] # "unborn"
  <2>1. notified[s] # <<>> \/ reading[s] # "none"
    BY DEF ActHere, OnReadComplete
  <2>2. NoticeOf(s)
    BY DEF NoticeInv
  <2>3. QED
    BY <2>1, <2>2, ActiveIsTaken
<1>2. UNCHANGED <<status, sessionLoop>>
  BY DEF ActHere, OnReadComplete
<1>3. CASE ActHere(s)
  <2>1. ActsHere(s, <<>>)
    BY <1>3 DEF ActHere
  <2>2. QED
    BY <1>1, <1>2, <2>1, ActsHereSend
<1>4. CASE OnReadComplete(s)
  <2>1. \/ \E told : ActsHere(s, told)
        \/ UNCHANGED <<is_open, writer, sends, here>>
    BY <1>4 DEF OnReadComplete
  <2>2. CASE \E told : ActsHere(s, told)
    BY <1>1, <1>2, <2>2, ActsHereSend
  <2>3. CASE UNCHANGED <<is_open, writer, sends, here>>
    <3>1. \A t \in Session : is_open'[t] => is_open[t] /\ LoopKeeps(t)
      BY <1>2, <2>3, SameLoopKept
    <3>2. QED
      BY <1>2, <2>3, <3>1, QuietSend
  <2>4. QED
    BY <2>1, <2>2, <2>3
<1>5. QED
  BY <1>3, <1>4

\* Completions of writes: the message written goes from the head of the queue to the wire.
LEMMA WrittenSend ==
  ASSUME TypeInv, SendInv, NEW s \in Session, OnWriteComplete(s) \/ WriteFails(s)
  PROVE  SendInv'
<1>1. CASE WriteFails(s)
  <2>1. /\ DoClose(s, managerLoop, <<>>) /\ writing' = [writing EXCEPT ![s] = 0]
        /\ UNCHANGED <<status, sessionLoop, m_send_queue, capacity, wire, sends, here>>
    BY <1>1 DEF WriteFails
  <2>2. /\ writing'[s] = 0 /\ ~is_open'[s]
        /\ \A t \in Session \ {s} : writing'[t] = writing[t] /\ is_open'[t] = is_open[t]
    BY <2>1, CloseOnlyCloses DEF TypeInv, TypeOK
  <2>3. \A t \in Session : SendOf(t)'
    BY <2>1, <2>2, SameLoopKept, SameKeepsSend DEF SendInv
  <2>4. QED
    BY <2>3 DEF SendInv
<1>2. CASE OnWriteComplete(s)
  <2> DEFINE q == m_send_queue[s]
             n == sends[s]
             W == wire[s]
             d == writing[s]
             H == here[s]
             open == is_open[s]
  <2>1. /\ d # 0 /\ wire' = [wire EXCEPT ![s] = Append(@, d)]
        /\ m_send_queue' = [m_send_queue EXCEPT ![s] = Tail(@)]
        /\ writing' = [writing EXCEPT ![s] = IF Tail(q) # <<>> /\ open THEN Head(Tail(q)) ELSE 0]
        /\ UNCHANGED <<status, is_open, sessionLoop, capacity, sends, here>>
    BY <1>2 DEF OnWriteComplete, WriteNext, socket
  <2>2. /\ wire'[s] = Append(W, d) /\ m_send_queue'[s] = Tail(q)
        /\ writing'[s] = IF Tail(q) # <<>> /\ open THEN Head(Tail(q)) ELSE 0
        /\ \A t \in Session \ {s} : /\ wire'[t] = wire[t] /\ m_send_queue'[t] = m_send_queue[t]
                                      /\ writing'[t] = writing[t]
    BY <2>1 DEF TypeInv, TypeOK
  <2>3. ASSUME NEW t \in Session \ {s} PROVE SendOf(t)'
    BY <2>1, <2>2, SameLoopKept, SameKeepsSend DEF SendInv
  <2>4. /\ SendOf(s) /\ SentOf(s) /\ q # <<>> /\ n \in Nat /\ d \in 1..n
        /\ q \in Seq(1..n) /\ W \in Seq(1..n) /\ InOrder(Out(W, d), H)
    BY <2>1, SendTypes DEF SendInv, TypeInv, WrittenIsQueued, SendOf, SentOf, Outgoing
  <2>5. Out(W, d) = Append(W, d)
    BY <2>1 DEF Out
  <2>6. Tail(q) \in Seq(1..n) /\ Append(W, d) \in Seq(1..n) /\ Len(Tail(q)) <= Len(q)
    <3> HIDE DEF q, W, d, n
    <3>1. QED
      BY <2>4, TailOfSeq, AppendToSeq
  <2>7. Len(m_send_queue'[s]) <= capacity'[s] /\ capacity'[s] \in 1..CapacityBound
    <3>1. Len(q) <= capacity[s] /\ capacity[s] \in 1..CapacityBound
      BY <2>4 DEF SendOf
    <3>2. CapacityBound \in Nat /\ Len(Tail(q)) \in Nat /\ Len(q) \in Nat
      BY <2>4, <2>6, SizesPositive DEF CapacityBound
    <3> HIDE DEF q
    <3>3. QED
      BY <2>1, <2>2, <2>6, <3>1, <3>2
  <2>8. SentOf(s)'
    <3>1. writing'[s] \in 0..n
      <4> HIDE DEF q, W, d, n, open
      <4>1. CASE Tail(q) # <<>>
        BY <2>2, <2>4, <2>6, <4>1, HeadInSeq
      <4>2. CASE Tail(q) = <<>>
        BY <2>2, <2>4, <4>2
      <4>3. QED
        BY <4>1, <4>2
    <3>2. sends'[s] = n /\ here'[s] = H /\ status'[s] = status[s] /\ status[s] # "unborn"
      BY <2>1, <2>4 DEF SentOf
    <3>3. H \subseteq 1..n
      BY <2>4 DEF SentOf
    <3> HIDE DEF q, W, d, n, H
    <3>4. QED
      BY <2>2, <2>6, <3>1, <3>2, <3>3 DEF SentOf
  <2>9. CASE ~open
    <3>1. Outgoing(s)' = Append(W, d)
      BY <2>2, <2>9 DEF Outgoing, Out
    <3>2. InOrder(Outgoing(s)', here'[s])
      BY <2>1, <2>4, <2>5, <3>1
    <3>3. ~is_open'[s]
      BY <2>1, <2>9
    <3>4. QED
      BY <2>3, <2>7, <2>8, <3>2, <3>3 DEF SendInv, SendOf
  <2>10. CASE open
    <3>1. /\ d = IF q = <<>> THEN 0 ELSE Head(q)
          /\ InOrder(Line(s), H) /\ PostedInOrder(s)
      BY <2>4, <2>10 DEF SendOf
    <3>2. d = Head(q) /\ Line(s) = W \o q /\ Line(s)' = Append(W, d) \o Tail(q)
      BY <2>2, <2>4, <3>1 DEF Line
    <3>3. Line(s)' = Line(s)
      <4> HIDE DEF q, W, d, n
      <4>1. Append(W, Head(q)) \o Tail(q) = W \o q
        BY <2>4, LineShift
      <4>2. QED
        BY <3>2, <4>1
    <3>4. PostedInOrder(s)'
      BY <2>1, <3>1, <3>3, SameLoopKept, KeptLoopInOrder
    <3>5. writing'[s] = IF m_send_queue'[s] = <<>> THEN 0 ELSE Head(m_send_queue'[s])
      BY <2>2, <2>10
    <3>6. InOrder(Outgoing(s)', here'[s])
      <4> DEFINE V == Append(W, d)
                 Q == Tail(q)
      <4>1. /\ V \in Seq(1..n) /\ Q \in Seq(1..n) /\ n \in Nat /\ InOrder(V \o Q, H)
            /\ Outgoing(s)' = Out(V, IF Q = <<>> THEN 0 ELSE Head(Q)) /\ here'[s] = H
        <5>1. InOrder(V \o Q, H)
          BY <3>1, <3>2, <3>3
        <5>2. Outgoing(s)' = Out(V, IF Q = <<>> THEN 0 ELSE Head(Q))
          BY <2>2, <3>5 DEF Outgoing
        <5>3. QED
          BY <2>1, <2>4, <2>6, <5>1, <5>2
      <4> HIDE DEF V, Q, n, H
      <4>2. QED
        BY <4>1, OutInOrder
    <3>7. InOrder(Line(s)', here'[s])
      BY <2>1, <3>1, <3>3
    <3>8. SendOf(s)'
      BY <2>7, <2>8, <3>4, <3>5, <3>6, <3>7 DEF SendOf
    <3>9. QED
      BY <2>3, <3>8 DEF SendInv
  <2>11. QED
    BY <2>9, <2>10
<1>3. QED
  BY <1>1, <1>2

\* Nothing is sent at the start.
LEMMA InitSend == Init => SendInv
<1> SUFFICES ASSUME Init, NEW s \in Session PROVE SendOf(s)
  BY DEF SendInv
<1>1. /\ m_send_queue[s] = <<>> /\ wire[s] = <<>> /\ sends[s] = 0 /\ writing[s] = 0
      /\ capacity[s] = INIT_SIZE /\ ~is_open[s] /\ here[s] = {}
  BY DEF Init
<1>2. INIT_SIZE \in 1..CapacityBound
  BY SizesPositive DEF CapacityBound
<1>3. Outgoing(s) = <<>> /\ InOrder(<<>>, here[s])
  BY <1>1 DEF Outgoing, Out, InOrder
<1>4. SentOf(s)
  BY <1>1 DEF SentOf
<1>5. QED
  BY <1>1, <1>2, <1>3, <1>4 DEF SendOf

\* Every step keeps the messages in order and the queue within its bound.
LEMMA NextSend == SendInv /\ LifeInv /\ [Next]_vars => SendInv'
<1> SUFFICES ASSUME SendInv, LifeInv, [Next]_vars PROVE SendInv'
  OBVIOUS
<1>1. TypeInv /\ NoticeInv /\ ManagerQueue
  BY DEF LifeInv, TableLife
<1>2. CASE UNCHANGED vars
  <2>1. UNCHANGED <<writer, sends, here, is_open, status, sessionLoop>>
    BY <1>2 DEF vars, socket
  <2>2. QED
    BY <1>1, <2>1, SameLoopKept, QuietSend
<1>3. CASE Next
  BY <1>1, <1>3, ManagerSend, CheckSend, OtherSend, AcceptSend, SendSend, DoWriteSend, WrittenSend,
     ReceivedSend, Zenon DEF Next, SessionStep
<1>4. QED
  BY <1>2, <1>3

\* The invariant of sending.
LEMMA SendAlways == SafeSpec => []SendInv
BY LifeAlways, InitSend, NextSend, PTL DEF SafeSpec

\* The ring buffer of a send queue never overwrites a message, and a queue that keeps
\* filling closes its session before it holds more than twice MAX_SIZE.
THEOREM QueueBoundedAlways == Spec => []QueueBounded
<1>1. SendInv => QueueBounded
  <2> SUFFICES ASSUME SendInv, NEW s \in Session
               PROVE  Len(m_send_queue[s]) <= capacity[s] /\ capacity[s] <= CapacityBound
    BY DEF QueueBounded, CapacityBound
  <2>1. CapacityBound \in Nat
    BY SizesPositive DEF CapacityBound
  <2>2. QED
    BY <2>1 DEF SendInv, SendOf
<1>2. QED
  BY SendAlways, <1>1, PTL DEF Spec

\* Messages are written one at a time, none while another is outstanding, and none is
\* left waiting without a write (do_write, on_write_complete).  They reach the wire in
\* the order they were sent, none twice, but that those sent on the session's own loop
\* may overtake those posted to it (IoLoop::post).
THEOREM WritesInOrderAlways == Spec => []WritesInOrder
<1>1. TypeInv /\ SendInv => WritesInOrder
  <2> SUFFICES ASSUME TypeInv, SendInv PROVE WritesInOrder
    OBVIOUS
  <2>1. OneWriteAtATime
    BY DEF OneWriteAtATime, SendInv, SendOf
  <2>2. ASSUME NEW s \in Session PROVE InOrder(wire[s], here[s])
    <3>1. /\ sends[s] \in Nat /\ wire[s] \in Seq(1..sends[s]) /\ writing[s] \in 0..sends[s]
          /\ InOrder(Out(wire[s], writing[s]), here[s])
      BY SendTypes DEF SendInv, SendOf, SentOf, Outgoing
    <3>2. QED
      BY <3>1, WireInOut
  <2>3. WireInOrder
    BY <2>2 DEF WireInOrder, OnWire, InOrder
  <2>4. QED
    BY <2>1, <2>3 DEF WritesInOrder
<1>2. QED
  BY SendAlways, TypeCorrect, <1>1, PTL DEF Spec
===============================================================================
