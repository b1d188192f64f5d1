------------------------------ MODULE Client_proofs ------------------------------
(***************************************************************************)
(* Proofs about Client for any number of calls and any length of its loop. *)
(*                                                                         *)
(* As long as no stale reconnect handler has run beside an attempt, an     *)
(* attempt to connect is either pending or has its handler queued, once,   *)
(* and the handler of the reconnect timer runs before that of an attempt   *)
(* (InOrder): it is queued while the client waits, and an attempt started  *)
(* later completes behind it.  That is why the flags, the socket and what  *)
(* the upper layer was told agree, and why the socket is never null when a *)
(* handler needs it.  That the client goes on trying, and its heart goes   *)
(* on beating, is inductive without any of this, stale handlers or not.    *)
(***************************************************************************)
EXTENDS Client, TLAPS

-------------------------------------------------------------------------------
(* The loop's queue.                                                       *)

Has(q, h) == \E i \in 1..Len(q) : q[i].h = h

\* The handler of a timer that expired.
Fires(q, t) == \E i \in 1..Len(q) : q[i] = [h |-> t, err |-> FALSE]

\* One attempt at most has its handler queued, and no reconnect is queued behind it.
InOrder(q) ==
  \A i, j \in 1..Len(q) : q[i].h = "attempt" =>
    /\ q[j].h = "attempt" => i = j
    /\ q[j].h = "reconnect" => j < i

\* A handler is queued.
LEMMA AppendQueue ==
  ASSUME NEW q \in Seq(Handler), NEW e \in Handler
  PROVE  /\ Append(q, e) \in Seq(Handler)
         /\ \A h : Has(Append(q, e), h) <=> Has(q, h) \/ e.h = h
         /\ InOrder(q) /\ (e.h \in {"attempt", "reconnect"} => ~Has(q, "attempt")) => InOrder(Append(q, e))
         /\ \A t : Fires(q, t) => Fires(Append(q, e), t)
         /\ e.err = FALSE => Fires(Append(q, e), e.h)
<1> DEFINE r == Append(q, e)
           n == Len(q)
<1>1. /\ r \in Seq(Handler) /\ n \in Nat /\ Len(r) = n + 1 /\ r[n + 1] = e
      /\ \A i \in 1..n : i \in 1..(n + 1) /\ r[i] = q[i]
      /\ \A i \in 1..(n + 1) : i \in 1..n \/ i = n + 1
  OBVIOUS
<1> HIDE DEF r, n
<1>2. ASSUME NEW h PROVE Has(r, h) <=> Has(q, h) \/ e.h = h
  BY <1>1 DEF Has, n
<1>3. ASSUME InOrder(q), e.h \in {"attempt", "reconnect"} => ~Has(q, "attempt") PROVE InOrder(r)
  <2> SUFFICES ASSUME NEW i \in 1..(n + 1), NEW j \in 1..(n + 1), r[i].h = "attempt"
               PROVE  /\ r[j].h = "attempt" => i = j
                      /\ r[j].h = "reconnect" => j < i
    BY <1>1 DEF InOrder
  <2>1. CASE i \in 1..n /\ j \in 1..n
    BY <1>1, <1>3, <2>1 DEF InOrder, n
  <2>2. CASE i \in 1..n /\ j = n + 1
    BY <1>1, <1>3, <2>2 DEF Has, n
  <2>3. CASE i = n + 1 /\ j \in 1..n
    BY <1>1, <1>3, <2>3 DEF Has, n
  <2>4. CASE i = n + 1 /\ j = n + 1
    BY <1>1, <2>4
  <2>5. QED
    BY <1>1, <2>1, <2>2, <2>3, <2>4
<1>4. ASSUME NEW t, Fires(q, t) PROVE Fires(r, t)
  BY <1>1, <1>4 DEF Fires, n
<1>5. ASSUME e.err = FALSE PROVE Fires(r, e.h)
  <2>1. e = [h |-> e.h, err |-> FALSE]
    BY <1>5 DEF Handler
  <2>2. n + 1 \in 1..Len(r) /\ r[n + 1] = [h |-> e.h, err |-> FALSE]
    BY <1>1, <2>1
  <2>3. QED
    BY <2>2 DEF Fires
<1>6. QED
  BY <1>1, <1>2, <1>3, <1>4, <1>5 DEF r

\* The handler at the head is taken.
LEMMA TailQueue ==
  ASSUME NEW q \in Seq(Handler), q # <<>>
  PROVE  /\ Tail(q) \in Seq(Handler) /\ Head(q) \in Handler
         /\ \A h : Has(Tail(q), h) => Has(q, h)
         /\ \A h : Has(q, h) => Has(Tail(q), h) \/ Head(q).h = h
         /\ Has(q, Head(q).h)
         /\ InOrder(q) => InOrder(Tail(q))
         /\ InOrder(q) /\ Head(q).h = "attempt" => ~Has(Tail(q), "attempt") /\ ~Has(Tail(q), "reconnect")
         /\ \A t : Fires(q, t) => Fires(Tail(q), t) \/ Head(q) = [h |-> t, err |-> FALSE]
<1> DEFINE r == Tail(q)
           n == Len(q)
<1>1. /\ r \in Seq(Handler) /\ n \in Nat \ {0} /\ Len(r) = n - 1 /\ Head(q) = q[1] /\ q[1] \in Handler
      /\ \A i \in 1..(n - 1) : i + 1 \in 2..n /\ r[i] = q[i + 1]
  OBVIOUS
<1> HIDE DEF r, n
<1>2. /\ 1 \in 1..n /\ \A i \in 1..n : i = 1 \/ i - 1 \in 1..(n - 1)
      /\ \A i \in 1..(n - 1) : i + 1 \in 1..n /\ i + 1 # 1 /\ i < i + 1
      /\ \A i \in 1..n : (i - 1) + 1 = i
  BY <1>1
<1>3. ASSUME NEW h, Has(r, h) PROVE Has(q, h)
  BY <1>1, <1>2, <1>3 DEF Has, n
<1>4. ASSUME NEW h, Has(q, h) PROVE Has(r, h) \/ q[1].h = h
  <2>1. PICK i \in 1..n : q[i].h = h
    BY <1>4 DEF Has, n
  <2>2. CASE i # 1
    <3>1. i - 1 \in 1..(n - 1) /\ r[i - 1] = q[i]
      BY <1>1, <1>2, <2>2
    <3>2. QED
      BY <1>1, <2>1, <3>1 DEF Has
  <2>3. QED
    BY <2>1, <2>2
<1>5. ASSUME NEW t, Fires(q, t) PROVE Fires(r, t) \/ q[1] = [h |-> t, err |-> FALSE]
  <2>1. PICK i \in 1..n : q[i] = [h |-> t, err |-> FALSE]
    BY <1>5 DEF Fires, n
  <2>2. CASE i # 1
    <3>1. i - 1 \in 1..(n - 1) /\ r[i - 1] = q[i]
      BY <1>1, <1>2, <2>2
    <3>2. QED
      BY <1>1, <2>1, <3>1 DEF Fires
  <2>3. QED
    BY <2>1, <2>2
<1>6. ASSUME InOrder(q) PROVE InOrder(r)
  <2> SUFFICES ASSUME NEW i \in 1..(n - 1), NEW j \in 1..(n - 1), r[i].h = "attempt"
               PROVE  /\ r[j].h = "attempt" => i = j
                      /\ r[j].h = "reconnect" => j < i
    BY <1>1 DEF InOrder
  <2>1. /\ q[i + 1].h = "attempt" /\ r[j] = q[j + 1] /\ i + 1 \in 1..n /\ j + 1 \in 1..n
    BY <1>1, <1>2
  <2>2. /\ r[j].h = "attempt" => i + 1 = j + 1
        /\ r[j].h = "reconnect" => j + 1 < i + 1
    BY <1>6, <2>1 DEF InOrder, n
  <2>3. QED
    BY <2>2
<1>7. ASSUME InOrder(q), q[1].h = "attempt" PROVE ~Has(r, "attempt") /\ ~Has(r, "reconnect")
  <2> SUFFICES ASSUME NEW i \in 1..(n - 1) PROVE r[i].h # "attempt" /\ r[i].h # "reconnect"
    BY <1>1 DEF Has
  <2>1. r[i] = q[i + 1] /\ 1 \in 1..n /\ i + 1 \in 1..n /\ i + 1 # 1 /\ ~(i + 1 < 1)
    BY <1>1, <1>2
  <2>2. QED
    BY <1>7, <2>1 DEF InOrder, n
<1>8. Has(q, q[1].h)
  BY <1>2 DEF Has, n
<1>9. QED
  BY <1>1, <1>3, <1>4, <1>5, <1>6, <1>7, <1>8 DEF r

-------------------------------------------------------------------------------
(* The invariant.                                                          *)

\* The flags, the socket, the attempt, the timer of the next attempt and the handlers
\* queued agree, and so does what the upper layer was told.
Consistent(s) ==
  /\ ~(s.m_is_connecting /\ s.m_is_connected)
  /\ s.m_is_connecting <=> s.m_socket # "null"
  /\ s.waiting["reconnect"] => s.m_is_wait_connect /\ ~s.m_is_connecting /\ ~s.m_is_connected
  /\ s.attempt # "session"
  /\ s.attempt = "m_socket" => s.m_is_connecting
  /\ Has(s.queue, "attempt") => s.m_is_connecting /\ s.attempt = "none"
  /\ s.m_is_connecting => s.attempt = "m_socket" \/ Has(s.queue, "attempt")
  /\ Has(s.queue, "reconnect") => ~s.m_is_connected /\ ~s.waiting["reconnect"]
  /\ InOrder(s.queue)
  /\ s.told = "open" <=> s.m_is_connected

Ready(s, t) == s.waiting[t] \/ Fires(s.queue, t)

Beats(s) == s.m_is_connected => Ready(s, "heart_beat")

Tries(s) == s.m_auto_reconnect => s.m_is_connected \/ s.m_is_connecting \/ Ready(s, "reconnect")

IInv ==
  /\ TypeOK
  /\ NullSocketOnlyIfStale
  /\ ~stale => Consistent(c)
  /\ Beats(c)
  /\ ~crashed => Tries(c)

-------------------------------------------------------------------------------
(* What the calls do.                                                      *)

\* The members that timers and sockets leave alone.
SameFlags(r, s) ==
  /\ r.m_auto_reconnect = s.m_auto_reconnect /\ r.m_is_connecting = s.m_is_connecting
  /\ r.m_is_wait_connect = s.m_is_wait_connect /\ r.m_is_connected = s.m_is_connected
  /\ r.m_socket = s.m_socket /\ r.told = s.told

\* A handler is queued on the loop.
LEMMA QueueDoes ==
  ASSUME NEW s \in ClientState, NEW h \in Timer \cup {"attempt", "do_connect", "do_close_client"},
         NEW err \in BOOLEAN
  PROVE  LET r == Queue(s, h, err) IN
         /\ r \in ClientState /\ SameFlags(r, s) /\ r.attempt = s.attempt /\ r.waiting = s.waiting
         /\ [h |-> h, err |-> err] \in Handler /\ r.queue = Append(s.queue, [h |-> h, err |-> err])
<1>1. [h |-> h, err |-> err] \in Handler /\ s.queue \in Seq(Handler)
  BY DEF Handler, ClientState
<1>2. Append(s.queue, [h |-> h, err |-> err]) \in Seq(Handler)
  BY <1>1
<1>3. QED
  BY <1>1, <1>2 DEF Queue, ClientState, SameFlags

\* A wait that is set or cleared without a handler.
LEMMA WaitDoes ==
  ASSUME NEW s \in ClientState, NEW t \in Timer, NEW b \in BOOLEAN
  PROVE  LET r == [s EXCEPT !.waiting[t] = b] IN
         /\ r \in ClientState /\ SameFlags(r, s) /\ r.attempt = s.attempt /\ r.queue = s.queue
         /\ r.waiting[t] = b /\ \A u \in Timer \ {t} : r.waiting[u] = s.waiting[u]
BY DEF ClientState, SameFlags

\* A wait is cancelled: only the reconnect timer's handler is queued.
LEMMA CancelDoes ==
  ASSUME NEW s \in ClientState, NEW t \in Timer
  PROVE  LET r == Cancel(s, t) IN
         /\ r \in ClientState /\ SameFlags(r, s) /\ r.attempt = s.attempt
         /\ ~r.waiting[t] /\ \A u \in Timer \ {t} : r.waiting[u] = s.waiting[u]
         /\ [h |-> "reconnect", err |-> TRUE] \in Handler
         /\ r.queue = IF s.waiting[t] /\ t = "reconnect"
                      THEN Append(s.queue, [h |-> "reconnect", err |-> TRUE]) ELSE s.queue
<1> DEFINE d == [s EXCEPT !.waiting[t] = FALSE]
<1>1. /\ d \in ClientState /\ SameFlags(d, s) /\ d.attempt = s.attempt /\ d.queue = s.queue
      /\ ~d.waiting[t] /\ \A u \in Timer \ {t} : d.waiting[u] = s.waiting[u]
  BY WaitDoes
<1>2. Cancel(s, t) = IF s.waiting[t] /\ t = "reconnect" THEN Queue(d, t, TRUE) ELSE d
  BY DEF Cancel
<1>3. [h |-> "reconnect", err |-> TRUE] \in Handler
  BY DEF Handler, Timer
<1> HIDE DEF d
<1>4. /\ Queue(d, t, TRUE) \in ClientState /\ SameFlags(Queue(d, t, TRUE), d)
      /\ Queue(d, t, TRUE).attempt = d.attempt /\ Queue(d, t, TRUE).waiting = d.waiting
      /\ Queue(d, t, TRUE).queue = Append(d.queue, [h |-> t, err |-> TRUE])
  BY <1>1, QueueDoes
<1>5. QED
  BY <1>1, <1>2, <1>3, <1>4 DEF SameFlags

\* A timer is set anew.
LEMMA ArmDoes ==
  ASSUME NEW s \in ClientState, NEW t \in Timer
  PROVE  LET r == Arm(s, t) IN
         /\ r \in ClientState /\ SameFlags(r, s) /\ r.attempt = s.attempt
         /\ r.waiting[t] /\ \A u \in Timer \ {t} : r.waiting[u] = s.waiting[u]
         /\ [h |-> "reconnect", err |-> TRUE] \in Handler
         /\ r.queue = IF s.waiting[t] /\ t = "reconnect"
                      THEN Append(s.queue, [h |-> "reconnect", err |-> TRUE]) ELSE s.queue
<1> DEFINE d == Cancel(s, t)
<1>1. /\ d \in ClientState /\ SameFlags(d, s) /\ d.attempt = s.attempt
      /\ \A u \in Timer \ {t} : d.waiting[u] = s.waiting[u]
      /\ [h |-> "reconnect", err |-> TRUE] \in Handler
      /\ d.queue = IF s.waiting[t] /\ t = "reconnect"
                   THEN Append(s.queue, [h |-> "reconnect", err |-> TRUE]) ELSE s.queue
  BY CancelDoes
<1>2. Arm(s, t) = [d EXCEPT !.waiting[t] = TRUE]
  BY DEF Arm
<1> HIDE DEF d
<1> DEFINE r == [d EXCEPT !.waiting[t] = TRUE]
<1>3. /\ r \in ClientState /\ SameFlags(r, d) /\ r.attempt = d.attempt /\ r.queue = d.queue
      /\ r.waiting[t] = TRUE /\ \A u \in Timer \ {t} : r.waiting[u] = d.waiting[u]
  BY <1>1, WaitDoes
<1> HIDE DEF r
<1>4. Arm(s, t) = r
  BY <1>2 DEF r
<1>5. QED
  BY <1>1, <1>3, <1>4 DEF SameFlags

\* A socket that closes aborts its attempt, whose handler is queued.
LEMMA AbortDoes ==
  ASSUME NEW s \in ClientState, NEW owner
  PROVE  LET r == Abort(s, owner) IN
         /\ r \in ClientState /\ SameFlags(r, s) /\ r.waiting = s.waiting
         /\ r.attempt = IF s.attempt = owner THEN "none" ELSE s.attempt
         /\ [h |-> "attempt", err |-> TRUE] \in Handler
         /\ r.queue = IF s.attempt = owner
                      THEN Append(s.queue, [h |-> "attempt", err |-> TRUE]) ELSE s.queue
<1> DEFINE d == [s EXCEPT !.attempt = "none"]
<1>1. /\ d \in ClientState /\ SameFlags(d, s) /\ d.attempt = "none" /\ d.queue = s.queue
      /\ d.waiting = s.waiting
  BY DEF ClientState, SameFlags
<1>2. Abort(s, owner) = IF s.attempt = owner THEN Queue(d, "attempt", TRUE) ELSE s
  BY DEF Abort
<1>3. [h |-> "attempt", err |-> TRUE] \in Handler
  BY DEF Handler
<1> HIDE DEF d
<1>4. /\ Queue(d, "attempt", TRUE) \in ClientState /\ SameFlags(Queue(d, "attempt", TRUE), d)
      /\ Queue(d, "attempt", TRUE).attempt = d.attempt /\ Queue(d, "attempt", TRUE).waiting = d.waiting
      /\ Queue(d, "attempt", TRUE).queue = Append(d.queue, [h |-> "attempt", err |-> TRUE])
  BY <1>1, QueueDoes
<1>5. QED
  BY <1>1, <1>2, <1>3, <1>4 DEF SameFlags

\* The queue after an attempt of either owner was aborted, or none.
LEMMA AbortedQueue ==
  ASSUME NEW q \in Seq(Handler)
  PROVE  /\ [h |-> "attempt", err |-> TRUE] \in Handler
         /\ Append(q, [h |-> "attempt", err |-> TRUE]) \in Seq(Handler)
         /\ \A t : Fires(q, t) => Fires(Append(q, [h |-> "attempt", err |-> TRUE]), t)
<1>1. [h |-> "attempt", err |-> TRUE] \in Handler
  BY DEF Handler
<1>2. QED
  BY <1>1, AppendQueue

\* Client::connect().
LEMMA ConnectDoes ==
  ASSUME NEW s \in ClientState
  PROVE  LET r == Connect(s) IN
         /\ r \in ClientState /\ r.m_is_connecting /\ r.m_socket = "open" /\ r.attempt = "m_socket"
         /\ r.m_auto_reconnect = s.m_auto_reconnect /\ r.m_is_connected = s.m_is_connected
         /\ r.m_is_wait_connect = s.m_is_wait_connect /\ r.told = s.told
         /\ \A t \in Timer \ {"connect"} : r.waiting[t] = s.waiting[t]
         /\ r.queue = IF s.attempt = "m_socket"
                      THEN Append(s.queue, [h |-> "attempt", err |-> TRUE]) ELSE s.queue
<1> DEFINE a == Abort(s, "m_socket")
           b == Arm(a, "connect")
<1>1. /\ a \in ClientState /\ SameFlags(a, s) /\ a.waiting = s.waiting
      /\ a.queue = IF s.attempt = "m_socket"
                   THEN Append(s.queue, [h |-> "attempt", err |-> TRUE]) ELSE s.queue
  BY AbortDoes
<1>2. Connect(s) = [b EXCEPT !.m_socket = "open", !.attempt = "m_socket", !.m_is_connecting = TRUE]
  BY DEF Connect
<1> HIDE DEF a
<1>3. /\ b \in ClientState /\ SameFlags(b, a) /\ b.queue = a.queue
      /\ \A t \in Timer \ {"connect"} : b.waiting[t] = a.waiting[t]
  BY <1>1, ArmDoes DEF Timer
<1> HIDE DEF b
<1> DEFINE r == Connect(s)
<1>4. /\ r \in ClientState /\ r.m_is_connecting /\ r.m_socket = "open" /\ r.attempt = "m_socket"
      /\ r.m_auto_reconnect = b.m_auto_reconnect /\ r.m_is_connected = b.m_is_connected
      /\ r.m_is_wait_connect = b.m_is_wait_connect /\ r.told = b.told
      /\ r.waiting = b.waiting /\ r.queue = b.queue
  BY <1>2, <1>3 DEF ClientState
<1> HIDE DEF r
<1>5. QED
  BY <1>1, <1>3, <1>4 DEF SameFlags, r

\* TcpSession::do_close with Client::close_session: the client connects again.
LEMMA SessionClosesDoes ==
  ASSUME NEW s \in ClientState
  PROVE  LET r == SessionCloses(s) IN
         /\ r \in ClientState /\ r.m_is_connecting /\ r.m_socket = "open" /\ r.attempt = "m_socket"
         /\ ~r.m_is_connected /\ r.told = "close"
         /\ r.m_auto_reconnect = s.m_auto_reconnect /\ r.m_is_wait_connect = s.m_is_wait_connect
         /\ r.waiting["reconnect"] = s.waiting["reconnect"]
         /\ r.queue = IF s.attempt = "none" THEN s.queue
                      ELSE Append(s.queue, [h |-> "attempt", err |-> TRUE])
<1> DEFINE a == Abort(s, "session")
           b == [a EXCEPT !.m_is_connected = FALSE]
           d == Cancel(b, "heart_beat")
           e == Cancel(d, "alive")
           f == Connect(e)
           r == SessionCloses(s)
<1>1. /\ a \in ClientState /\ SameFlags(a, s) /\ a.waiting = s.waiting
      /\ a.attempt = IF s.attempt = "session" THEN "none" ELSE s.attempt
      /\ a.queue = IF s.attempt = "session"
                   THEN Append(s.queue, [h |-> "attempt", err |-> TRUE]) ELSE s.queue
  BY AbortDoes
<1>2. r = [f EXCEPT !.told = "close"]
  BY DEF SessionCloses, CloseSession
<1> HIDE DEF a, r
<1>3. /\ b \in ClientState /\ ~b.m_is_connected /\ b.waiting = a.waiting /\ b.attempt = a.attempt
      /\ b.m_auto_reconnect = a.m_auto_reconnect /\ b.m_is_wait_connect = a.m_is_wait_connect
      /\ b.queue = a.queue
  BY <1>1 DEF ClientState
<1> HIDE DEF b
<1>4. /\ d \in ClientState /\ SameFlags(d, b) /\ d.attempt = b.attempt /\ d.queue = b.queue
      /\ d.waiting["reconnect"] = b.waiting["reconnect"]
  BY <1>3, CancelDoes DEF Timer
<1> HIDE DEF d
<1>5. /\ e \in ClientState /\ SameFlags(e, d) /\ e.attempt = d.attempt /\ e.queue = d.queue
      /\ e.waiting["reconnect"] = d.waiting["reconnect"]
  BY <1>4, CancelDoes DEF Timer
<1> HIDE DEF e
<1>6. /\ f \in ClientState /\ f.m_is_connecting /\ f.m_socket = "open" /\ f.attempt = "m_socket"
      /\ f.m_auto_reconnect = e.m_auto_reconnect /\ f.m_is_connected = e.m_is_connected
      /\ f.m_is_wait_connect = e.m_is_wait_connect
      /\ f.waiting["reconnect"] = e.waiting["reconnect"]
      /\ f.queue = IF e.attempt = "m_socket"
                   THEN Append(e.queue, [h |-> "attempt", err |-> TRUE]) ELSE e.queue
  BY <1>5, ConnectDoes DEF Timer
<1> HIDE DEF f
<1>7. /\ r \in ClientState /\ r.told = "close" /\ r.m_is_connecting = f.m_is_connecting
      /\ r.m_socket = f.m_socket /\ r.attempt = f.attempt /\ r.m_is_connected = f.m_is_connected
      /\ r.m_auto_reconnect = f.m_auto_reconnect /\ r.m_is_wait_connect = f.m_is_wait_connect
      /\ r.waiting = f.waiting /\ r.queue = f.queue
  BY <1>2, <1>6 DEF ClientState
<1>8. s.attempt \in {"none", "m_socket", "session"}
  BY DEF ClientState
<1>9. e.queue = a.queue /\ e.attempt = a.attempt
  BY <1>3, <1>4, <1>5
<1>10. r.queue = IF s.attempt = "none" THEN s.queue ELSE Append(s.queue, [h |-> "attempt", err |-> TRUE])
  BY <1>1, <1>6, <1>7, <1>8, <1>9
<1>11. QED
  BY <1>1, <1>3, <1>4, <1>5, <1>6, <1>7, <1>10 DEF SameFlags, r

\* m_socket->close().
LEMMA SocketClosesDoes ==
  ASSUME NEW s \in ClientState
  PROVE  LET r == SocketCloses(s) IN
         /\ r \in ClientState /\ r.m_socket = "closed" /\ r.m_is_connecting = s.m_is_connecting
         /\ r.m_auto_reconnect = s.m_auto_reconnect /\ r.m_is_connected = s.m_is_connected
         /\ r.m_is_wait_connect = s.m_is_wait_connect /\ r.told = s.told /\ r.waiting = s.waiting
         /\ r.attempt = IF s.attempt = "m_socket" THEN "none" ELSE s.attempt
         /\ r.queue = IF s.attempt = "m_socket"
                      THEN Append(s.queue, [h |-> "attempt", err |-> TRUE]) ELSE s.queue
<1> DEFINE a == [s EXCEPT !.m_socket = "closed"]
<1>1. /\ a \in ClientState /\ a.m_socket = "closed" /\ a.m_is_connecting = s.m_is_connecting
      /\ a.m_auto_reconnect = s.m_auto_reconnect /\ a.m_is_connected = s.m_is_connected
      /\ a.m_is_wait_connect = s.m_is_wait_connect /\ a.told = s.told /\ a.waiting = s.waiting
      /\ a.attempt = s.attempt /\ a.queue = s.queue
  BY DEF ClientState
<1>2. SocketCloses(s) = Abort(a, "m_socket")
  BY DEF SocketCloses
<1> HIDE DEF a
<1>3. QED
  BY <1>1, <1>2, AbortDoes DEF SameFlags

\* on_connet_complete, failed.
LEMMA ConnectFailedDoes ==
  ASSUME NEW s \in ClientState
  PROVE  LET r == ConnectFailed(s) IN
         /\ r \in ClientState /\ r.m_socket = "null" /\ r.m_is_connecting = s.m_is_connecting
         /\ r.m_auto_reconnect = s.m_auto_reconnect /\ r.m_is_connected = s.m_is_connected
         /\ r.told = "failed" /\ r.waiting["heart_beat"] = s.waiting["heart_beat"]
         /\ r.attempt = IF s.attempt = "m_socket" THEN "none" ELSE s.attempt
         /\ IF s.m_auto_reconnect
            THEN r.m_is_wait_connect /\ r.waiting["reconnect"]
            ELSE r.m_is_wait_connect = s.m_is_wait_connect /\ r.waiting["reconnect"] = s.waiting["reconnect"]
         /\ s.attempt # "m_socket" /\ ~s.waiting["reconnect"] => r.queue = s.queue
         /\ \A t : Fires(s.queue, t) => Fires(r.queue, t)
<1> DEFINE a == [s EXCEPT !.told = "failed", !.m_socket = "null"]
           d == Abort(a, "m_socket")
           e == [d EXCEPT !.m_is_wait_connect = TRUE]
           f == Arm(e, "reconnect")
<1>1. /\ a \in ClientState /\ a.m_socket = "null" /\ a.m_is_connecting = s.m_is_connecting
      /\ a.m_auto_reconnect = s.m_auto_reconnect /\ a.m_is_connected = s.m_is_connected
      /\ a.m_is_wait_connect = s.m_is_wait_connect /\ a.told = "failed" /\ a.waiting = s.waiting
      /\ a.attempt = s.attempt /\ a.queue = s.queue
  BY DEF ClientState
<1>2. ConnectFailed(s) = IF d.m_auto_reconnect THEN f ELSE d
  BY DEF ConnectFailed, RegisterConnectTimer
<1> HIDE DEF a
<1>3. /\ d \in ClientState /\ SameFlags(d, a) /\ d.waiting = a.waiting
      /\ d.attempt = IF a.attempt = "m_socket" THEN "none" ELSE a.attempt
      /\ [h |-> "attempt", err |-> TRUE] \in Handler
      /\ d.queue = IF a.attempt = "m_socket"
                   THEN Append(a.queue, [h |-> "attempt", err |-> TRUE]) ELSE a.queue
  BY <1>1, AbortDoes
<1> HIDE DEF d
<1>4. /\ e \in ClientState /\ e.m_is_wait_connect /\ e.waiting = d.waiting /\ e.queue = d.queue
      /\ e.m_socket = d.m_socket /\ e.m_is_connecting = d.m_is_connecting
      /\ e.m_auto_reconnect = d.m_auto_reconnect /\ e.m_is_connected = d.m_is_connected
      /\ e.told = d.told /\ e.attempt = d.attempt
  BY <1>3 DEF ClientState
<1> HIDE DEF e
<1>5. /\ f \in ClientState /\ SameFlags(f, e) /\ f.attempt = e.attempt /\ f.waiting["reconnect"]
      /\ f.waiting["heart_beat"] = e.waiting["heart_beat"]
      /\ [h |-> "reconnect", err |-> TRUE] \in Handler
      /\ f.queue = IF e.waiting["reconnect"]
                   THEN Append(e.queue, [h |-> "reconnect", err |-> TRUE]) ELSE e.queue
  BY <1>4, ArmDoes DEF Timer
<1> HIDE DEF f
<1>6. s.queue \in Seq(Handler) /\ d.queue \in Seq(Handler)
  BY <1>3 DEF ClientState
<1>7. ASSUME NEW t, Fires(s.queue, t) PROVE Fires(d.queue, t) /\ Fires(f.queue, t)
  <2> DEFINE x == [h |-> "attempt", err |-> TRUE]
             y == [h |-> "reconnect", err |-> TRUE]
  <2>1. x \in Handler /\ y \in Handler
    BY <1>3, <1>5
  <2>2. d.queue \in {s.queue, Append(s.queue, x)}
    BY <1>1, <1>3
  <2>3. f.queue \in {d.queue, Append(d.queue, y)}
    BY <1>4, <1>5
  <2> HIDE DEF x, y
  <2>4. Fires(Append(s.queue, x), t)
    BY <1>6, <1>7, <2>1, AppendQueue
  <2>5. Fires(d.queue, t)
    BY <1>7, <2>2, <2>4
  <2>6. Fires(Append(d.queue, y), t)
    BY <1>6, <2>1, <2>5, AppendQueue
  <2>7. QED
    BY <2>3, <2>5, <2>6
<1>8. CASE s.m_auto_reconnect
  <2>1. ConnectFailed(s) = f
    BY <1>1, <1>2, <1>3, <1>8 DEF SameFlags
  <2>2. /\ f.m_socket = "null" /\ f.m_is_connecting = s.m_is_connecting
        /\ f.m_auto_reconnect = s.m_auto_reconnect /\ f.m_is_connected = s.m_is_connected
        /\ f.told = "failed" /\ f.waiting["heart_beat"] = s.waiting["heart_beat"]
        /\ f.m_is_wait_connect /\ f.attempt = IF s.attempt = "m_socket" THEN "none" ELSE s.attempt
    BY <1>1, <1>3, <1>4, <1>5 DEF SameFlags
  <2>3. s.attempt # "m_socket" /\ ~s.waiting["reconnect"] => f.queue = s.queue
    BY <1>1, <1>3, <1>4, <1>5
  <2>4. QED
    BY <1>5, <1>7, <1>8, <2>1, <2>2, <2>3
<1>9. CASE ~s.m_auto_reconnect
  <2>1. ConnectFailed(s) = d
    BY <1>1, <1>2, <1>3, <1>9 DEF SameFlags
  <2>2. QED
    BY <1>1, <1>3, <1>7, <1>9, <2>1 DEF SameFlags
<1>10. QED
  BY <1>8, <1>9

\* on_connet_complete, connected.
LEMMA ConnectedDoes ==
  ASSUME NEW s \in ClientState
  PROVE  LET r == Connected(s) IN
         /\ r \in ClientState /\ r.m_is_connected /\ r.m_socket = "null" /\ r.told = "open"
         /\ r.m_is_connecting = s.m_is_connecting /\ r.m_auto_reconnect = s.m_auto_reconnect
         /\ r.m_is_wait_connect = s.m_is_wait_connect
         /\ r.attempt = IF s.attempt = "m_socket" THEN "session" ELSE s.attempt
         /\ r.waiting["heart_beat"] /\ r.waiting["reconnect"] = s.waiting["reconnect"]
         /\ r.queue = s.queue
<1> DEFINE a == [s EXCEPT !.m_is_connected = TRUE, !.m_socket = "null", !.told = "open",
                          !.attempt = IF @ = "m_socket" THEN "session" ELSE @]
           b == Arm(a, "heart_beat")
           d == Arm(b, "alive")
<1>1. /\ a \in ClientState /\ a.m_is_connected /\ a.m_socket = "null" /\ a.told = "open"
      /\ a.m_is_connecting = s.m_is_connecting /\ a.m_auto_reconnect = s.m_auto_reconnect
      /\ a.m_is_wait_connect = s.m_is_wait_connect /\ a.waiting = s.waiting /\ a.queue = s.queue
      /\ a.attempt = IF s.attempt = "m_socket" THEN "session" ELSE s.attempt
  BY DEF ClientState
<1>2. Connected(s) = d
  BY DEF Connected
<1> HIDE DEF a
<1>3. /\ b \in ClientState /\ SameFlags(b, a) /\ b.attempt = a.attempt /\ b.queue = a.queue
      /\ b.waiting["heart_beat"] /\ b.waiting["reconnect"] = a.waiting["reconnect"]
  BY <1>1, ArmDoes DEF Timer
<1> HIDE DEF b
<1>4. /\ d \in ClientState /\ SameFlags(d, b) /\ d.attempt = b.attempt /\ d.queue = b.queue
      /\ d.waiting["heart_beat"] /\ d.waiting["reconnect"] = b.waiting["reconnect"]
  BY <1>3, ArmDoes DEF Timer
<1> HIDE DEF d
<1>5. QED
  BY <1>1, <1>2, <1>3, <1>4 DEF SameFlags

\* The head of on_connet_complete.
LEMMA AttemptOverDoes ==
  ASSUME NEW s \in ClientState
  PROVE  LET r == AttemptOver(s) IN
         /\ r \in ClientState /\ ~r.m_is_connecting /\ r.m_is_connected = s.m_is_connected
         /\ r.m_auto_reconnect = s.m_auto_reconnect /\ r.m_is_wait_connect = s.m_is_wait_connect
         /\ r.m_socket = s.m_socket /\ r.told = s.told /\ r.attempt = s.attempt
         /\ r.waiting["heart_beat"] = s.waiting["heart_beat"]
         /\ r.waiting["reconnect"] = s.waiting["reconnect"] /\ r.queue = s.queue
<1> DEFINE a == [s EXCEPT !.m_is_connecting = FALSE]
           b == Cancel(a, "connect")
<1>1. /\ a \in ClientState /\ ~a.m_is_connecting /\ a.m_is_connected = s.m_is_connected
      /\ a.m_auto_reconnect = s.m_auto_reconnect /\ a.m_is_wait_connect = s.m_is_wait_connect
      /\ a.m_socket = s.m_socket /\ a.told = s.told /\ a.attempt = s.attempt
      /\ a.waiting = s.waiting /\ a.queue = s.queue
  BY DEF ClientState
<1>2. AttemptOver(s) = b
  BY DEF AttemptOver
<1> HIDE DEF a
<1>3. /\ b \in ClientState /\ SameFlags(b, a) /\ b.attempt = a.attempt /\ b.queue = a.queue
      /\ b.waiting["heart_beat"] = a.waiting["heart_beat"]
      /\ b.waiting["reconnect"] = a.waiting["reconnect"]
  BY <1>1, CancelDoes DEF Timer
<1> HIDE DEF b
<1>4. QED
  BY <1>1, <1>2, <1>3 DEF SameFlags

-------------------------------------------------------------------------------
(* What the handlers keep.                                                 *)

\* What holds of the client after each handler: it tries and its heart beats whatever
\* happened before, and all agrees if it did before.
Kept(r, s) ==
  /\ r \in ClientState
  /\ Tries(s) => Tries(r)
  /\ Beats(s) => Beats(r)
  /\ Consistent(s) => Consistent(r)

\* Taking the head of the queue keeps everything but what its handler stood for.
LEMMA TakeHead ==
  ASSUME c \in ClientState, c.queue # <<>>
  PROVE  LET s == [c EXCEPT !.queue = Tail(@)] IN
         /\ s \in ClientState /\ SameFlags(s, c) /\ s.attempt = c.attempt /\ s.waiting = c.waiting
         /\ s.queue = Tail(c.queue) /\ c.queue \in Seq(Handler)
<1>1. c.queue \in Seq(Handler)
  BY DEF ClientState
<1>2. Tail(c.queue) \in Seq(Handler)
  BY <1>1, TailQueue
<1>3. QED
  BY <1>1, <1>2 DEF ClientState, SameFlags

\* The handler of an attempt, which succeeded or failed (on_connet_complete).
LEMMA OnConnectCompleteKeeps ==
  ASSUME NEW s \in ClientState, NEW err \in BOOLEAN
  PROVE  LET r == OnConnectComplete(s, err) IN
         /\ r \in ClientState /\ Tries(r) /\ (Beats(s) => Beats(r))
         /\ /\ s.m_is_connecting /\ ~s.m_is_connected /\ s.attempt = "none" /\ ~s.waiting["reconnect"]
            /\ ~Has(s.queue, "attempt") /\ ~Has(s.queue, "reconnect") /\ InOrder(s.queue)
            => Consistent(r)
<1> DEFINE a == AttemptOver(s)
<1>1. /\ a \in ClientState /\ ~a.m_is_connecting /\ a.m_is_connected = s.m_is_connected
      /\ a.m_auto_reconnect = s.m_auto_reconnect /\ a.attempt = s.attempt
      /\ a.waiting["heart_beat"] = s.waiting["heart_beat"]
      /\ a.waiting["reconnect"] = s.waiting["reconnect"] /\ a.queue = s.queue
  BY AttemptOverDoes
<1>2. OnConnectComplete(s, err) = IF s.m_socket # "open" \/ err THEN ConnectFailed(a) ELSE Connected(a)
  BY DEF OnConnectComplete
<1> HIDE DEF a
<1>3. CASE s.m_socket # "open" \/ err
  <2> DEFINE r == ConnectFailed(a)
  <2>1. /\ r \in ClientState /\ r.m_socket = "null" /\ r.m_is_connecting = a.m_is_connecting
        /\ r.m_auto_reconnect = a.m_auto_reconnect /\ r.m_is_connected = a.m_is_connected
        /\ r.told = "failed" /\ r.waiting["heart_beat"] = a.waiting["heart_beat"]
        /\ r.attempt = IF a.attempt = "m_socket" THEN "none" ELSE a.attempt
        /\ a.m_auto_reconnect => r.m_is_wait_connect /\ r.waiting["reconnect"]
        /\ ~a.m_auto_reconnect => r.waiting["reconnect"] = a.waiting["reconnect"]
        /\ a.attempt # "m_socket" /\ ~a.waiting["reconnect"] => r.queue = a.queue
        /\ \A t : Fires(a.queue, t) => Fires(r.queue, t)
    BY <1>1, ConnectFailedDoes
  <2> HIDE DEF r
  <2>2. Tries(r) /\ (Beats(s) => Beats(r))
    BY <1>1, <2>1 DEF Tries, Beats, Ready
  <2>3. ASSUME /\ s.m_is_connecting /\ ~s.m_is_connected /\ s.attempt = "none" /\ ~s.waiting["reconnect"]
               /\ ~Has(s.queue, "attempt") /\ ~Has(s.queue, "reconnect") /\ InOrder(s.queue)
        PROVE  Consistent(r)
    <3>1. r.queue = s.queue /\ r.attempt = "none" /\ ~r.m_is_connected
      BY <1>1, <2>1, <2>3
    <3>2. r.waiting["reconnect"] => r.m_is_wait_connect
      BY <1>1, <2>1, <2>3 DEF ClientState
    <3>3. QED
      BY <1>1, <2>1, <2>3, <3>1, <3>2 DEF Consistent
  <2>4. QED
    BY <1>2, <1>3, <2>1, <2>2, <2>3 DEF r
<1>4. CASE ~(s.m_socket # "open" \/ err)
  <2> DEFINE r == Connected(a)
  <2>1. /\ r \in ClientState /\ r.m_is_connected /\ r.m_socket = "null" /\ r.told = "open"
        /\ r.m_is_connecting = a.m_is_connecting
        /\ r.attempt = IF a.attempt = "m_socket" THEN "session" ELSE a.attempt
        /\ r.waiting["heart_beat"] /\ r.waiting["reconnect"] = a.waiting["reconnect"]
        /\ r.queue = a.queue
    BY <1>1, ConnectedDoes
  <2> HIDE DEF r
  <2>2. Tries(r) /\ Beats(r)
    BY <2>1 DEF Tries, Beats, Ready
  <2>3. ASSUME /\ s.m_is_connecting /\ ~s.m_is_connected /\ s.attempt = "none" /\ ~s.waiting["reconnect"]
               /\ ~Has(s.queue, "attempt") /\ ~Has(s.queue, "reconnect") /\ InOrder(s.queue)
        PROVE  Consistent(r)
    BY <1>1, <2>1, <2>3 DEF Consistent
  <2>4. QED
    BY <1>2, <1>4, <2>1, <2>2, <2>3 DEF r
<1>5. QED
  BY <1>3, <1>4

\* The client connects, with no attempt running.
LEMMA ConnectKeeps ==
  ASSUME NEW s \in ClientState
  PROVE  LET r == Connect(s) IN
         /\ r \in ClientState /\ Tries(r) /\ (Beats(s) => Beats(r))
         /\ Consistent(s) /\ ~s.m_is_connecting /\ ~s.m_is_connected /\ ~s.waiting["reconnect"] => Consistent(r)
<1> DEFINE r == Connect(s)
<1>1. /\ r \in ClientState /\ r.m_is_connecting /\ r.m_socket = "open" /\ r.attempt = "m_socket"
      /\ r.m_is_connected = s.m_is_connected /\ r.told = s.told
      /\ r.waiting["reconnect"] = s.waiting["reconnect"] /\ r.waiting["heart_beat"] = s.waiting["heart_beat"]
      /\ r.queue = IF s.attempt = "m_socket"
                   THEN Append(s.queue, [h |-> "attempt", err |-> TRUE]) ELSE s.queue
  BY ConnectDoes DEF Timer
<1> HIDE DEF r
<1>2. \A t : Fires(s.queue, t) => Fires(r.queue, t)
  BY <1>1, AbortedQueue DEF ClientState
<1>3. Tries(r) /\ (Beats(s) => Beats(r))
  BY <1>1, <1>2 DEF Tries, Beats, Ready
<1>4. ASSUME Consistent(s), ~s.m_is_connecting, ~s.m_is_connected, ~s.waiting["reconnect"] PROVE Consistent(r)
  <2>1. r.queue = s.queue
    BY <1>1, <1>4 DEF Consistent
  <2>2. QED
    BY <1>1, <1>4, <2>1 DEF Consistent
<1>5. QED
  BY <1>1, <1>3, <1>4 DEF r

\* The session of a connected client closes.
LEMMA SessionClosesKeeps ==
  ASSUME NEW s \in ClientState, s.m_is_connected
  PROVE  LET r == SessionCloses(s) IN
         /\ r \in ClientState /\ Tries(r) /\ Beats(r) /\ (Consistent(s) => Consistent(r))
<1> DEFINE r == SessionCloses(s)
<1>1. /\ r \in ClientState /\ r.m_is_connecting /\ r.m_socket = "open" /\ r.attempt = "m_socket"
      /\ ~r.m_is_connected /\ r.told = "close"
      /\ r.waiting["reconnect"] = s.waiting["reconnect"]
      /\ r.queue = IF s.attempt = "none" THEN s.queue
                   ELSE Append(s.queue, [h |-> "attempt", err |-> TRUE])
  BY SessionClosesDoes
<1> HIDE DEF r
<1>2. Tries(r) /\ Beats(r)
  BY <1>1 DEF Tries, Beats
<1>3. ASSUME Consistent(s) PROVE Consistent(r)
  <2>1. s.attempt = "none" /\ ~s.m_is_connecting /\ ~s.waiting["reconnect"] /\ ~Has(s.queue, "reconnect")
    BY <1>3 DEF Consistent, ClientState
  <2>2. r.queue = s.queue
    BY <1>1, <2>1
  <2>3. QED
    BY <1>1, <1>3, <2>1, <2>2 DEF Consistent
<1>4. QED
  BY <1>1, <1>2, <1>3 DEF r

\* The socket of a running attempt closes.
LEMMA SocketClosesKeeps ==
  ASSUME NEW s \in ClientState
  PROVE  LET r == SocketCloses(s) IN
         /\ r \in ClientState /\ (Tries(s) => Tries(r)) /\ (Beats(s) => Beats(r))
         /\ r.m_is_connecting = s.m_is_connecting /\ r.m_is_connected = s.m_is_connected
         /\ r.m_auto_reconnect = s.m_auto_reconnect
         /\ Consistent(s) /\ s.m_is_connecting => Consistent(r)
<1> DEFINE r == SocketCloses(s)
           e == [h |-> "attempt", err |-> TRUE]
<1>1. /\ r \in ClientState /\ r.m_socket = "closed" /\ r.m_is_connecting = s.m_is_connecting
      /\ r.m_auto_reconnect = s.m_auto_reconnect /\ r.m_is_connected = s.m_is_connected
      /\ r.m_is_wait_connect = s.m_is_wait_connect /\ r.told = s.told /\ r.waiting = s.waiting
      /\ r.attempt = IF s.attempt = "m_socket" THEN "none" ELSE s.attempt
      /\ r.queue = IF s.attempt = "m_socket" THEN Append(s.queue, e) ELSE s.queue
  BY SocketClosesDoes
<1>2. s.queue \in Seq(Handler) /\ e \in Handler /\ e.h = "attempt"
  BY DEF ClientState, Handler
<1> HIDE DEF r, e
<1>3. /\ \A h : Has(Append(s.queue, e), h) <=> Has(s.queue, h) \/ e.h = h
      /\ InOrder(s.queue) /\ ~Has(s.queue, "attempt") => InOrder(Append(s.queue, e))
      /\ \A t : Fires(s.queue, t) => Fires(Append(s.queue, e), t)
  BY <1>2, AppendQueue
<1>4. (Tries(s) => Tries(r)) /\ (Beats(s) => Beats(r))
  BY <1>1, <1>3 DEF Tries, Beats, Ready
<1>5. ASSUME Consistent(s), s.m_is_connecting PROVE Consistent(r)
  <2>1. CASE s.attempt = "m_socket"
    <3>1. r.queue = Append(s.queue, e) /\ r.attempt = "none" /\ ~Has(s.queue, "attempt")
      BY <1>1, <1>5, <2>1 DEF Consistent
    <3>2. /\ InOrder(r.queue) /\ Has(r.queue, "attempt")
          /\ Has(r.queue, "reconnect") => Has(s.queue, "reconnect")
      BY <1>2, <1>3, <1>5, <3>1 DEF Consistent
    <3>3. QED
      BY <1>1, <1>5, <3>1, <3>2 DEF Consistent
  <2>2. CASE s.attempt # "m_socket"
    <3>1. r.queue = s.queue /\ r.attempt = s.attempt
      BY <1>1, <2>2
    <3>2. QED
      BY <1>1, <1>5, <3>1 DEF Consistent
  <2>3. QED
    BY <2>1, <2>2
<1>6. QED
  BY <1>1, <1>4, <1>5 DEF r

\* A timer other than the reconnect timer is set or cancelled.
LEMMA OtherTimerKeeps ==
  ASSUME NEW s \in ClientState, NEW r \in ClientState, SameFlags(r, s), r.attempt = s.attempt,
         r.waiting["reconnect"] = s.waiting["reconnect"], r.queue = s.queue
  PROVE  (Tries(s) => Tries(r)) /\ (Consistent(s) => Consistent(r))
BY DEF SameFlags, Tries, Ready, Consistent

\* on_send_heart_beat: only the handler of an expired wait may end the beat, and it
\* does not while connected.
LEMMA OnSendHeartBeatKeeps ==
  ASSUME NEW s \in ClientState, NEW err \in BOOLEAN, ~err \/ Beats(s)
  PROVE  LET r == OnSendHeartBeat(s, err) IN
         r \in ClientState /\ (Tries(s) => Tries(r)) /\ Beats(r) /\ (Consistent(s) => Consistent(r))
<1> DEFINE r == Arm(s, "heart_beat")
<1>1. /\ r \in ClientState /\ SameFlags(r, s) /\ r.attempt = s.attempt /\ r.waiting["heart_beat"]
      /\ r.waiting["reconnect"] = s.waiting["reconnect"] /\ r.queue = s.queue
  BY ArmDoes DEF Timer
<1>2. OnSendHeartBeat(s, err) = IF ~err /\ s.m_is_connected THEN r ELSE s
  BY DEF OnSendHeartBeat
<1> HIDE DEF r
<1>3. (Tries(s) => Tries(r)) /\ (Consistent(s) => Consistent(r)) /\ Beats(r)
  BY <1>1, OtherTimerKeeps DEF Beats, Ready
<1>4. ~s.m_is_connected => Beats(s)
  BY DEF Beats
<1>5. QED
  BY <1>1, <1>2, <1>3, <1>4

\* on_check_alive, which may close the session and connect again.
LEMMA OnCheckAliveKeeps ==
  ASSUME NEW s \in ClientState, NEW err \in BOOLEAN, NEW silent \in BOOLEAN
  PROVE  Kept(OnCheckAlive(s, err, silent), s)
<1> DEFINE d == IF silent THEN SessionCloses(s) ELSE s
           r == Arm(d, "alive")
<1>1. CASE err \/ ~s.m_is_connected
  BY <1>1 DEF OnCheckAlive, Kept
<1>2. CASE ~(err \/ ~s.m_is_connected)
  <2>1. d \in ClientState /\ (Tries(s) => Tries(d)) /\ (Beats(s) => Beats(d)) /\ (Consistent(s) => Consistent(d))
    BY <1>2, SessionClosesKeeps
  <2>2. OnCheckAlive(s, err, silent) = r
    BY <1>2 DEF OnCheckAlive
  <2> HIDE DEF d
  <2>3. /\ r \in ClientState /\ SameFlags(r, d) /\ r.attempt = d.attempt
        /\ r.waiting["reconnect"] = d.waiting["reconnect"]
        /\ r.waiting["heart_beat"] = d.waiting["heart_beat"] /\ r.queue = d.queue
    BY <2>1, ArmDoes DEF Timer
  <2> HIDE DEF r
  <2>4. (Tries(d) => Tries(r)) /\ (Consistent(d) => Consistent(r)) /\ (Beats(d) => Beats(r))
    BY <2>1, <2>3, OtherTimerKeeps DEF Beats, Ready, SameFlags
  <2>5. QED
    BY <2>1, <2>2, <2>3, <2>4 DEF Kept
<1>3. QED
  BY <1>1, <1>2

\* The client stops waiting to connect; the cancelled reconnect timer queues its handler.
LEMMA StopsWaiting ==
  ASSUME NEW s \in ClientState, NEW r \in ClientState, NEW b \in BOOLEAN,
         r.m_is_connecting = s.m_is_connecting, r.m_is_connected = s.m_is_connected,
         r.m_socket = s.m_socket, r.told = s.told, r.attempt = s.attempt, ~r.waiting["reconnect"],
         [h |-> "reconnect", err |-> TRUE] \in Handler,
         r.queue = IF b THEN Append(s.queue, [h |-> "reconnect", err |-> TRUE]) ELSE s.queue,
         ~s.m_is_connecting, ~s.m_is_connected, Consistent(s)
  PROVE  Consistent(r)
<1> DEFINE e == [h |-> "reconnect", err |-> TRUE]
<1>1. s.queue \in Seq(Handler) /\ e \in Handler /\ e.h = "reconnect"
  BY DEF ClientState
<1>2. r.queue = IF b THEN Append(s.queue, e) ELSE s.queue
  OBVIOUS
<1> HIDE DEF e
<1>3. ~Has(s.queue, "attempt")
  BY DEF Consistent
<1>4. /\ ~Has(Append(s.queue, e), "attempt")
      /\ InOrder(s.queue) => InOrder(Append(s.queue, e))
  BY <1>1, <1>3, AppendQueue
<1>5. ~Has(r.queue, "attempt") /\ InOrder(r.queue)
  BY <1>2, <1>3, <1>4 DEF Consistent
<1>6. QED
  BY <1>5 DEF Consistent

\* on_wait_reconnect: an expired wait connects, unless an attempt runs this keeps all
\* agreeing; a cancelled one only clears its flag.
LEMMA OnWaitReconnectKeeps ==
  ASSUME NEW s \in ClientState, NEW err \in BOOLEAN
  PROVE  LET r == OnWaitReconnect(s, err) IN
         /\ r \in ClientState /\ (~err \/ Tries(s) => Tries(r)) /\ (Beats(s) => Beats(r))
         /\ Consistent(s) /\ ~s.waiting["reconnect"] /\ ~s.m_is_connected /\ (err \/ ~s.m_is_connecting)
            => Consistent(r)
<1> DEFINE d == [s EXCEPT !.m_is_wait_connect = FALSE]
<1>1. /\ d \in ClientState /\ d.m_auto_reconnect = s.m_auto_reconnect
      /\ d.m_is_connecting = s.m_is_connecting /\ d.m_is_connected = s.m_is_connected
      /\ d.m_socket = s.m_socket /\ d.told = s.told /\ d.attempt = s.attempt
      /\ d.waiting = s.waiting /\ d.queue = s.queue
  BY DEF ClientState
<1>2. OnWaitReconnect(s, err) = IF err THEN d ELSE Connect(d)
  BY DEF OnWaitReconnect
<1> HIDE DEF d
<1>3. /\ (Tries(s) => Tries(d)) /\ (Beats(s) => Beats(d))
      /\ Consistent(s) /\ ~s.waiting["reconnect"] => Consistent(d)
  BY <1>1 DEF Tries, Beats, Ready, Consistent
<1>4. /\ Connect(d) \in ClientState /\ Tries(Connect(d)) /\ (Beats(d) => Beats(Connect(d)))
      /\ Consistent(d) /\ ~d.m_is_connecting /\ ~d.m_is_connected /\ ~d.waiting["reconnect"]
         => Consistent(Connect(d))
  BY <1>1, ConnectKeeps
<1>5. QED
  BY <1>1, <1>2, <1>3, <1>4

\* on_connect_timeout closes the socket of a running attempt.
LEMMA OnConnectTimeoutKeeps ==
  ASSUME NEW s \in ClientState, NEW err \in BOOLEAN
  PROVE  Kept(OnConnectTimeout(s, err), s)
<1>1. CASE ~err /\ s.m_socket = "open"
  <2>1. Consistent(s) => s.m_is_connecting
    BY <1>1 DEF Consistent
  <2>2. OnConnectTimeout(s, err) = SocketCloses(s)
    BY <1>1 DEF OnConnectTimeout
  <2>3. QED
    BY <2>1, <2>2, SocketClosesKeeps DEF Kept
<1>2. CASE ~(~err /\ s.m_socket = "open")
  BY <1>2 DEF OnConnectTimeout, Kept
<1>3. QED
  BY <1>1, <1>2

\* The user's wish to be connected changes nothing else.
LEMMA WishDoes ==
  ASSUME NEW s \in ClientState, NEW b \in BOOLEAN
  PROVE  LET d == [s EXCEPT !.m_auto_reconnect = b] IN
         /\ d \in ClientState /\ d.m_auto_reconnect = b /\ d.m_is_connecting = s.m_is_connecting
         /\ d.m_is_connected = s.m_is_connected /\ d.m_is_wait_connect = s.m_is_wait_connect
         /\ d.waiting = s.waiting /\ d.queue = s.queue
         /\ (Beats(s) => Beats(d)) /\ (Consistent(s) => Consistent(d))
<1> DEFINE d == [s EXCEPT !.m_auto_reconnect = b]
<1>1. /\ d \in ClientState /\ d.m_auto_reconnect = b /\ d.m_is_connecting = s.m_is_connecting
      /\ d.m_is_connected = s.m_is_connected /\ d.m_is_wait_connect = s.m_is_wait_connect
      /\ d.m_socket = s.m_socket /\ d.told = s.told /\ d.attempt = s.attempt
      /\ d.waiting = s.waiting /\ d.queue = s.queue
  BY DEF ClientState
<1> HIDE DEF d
<1>2. (Beats(s) => Beats(d)) /\ (Consistent(s) => Consistent(d))
  BY <1>1 DEF Beats, Ready, Consistent
<1>3. QED
  BY <1>1, <1>2 DEF d

\* do_connect: it closes the session or the socket of a running attempt, or stops
\* waiting and connects.
LEMMA DoConnectKeeps ==
  ASSUME NEW s \in ClientState
  PROVE  LET r == DoConnect(s) IN
         /\ r \in ClientState /\ Tries(r) /\ (Beats(s) => Beats(r)) /\ (Consistent(s) => Consistent(r))
<1> DEFINE d == [s EXCEPT !.m_auto_reconnect = TRUE]
           w == [Cancel(d, "reconnect") EXCEPT !.m_is_wait_connect = FALSE]
<1>1. /\ d \in ClientState /\ (Beats(s) => Beats(d)) /\ (Consistent(s) => Consistent(d))
  BY WishDoes
<1>2. DoConnect(s) = IF d.m_is_connected THEN SessionCloses(d)
                     ELSE IF d.m_is_connecting THEN SocketCloses(d)
                     ELSE Connect(IF d.m_is_wait_connect THEN w ELSE d)
  BY DEF DoConnect
<1> HIDE DEF d
<1>3. CASE d.m_is_connected
  BY <1>1, <1>2, <1>3, SessionClosesKeeps
<1>4. CASE ~d.m_is_connected /\ d.m_is_connecting
  <2>1. Tries(d)
    BY <1>4 DEF Tries
  <2>2. QED
    BY <1>1, <1>2, <1>4, <2>1, SocketClosesKeeps
<1>5. CASE ~d.m_is_connected /\ ~d.m_is_connecting
  <2> DEFINE v == Cancel(d, "reconnect")
             e == IF d.m_is_wait_connect THEN w ELSE d
  <2>1. /\ v \in ClientState /\ SameFlags(v, d) /\ v.attempt = d.attempt /\ ~v.waiting["reconnect"]
        /\ v.waiting["heart_beat"] = d.waiting["heart_beat"]
        /\ [h |-> "reconnect", err |-> TRUE] \in Handler
        /\ v.queue = IF d.waiting["reconnect"]
                     THEN Append(d.queue, [h |-> "reconnect", err |-> TRUE]) ELSE d.queue
    BY <1>1, CancelDoes DEF Timer
  <2>2. w = [v EXCEPT !.m_is_wait_connect = FALSE]
    OBVIOUS
  <2> HIDE DEF v, w
  <2>3. /\ w \in ClientState /\ w.m_is_connecting = v.m_is_connecting /\ w.m_is_connected = v.m_is_connected
        /\ w.m_socket = v.m_socket /\ w.told = v.told /\ w.attempt = v.attempt
        /\ w.waiting = v.waiting /\ w.queue = v.queue
    BY <2>1, <2>2 DEF ClientState
  <2>4. d.waiting["reconnect"] \in BOOLEAN
    BY <1>1 DEF ClientState, Timer
  <2>5. Consistent(d) => Consistent(w)
    <3>1. SUFFICES ASSUME Consistent(d) PROVE Consistent(w)
      OBVIOUS
    <3>2. /\ w.m_is_connecting = d.m_is_connecting /\ w.m_is_connected = d.m_is_connected
          /\ w.m_socket = d.m_socket /\ w.told = d.told /\ w.attempt = d.attempt /\ ~w.waiting["reconnect"]
          /\ w.queue = IF d.waiting["reconnect"]
                       THEN Append(d.queue, [h |-> "reconnect", err |-> TRUE]) ELSE d.queue
      BY <2>1, <2>3 DEF SameFlags
    <3>3. QED
      BY <1>1, <1>5, <2>1, <2>3, <2>4, <3>1, <3>2, StopsWaiting
  <2>6. /\ e \in ClientState /\ (Consistent(d) => Consistent(e))
        /\ ~e.m_is_connecting /\ ~e.m_is_connected
        /\ Consistent(d) => ~e.waiting["reconnect"]
    <3>1. CASE d.m_is_wait_connect
      BY <1>5, <2>1, <2>3, <2>5, <3>1 DEF SameFlags
    <3>2. CASE ~d.m_is_wait_connect
      BY <1>1, <1>5, <3>2 DEF Consistent
    <3>3. QED
      BY <3>1, <3>2
  <2>7. Beats(e)
    BY <2>6 DEF Beats
  <2>8. DoConnect(s) = Connect(e)
    BY <1>2, <1>5
  <2> HIDE DEF e
  <2>9. QED
    BY <1>1, <2>6, <2>7, <2>8, ConnectKeeps
<1>6. QED
  BY <1>3, <1>4, <1>5

\* do_close_client: it closes what there is and cancels the other timers.
LEMMA DoCloseClientKeeps ==
  ASSUME NEW s \in ClientState
  PROVE  LET r == DoCloseClient(s) IN
         /\ r \in ClientState /\ Tries(r) /\ Beats(r) /\ (Consistent(s) => Consistent(r))
<1> DEFINE d == [s EXCEPT !.m_auto_reconnect = FALSE]
           v == [d EXCEPT !.m_is_wait_connect = FALSE]
           w == Cancel(v, "reconnect")
           e == IF d.m_is_connected THEN SessionCloses(d)
                ELSE IF d.m_is_connecting THEN SocketCloses(d)
                ELSE IF d.m_is_wait_connect THEN w ELSE d
           f == Cancel(e, "connect")
           g == Cancel(f, "heart_beat")
           r == Cancel(g, "alive")
<1>1. DoCloseClient(s) = r
  BY DEF DoCloseClient
<1>2. /\ d \in ClientState /\ d.m_auto_reconnect = FALSE /\ (Consistent(s) => Consistent(d))
  BY WishDoes
<1> HIDE DEF d
<1>3. /\ e \in ClientState /\ e.m_auto_reconnect = FALSE /\ e.m_is_connected = FALSE
      /\ Consistent(d) => Consistent(e)
  <2>1. CASE d.m_is_connected
    <3>1. SessionCloses(d).m_auto_reconnect = d.m_auto_reconnect /\ ~SessionCloses(d).m_is_connected
      BY <1>2, SessionClosesDoes
    <3>2. SessionCloses(d) \in ClientState /\ (Consistent(d) => Consistent(SessionCloses(d)))
      BY <1>2, <2>1, SessionClosesKeeps
    <3>3. SessionCloses(d).m_is_connected \in BOOLEAN
      BY <3>2 DEF ClientState
    <3>4. QED
      BY <1>2, <2>1, <3>1, <3>2, <3>3
  <2>2. CASE ~d.m_is_connected /\ d.m_is_connecting
    <3>1. /\ SocketCloses(d) \in ClientState /\ (Consistent(d) => Consistent(SocketCloses(d)))
          /\ SocketCloses(d).m_auto_reconnect = d.m_auto_reconnect
          /\ SocketCloses(d).m_is_connected = d.m_is_connected
      BY <1>2, <2>2, SocketClosesKeeps
    <3>2. d.m_is_connected = FALSE
      BY <1>2, <2>2 DEF ClientState
    <3>3. QED
      BY <1>2, <2>2, <3>1, <3>2
  <2>3. CASE ~d.m_is_connected /\ ~d.m_is_connecting /\ d.m_is_wait_connect
    <3>1. /\ v \in ClientState /\ v.m_auto_reconnect = d.m_auto_reconnect
          /\ v.m_is_connecting = d.m_is_connecting /\ v.m_is_connected = d.m_is_connected
          /\ v.m_socket = d.m_socket /\ v.told = d.told /\ v.attempt = d.attempt
          /\ v.waiting = d.waiting /\ v.queue = d.queue
      BY <1>2 DEF ClientState
    <3> HIDE DEF v
    <3>2. /\ w \in ClientState /\ SameFlags(w, v) /\ w.attempt = v.attempt /\ ~w.waiting["reconnect"]
          /\ [h |-> "reconnect", err |-> TRUE] \in Handler
          /\ w.queue = IF v.waiting["reconnect"]
                       THEN Append(v.queue, [h |-> "reconnect", err |-> TRUE]) ELSE v.queue
      BY <3>1, CancelDoes DEF Timer
    <3> HIDE DEF w
    <3>3. d.waiting["reconnect"] \in BOOLEAN
      BY <1>2 DEF ClientState, Timer
    <3>4. /\ w.m_auto_reconnect = d.m_auto_reconnect
          /\ w.m_is_connecting = d.m_is_connecting /\ w.m_is_connected = d.m_is_connected
          /\ w.m_socket = d.m_socket /\ w.told = d.told /\ w.attempt = d.attempt /\ ~w.waiting["reconnect"]
          /\ w.queue = IF d.waiting["reconnect"]
                       THEN Append(d.queue, [h |-> "reconnect", err |-> TRUE]) ELSE d.queue
      BY <3>1, <3>2 DEF SameFlags
    <3>5. Consistent(d) => Consistent(w)
      BY <1>2, <2>3, <3>2, <3>3, <3>4, StopsWaiting
    <3>6. d.m_is_connected = FALSE
      BY <1>2, <2>3 DEF ClientState
    <3>7. QED
      BY <1>2, <2>3, <3>2, <3>4, <3>5, <3>6
  <2>4. CASE ~d.m_is_connected /\ ~d.m_is_connecting /\ ~d.m_is_wait_connect
    BY <1>2, <2>4 DEF ClientState
  <2>5. QED
    BY <2>1, <2>2, <2>3, <2>4
<1> HIDE DEF e
<1>4. /\ f \in ClientState /\ SameFlags(f, e) /\ f.attempt = e.attempt
      /\ f.waiting["reconnect"] = e.waiting["reconnect"] /\ f.queue = e.queue
  BY <1>3, CancelDoes DEF Timer
<1> HIDE DEF f
<1>5. /\ g \in ClientState /\ SameFlags(g, f) /\ g.attempt = f.attempt
      /\ g.waiting["reconnect"] = f.waiting["reconnect"] /\ g.queue = f.queue
  BY <1>4, CancelDoes DEF Timer
<1> HIDE DEF g
<1>6. /\ r \in ClientState /\ SameFlags(r, g) /\ r.attempt = g.attempt
      /\ r.waiting["reconnect"] = g.waiting["reconnect"] /\ r.queue = g.queue
  BY <1>5, CancelDoes DEF Timer
<1> HIDE DEF r
<1>7. /\ r.m_auto_reconnect = FALSE /\ r.m_is_connected = FALSE
  BY <1>3, <1>4, <1>5, <1>6 DEF SameFlags
<1>8. Consistent(e) => Consistent(r)
  BY <1>3, <1>4, <1>5, <1>6, OtherTimerKeeps
<1>9. Tries(r) /\ Beats(r)
  BY <1>7 DEF Tries, Beats
<1>10. QED
  BY <1>1, <1>2, <1>3, <1>6, <1>8, <1>9

-------------------------------------------------------------------------------
(* What happens outside the loop.                                          *)

\* connect or close_client of another thread is posted to the loop.
LEMMA PostKeeps ==
  ASSUME c \in ClientState, NEW h \in {"do_connect", "do_close_client"}
  PROVE  Kept(Queue(c, h, FALSE), c)
<1> DEFINE r == Queue(c, h, FALSE)
           e == [h |-> h, err |-> FALSE]
<1>1. /\ r \in ClientState /\ SameFlags(r, c) /\ r.attempt = c.attempt /\ r.waiting = c.waiting
      /\ e \in Handler /\ r.queue = Append(c.queue, e)
  BY QueueDoes
<1>2. c.queue \in Seq(Handler) /\ e.h \notin {"attempt", "reconnect"}
  BY DEF ClientState
<1> HIDE DEF r, e
<1>3. /\ \A k : Has(Append(c.queue, e), k) <=> Has(c.queue, k) \/ e.h = k
      /\ InOrder(c.queue) => InOrder(Append(c.queue, e))
      /\ \A t : Fires(c.queue, t) => Fires(Append(c.queue, e), t)
  BY <1>1, <1>2, AppendQueue
<1>4. (Tries(c) => Tries(r)) /\ (Beats(c) => Beats(r))
  BY <1>1, <1>3 DEF Tries, Beats, Ready, SameFlags
<1>5. /\ Has(r.queue, "attempt") <=> Has(c.queue, "attempt")
      /\ Has(r.queue, "reconnect") <=> Has(c.queue, "reconnect")
  BY <1>1, <1>2, <1>3
<1>6. Consistent(c) => Consistent(r)
  BY <1>1, <1>3, <1>5 DEF Consistent, SameFlags
<1>7. QED
  BY <1>1, <1>4, <1>6 DEF Kept, r

\* A timer expires: its handler takes the place of the wait.
LEMMA ExpireKeeps ==
  ASSUME c \in ClientState, NEW t \in Timer, Expire(t)
  PROVE  Kept(c', c)
<1> DEFINE v == [c EXCEPT !.waiting[t] = FALSE]
           r == Queue(v, t, FALSE)
           e == [h |-> t, err |-> FALSE]
<1>1. /\ v \in ClientState /\ SameFlags(v, c) /\ v.attempt = c.attempt /\ v.queue = c.queue
      /\ v.waiting[t] = FALSE /\ \A u \in Timer \ {t} : v.waiting[u] = c.waiting[u]
  BY WaitDoes
<1>2. c.waiting[t] /\ c' = r
  BY DEF Expire
<1> HIDE DEF v
<1>3. /\ r \in ClientState /\ SameFlags(r, v) /\ r.attempt = v.attempt /\ r.waiting = v.waiting
      /\ e \in Handler /\ r.queue = Append(v.queue, e)
  BY <1>1, QueueDoes
<1>4. c.queue \in Seq(Handler) /\ e.h = t /\ e.err = FALSE /\ t # "attempt" /\ "reconnect" \in Timer
      /\ "heart_beat" \in Timer
  BY DEF ClientState, Timer
<1> HIDE DEF r, e
<1>5. /\ \A k : Has(Append(c.queue, e), k) <=> Has(c.queue, k) \/ e.h = k
      /\ InOrder(c.queue) /\ (t = "reconnect" => ~Has(c.queue, "attempt")) => InOrder(Append(c.queue, e))
      /\ \A u : Fires(c.queue, u) => Fires(Append(c.queue, e), u)
      /\ Fires(Append(c.queue, e), t)
  BY <1>3, <1>4, AppendQueue
<1>6. r.queue = Append(c.queue, e)
  BY <1>1, <1>3
<1>7. \A u \in Timer : Ready(c, u) => Ready(r, u)
  BY <1>1, <1>3, <1>5, <1>6 DEF Ready
<1>8. (Tries(c) => Tries(r)) /\ (Beats(c) => Beats(r))
  BY <1>1, <1>3, <1>4, <1>7 DEF Tries, Beats, SameFlags
<1>9. ASSUME Consistent(c) PROVE Consistent(r)
  <2>1. Has(r.queue, "attempt") <=> Has(c.queue, "attempt")
    BY <1>4, <1>5, <1>6
  <2>2. CASE t = "reconnect"
    <3>1. ~c.m_is_connecting /\ ~c.m_is_connected /\ ~Has(c.queue, "attempt")
      BY <1>2, <1>9, <2>2 DEF Consistent
    <3>2. InOrder(r.queue)
      BY <1>5, <1>6, <1>9, <3>1 DEF Consistent
    <3>3. QED
      BY <1>1, <1>3, <1>9, <2>1, <2>2, <3>1, <3>2 DEF Consistent, SameFlags
  <2>3. CASE t # "reconnect"
    <3>1. InOrder(r.queue) /\ (Has(r.queue, "reconnect") <=> Has(c.queue, "reconnect"))
      BY <1>4, <1>5, <1>6, <1>9, <2>3 DEF Consistent
    <3>2. r.waiting["reconnect"] = c.waiting["reconnect"]
      BY <1>1, <1>3, <1>4, <2>3
    <3>3. QED
      BY <1>1, <1>3, <1>9, <2>1, <3>1, <3>2 DEF Consistent, SameFlags
  <2>4. QED
    BY <2>2, <2>3
<1>10. QED
  BY <1>2, <1>3, <1>8, <1>9 DEF Kept

\* An attempt completes: its handler takes the place of the attempt.
LEMMA AttemptCompletesKeeps ==
  ASSUME c \in ClientState, NEW err \in BOOLEAN, AttemptCompletes(err)
  PROVE  Kept(c', c)
<1> DEFINE v == [c EXCEPT !.attempt = "none"]
           r == Queue(v, "attempt", err)
           e == [h |-> "attempt", err |-> err]
<1>1. /\ v \in ClientState /\ SameFlags(v, c) /\ v.attempt = "none" /\ v.waiting = c.waiting
      /\ v.queue = c.queue
  BY DEF ClientState, SameFlags
<1>2. c.attempt # "none" /\ c' = r
  BY DEF AttemptCompletes
<1> HIDE DEF v
<1>3. /\ r \in ClientState /\ SameFlags(r, v) /\ r.attempt = v.attempt /\ r.waiting = v.waiting
      /\ e \in Handler /\ r.queue = Append(v.queue, e)
  BY <1>1, QueueDoes
<1>4. c.queue \in Seq(Handler) /\ e.h = "attempt" /\ c.attempt \in {"none", "m_socket", "session"}
  BY DEF ClientState
<1> HIDE DEF r, e
<1>5. /\ \A k : Has(Append(c.queue, e), k) <=> Has(c.queue, k) \/ e.h = k
      /\ InOrder(c.queue) /\ ~Has(c.queue, "attempt") => InOrder(Append(c.queue, e))
      /\ \A u : Fires(c.queue, u) => Fires(Append(c.queue, e), u)
  BY <1>3, <1>4, AppendQueue
<1>6. r.queue = Append(c.queue, e)
  BY <1>1, <1>3
<1>7. (Tries(c) => Tries(r)) /\ (Beats(c) => Beats(r))
  BY <1>1, <1>3, <1>5, <1>6 DEF Tries, Beats, Ready, SameFlags
<1>8. ASSUME Consistent(c) PROVE Consistent(r)
  <2>1. c.m_is_connecting /\ ~Has(c.queue, "attempt")
    BY <1>2, <1>4, <1>8 DEF Consistent
  <2>2. /\ Has(r.queue, "attempt") /\ InOrder(r.queue)
        /\ Has(r.queue, "reconnect") <=> Has(c.queue, "reconnect")
    BY <1>4, <1>5, <1>6, <1>8, <2>1 DEF Consistent
  <2>3. QED
    BY <1>1, <1>3, <1>8, <2>1, <2>2 DEF Consistent, SameFlags
<1>9. QED
  BY <1>2, <1>3, <1>7, <1>8 DEF Kept

-------------------------------------------------------------------------------
(* The loop.                                                               *)

\* Taking the handler at the head keeps everything but what that handler stood for.
LEMMA TakeHeadKeeps ==
  ASSUME c \in ClientState, c.queue # <<>>
  PROVE  LET s == [c EXCEPT !.queue = Tail(@)]
             h == Head(c.queue).h
             err == Head(c.queue).err
         IN
         /\ s \in ClientState /\ SameFlags(s, c) /\ Head(c.queue) \in Handler
         /\ h # "reconnect" \/ err => (Tries(c) => Tries(s))
         /\ h # "heart_beat" \/ err => (Beats(c) => Beats(s))
         /\ h # "attempt" => (Consistent(c) => Consistent(s))
         /\ h = "reconnect" /\ Consistent(c) => ~s.m_is_connected /\ ~s.waiting["reconnect"]
         /\ h = "attempt" /\ Consistent(c) =>
              /\ s.m_is_connecting /\ ~s.m_is_connected /\ s.attempt = "none" /\ ~s.waiting["reconnect"]
              /\ ~Has(s.queue, "attempt") /\ ~Has(s.queue, "reconnect") /\ InOrder(s.queue)
<1> DEFINE s == [c EXCEPT !.queue = Tail(@)]
           q == c.queue
<1>1. /\ s \in ClientState /\ SameFlags(s, c) /\ s.attempt = c.attempt /\ s.waiting = c.waiting
      /\ s.queue = Tail(q) /\ q \in Seq(Handler)
  BY TakeHead
<1> HIDE DEF s
<1>2. /\ Head(q) \in Handler
      /\ \A k : Has(Tail(q), k) => Has(q, k)
      /\ \A k : Has(q, k) => Has(Tail(q), k) \/ Head(q).h = k
      /\ Has(q, Head(q).h)
      /\ InOrder(q) => InOrder(Tail(q))
      /\ InOrder(q) /\ Head(q).h = "attempt" => ~Has(Tail(q), "attempt") /\ ~Has(Tail(q), "reconnect")
      /\ \A t : Fires(q, t) => Fires(Tail(q), t) \/ Head(q) = [h |-> t, err |-> FALSE]
  BY <1>1, TailQueue
<1> DEFINE h == Head(q).h
           err == Head(q).err
<1>3. \A t : Head(q) = [h |-> t, err |-> FALSE] => h = t /\ err = FALSE
  OBVIOUS
<1> HIDE DEF h, err
<1>4. ASSUME h # "reconnect" \/ err, Tries(c) PROVE Tries(s)
  BY <1>1, <1>2, <1>3, <1>4 DEF Tries, Ready, SameFlags
<1>5. ASSUME h # "heart_beat" \/ err, Beats(c) PROVE Beats(s)
  BY <1>1, <1>2, <1>3, <1>5 DEF Beats, Ready, SameFlags
<1>6. ASSUME h # "attempt", Consistent(c) PROVE Consistent(s)
  <2>1. /\ Has(s.queue, "attempt") <=> Has(q, "attempt")
        /\ Has(s.queue, "reconnect") => Has(q, "reconnect")
        /\ InOrder(s.queue)
    BY <1>1, <1>2, <1>6 DEF Consistent, h
  <2>2. QED
    BY <1>1, <1>6, <2>1 DEF Consistent, SameFlags
<1>7. ASSUME h = "reconnect", Consistent(c) PROVE ~s.m_is_connected /\ ~s.waiting["reconnect"]
  BY <1>1, <1>2, <1>7 DEF Consistent, SameFlags, h
<1>8. ASSUME h = "attempt", Consistent(c)
      PROVE  /\ s.m_is_connecting /\ ~s.m_is_connected /\ s.attempt = "none" /\ ~s.waiting["reconnect"]
             /\ ~Has(s.queue, "attempt") /\ ~Has(s.queue, "reconnect") /\ InOrder(s.queue)
  <2>1. Has(q, "attempt") /\ InOrder(q)
    BY <1>2, <1>8 DEF Consistent, h
  <2>2. c.m_is_connecting /\ ~c.m_is_connected /\ c.attempt = "none" /\ ~c.waiting["reconnect"]
    BY <1>8, <2>1 DEF Consistent
  <2>3. ~Has(s.queue, "attempt") /\ ~Has(s.queue, "reconnect") /\ InOrder(s.queue)
    BY <1>1, <1>2, <1>8, <2>1 DEF h
  <2>4. QED
    BY <1>1, <2>2, <2>3 DEF SameFlags
<1>9. QED
  BY <1>1, <1>2, <1>4, <1>5, <1>6, <1>7, <1>8 DEF s, h, err

\* One handler of the loop keeps the invariant.  Only the handler of an expired
\* reconnect timer that finds an attempt running ends the agreement, and then stale
\* says so.
LEMMA RunHandlerIInv ==
  ASSUME IInv, ~crashed, RunHandler
  PROVE  IInv'
<1> DEFINE s == [c EXCEPT !.queue = Tail(@)]
           h == Head(c.queue).h
           err == Head(c.queue).err
<1>1. c \in ClientState /\ c.queue # <<>> /\ (~stale => Consistent(c)) /\ Beats(c) /\ Tries(c)
  BY DEF IInv, TypeOK, RunHandler
<1>2. /\ s \in ClientState /\ SameFlags(s, c) /\ Head(c.queue) \in Handler
      /\ h # "reconnect" \/ err => (Tries(c) => Tries(s))
      /\ h # "heart_beat" \/ err => (Beats(c) => Beats(s))
      /\ h # "attempt" => (Consistent(c) => Consistent(s))
      /\ h = "reconnect" /\ Consistent(c) => ~s.m_is_connected /\ ~s.waiting["reconnect"]
      /\ h = "attempt" /\ Consistent(c) =>
           /\ s.m_is_connecting /\ ~s.m_is_connected /\ s.attempt = "none" /\ ~s.waiting["reconnect"]
           /\ ~Has(s.queue, "attempt") /\ ~Has(s.queue, "reconnect") /\ InOrder(s.queue)
  BY <1>1, TakeHeadKeeps
<1>3. /\ connectCalls' = connectCalls /\ closeCalls' = closeCalls
      /\ stale \in BOOLEAN /\ crashed \in BOOLEAN /\ (crashed => stale)
      /\ connectCalls \in 0..MaxConnectCalls /\ closeCalls \in 0..MaxCloseCalls
  BY DEF IInv, TypeOK, RunHandler, NullSocketOnlyIfStale
<1>4. err \in BOOLEAN
  BY <1>2 DEF Handler
<1>5. \/ NullSocket(s, h) /\ crashed' = TRUE /\ UNCHANGED <<c, stale>>
      \/ /\ \/ h = "attempt"         /\ c' = OnConnectComplete(s, err)
            \/ h = "reconnect"       /\ c' = OnWaitReconnect(s, err)
            \/ h = "connect"         /\ c' = OnConnectTimeout(s, err)
            \/ h = "heart_beat"      /\ c' = OnSendHeartBeat(s, err)
            \/ h = "alive"           /\ \E silent \in BOOLEAN : c' = OnCheckAlive(s, err, silent)
            \/ h = "do_connect"      /\ c' = DoConnect(s)
            \/ h = "do_close_client" /\ c' = DoCloseClient(s)
         /\ stale' = (stale \/ (h = "reconnect" /\ ~err /\ s.m_is_connecting))
         /\ crashed' = crashed
  BY DEF RunHandler
<1> HIDE DEF s, h, err
<1>6. CASE NullSocket(s, h) /\ crashed' = TRUE /\ UNCHANGED <<c, stale>>
  <2>1. ASSUME Consistent(c) PROVE FALSE
    <3>1. CASE h = "attempt"
      BY <1>2, <1>6, <2>1, <3>1 DEF NullSocket, Consistent, SameFlags
    <3>2. CASE h # "attempt"
      BY <1>2, <1>6, <2>1, <3>2 DEF NullSocket, Consistent, SameFlags
    <3>3. QED
      BY <3>1, <3>2
  <2>2. Beats(c)'
    BY <1>1, <1>6 DEF Beats, Ready, Fires
  <2>3. stale /\ stale' /\ crashed' /\ c' = c
    BY <1>1, <1>6, <2>1
  <2>4. QED
    BY <1>1, <1>3, <2>2, <2>3 DEF IInv, TypeOK, NullSocketOnlyIfStale
<1>7. CASE /\ \/ h = "attempt"         /\ c' = OnConnectComplete(s, err)
              \/ h = "reconnect"       /\ c' = OnWaitReconnect(s, err)
              \/ h = "connect"         /\ c' = OnConnectTimeout(s, err)
              \/ h = "heart_beat"      /\ c' = OnSendHeartBeat(s, err)
              \/ h = "alive"           /\ \E silent \in BOOLEAN : c' = OnCheckAlive(s, err, silent)
              \/ h = "do_connect"      /\ c' = DoConnect(s)
              \/ h = "do_close_client" /\ c' = DoCloseClient(s)
           /\ stale' = (stale \/ (h = "reconnect" /\ ~err /\ s.m_is_connecting))
           /\ crashed' = crashed
  <2>1. /\ c' \in ClientState /\ Tries(c') /\ Beats(c')
        /\ Consistent(c) /\ ~stale' => Consistent(c')
    <3>1. CASE h = "attempt" /\ c' = OnConnectComplete(s, err)
      BY <1>1, <1>2, <1>4, <3>1, OnConnectCompleteKeeps
    <3>2. CASE h = "reconnect" /\ c' = OnWaitReconnect(s, err)
      <4>1. ~stale' => err \/ ~s.m_is_connecting
        BY <1>7, <3>2
      <4>2. QED
        BY <1>1, <1>2, <1>4, <3>2, <4>1, OnWaitReconnectKeeps
    <3>3. CASE h = "connect" /\ c' = OnConnectTimeout(s, err)
      BY <1>1, <1>2, <1>4, <3>3, OnConnectTimeoutKeeps DEF Kept
    <3>4. CASE h = "heart_beat" /\ c' = OnSendHeartBeat(s, err)
      BY <1>1, <1>2, <1>4, <3>4, OnSendHeartBeatKeeps
    <3>5. CASE h = "alive" /\ \E silent \in BOOLEAN : c' = OnCheckAlive(s, err, silent)
      BY <1>1, <1>2, <1>4, <3>5, OnCheckAliveKeeps DEF Kept
    <3>6. CASE h = "do_connect" /\ c' = DoConnect(s)
      BY <1>1, <1>2, <3>6, DoConnectKeeps
    <3>7. CASE h = "do_close_client" /\ c' = DoCloseClient(s)
      BY <1>1, <1>2, <3>7, DoCloseClientKeeps
    <3>8. QED
      BY <1>7, <3>1, <3>2, <3>3, <3>4, <3>5, <3>6, <3>7
  <2>2. stale' \in BOOLEAN /\ (stale => stale') /\ crashed' = crashed
    BY <1>3, <1>7
  <2>3. Consistent(c)' <=> Consistent(c')
    BY DEF Consistent, InOrder, Has
  <2>4. Beats(c)' /\ Tries(c)'
    BY <2>1 DEF Beats, Tries, Ready, Fires
  <2>5. ~stale' => Consistent(c)'
    BY <1>1, <2>1, <2>2, <2>3
  <2>6. QED
    BY <1>3, <2>1, <2>2, <2>4, <2>5 DEF IInv, TypeOK, NullSocketOnlyIfStale
<1>8. QED
  BY <1>5, <1>6, <1>7

-------------------------------------------------------------------------------
(* The theorems.                                                           *)

\* The client starts unconnected, with an empty loop.
LEMMA InitIInv == Init => IInv
<1> SUFFICES ASSUME Init PROVE IInv
  OBVIOUS
<1>1. c.queue = <<>> /\ ~Has(c.queue, "attempt") /\ ~Has(c.queue, "reconnect") /\ InOrder(c.queue)
  BY DEF Init, Has, InOrder
<1>2. <<>> \in Seq(Handler) /\ "reconnect" \in Timer /\ [t \in Timer |-> FALSE] \in [Timer -> BOOLEAN]
  BY DEF Timer
<1>3. c \in ClientState
  BY <1>2 DEF Init, ClientState
<1>4. TypeOK
  <2>1. MaxConnectCalls \in Nat /\ MaxCloseCalls \in Nat
    BY BoundsAreNat
  <2>2. 0 \in 0..MaxConnectCalls /\ 0 \in 0..MaxCloseCalls
    BY <2>1
  <2>3. QED
    BY <1>3, <2>2 DEF Init, TypeOK
<1>5. ~c.waiting["reconnect"]
  BY <1>2 DEF Init
<1>6. Consistent(c)
  BY <1>1, <1>5 DEF Init, Consistent
<1>7. QED
  BY <1>4, <1>6 DEF IInv, Init, NullSocketOnlyIfStale, Beats, Tries

\* Every step keeps the invariant.
LEMMA NextIInv == IInv /\ [Next]_vars => IInv'
<1> SUFFICES ASSUME IInv, [Next]_vars PROVE IInv'
  OBVIOUS
<1>1. /\ c \in ClientState /\ stale \in BOOLEAN /\ crashed \in BOOLEAN
      /\ connectCalls \in 0..MaxConnectCalls /\ closeCalls \in 0..MaxCloseCalls
      /\ (crashed => stale) /\ (~stale => Consistent(c)) /\ Beats(c) /\ (~crashed => Tries(c))
  BY DEF IInv, TypeOK, NullSocketOnlyIfStale
<1>2. /\ Consistent(c)' <=> Consistent(c')
      /\ Beats(c)' <=> Beats(c')
      /\ Tries(c)' <=> Tries(c')
  BY DEF Consistent, InOrder, Has, Beats, Tries, Ready, Fires
<1>3. ASSUME Kept(c', c), stale' = stale, crashed' = crashed,
             connectCalls' \in 0..MaxConnectCalls, closeCalls' \in 0..MaxCloseCalls
      PROVE  IInv'
  BY <1>1, <1>2, <1>3 DEF Kept, IInv, TypeOK, NullSocketOnlyIfStale
<1>4. CASE ~crashed /\ RunHandler
  BY <1>4, RunHandlerIInv
<1>5. CASE UserConnects
  <2>1. connectCalls' \in 0..MaxConnectCalls /\ closeCalls' = closeCalls /\ stale' = stale /\ crashed' = crashed
    BY <1>1, <1>5, BoundsAreNat DEF UserConnects
  <2>2. Kept(c', c)
    BY <1>1, <1>5, PostKeeps DEF UserConnects
  <2>3. QED
    BY <1>1, <1>3, <2>1, <2>2
<1>6. CASE UserCloses
  <2>1. closeCalls' \in 0..MaxCloseCalls /\ connectCalls' = connectCalls /\ stale' = stale /\ crashed' = crashed
    BY <1>1, <1>6, BoundsAreNat DEF UserCloses
  <2>2. Kept(c', c)
    BY <1>1, <1>6, PostKeeps DEF UserCloses
  <2>3. QED
    BY <1>1, <1>3, <2>1, <2>2
<1>7. CASE SessionFails
  <2>1. /\ c.m_is_connected /\ c' = SessionCloses(c) /\ stale' = stale /\ crashed' = crashed
        /\ connectCalls' = connectCalls /\ closeCalls' = closeCalls
    BY <1>7 DEF SessionFails
  <2>2. Kept(c', c)
    BY <1>1, <2>1, SessionClosesKeeps DEF Kept
  <2>3. QED
    BY <1>1, <1>3, <2>1, <2>2
<1>8. CASE \E t \in Timer : Expire(t)
  <2>1. PICK t \in Timer : Expire(t)
    BY <1>8
  <2>2. /\ stale' = stale /\ crashed' = crashed
        /\ connectCalls' = connectCalls /\ closeCalls' = closeCalls
    BY <2>1 DEF Expire
  <2>3. QED
    BY <1>1, <1>3, <2>1, <2>2, ExpireKeeps
<1>9. CASE \E err \in BOOLEAN : AttemptCompletes(err)
  <2>1. PICK err \in BOOLEAN : AttemptCompletes(err)
    BY <1>9
  <2>2. /\ stale' = stale /\ crashed' = crashed
        /\ connectCalls' = connectCalls /\ closeCalls' = closeCalls
    BY <2>1 DEF AttemptCompletes
  <2>3. QED
    BY <1>1, <1>3, <2>1, <2>2, AttemptCompletesKeeps
<1>10. CASE UNCHANGED vars
  <2>1. /\ c' = c /\ stale' = stale /\ crashed' = crashed
        /\ connectCalls' = connectCalls /\ closeCalls' = closeCalls
    BY <1>10 DEF vars
  <2>2. QED
    BY <1>1, <1>3, <2>1 DEF Kept
<1>11. QED
  BY <1>4, <1>5, <1>6, <1>7, <1>8, <1>9, <1>10 DEF Next

\* The invariant holds in every state.
THEOREM IInvAlways == Spec => []IInv
<1>1. Spec => SafeSpec
  BY DEF Spec
<1>2. QED
  BY <1>1, InitIInv, NextIInv, PTL DEF SafeSpec

\* What the client tells the upper layer and the server of its connection is so: told
\* open exactly while connected, and a heartbeat pending or due while connected, whatever
\* was cancelled before (on_send_heart_beat, close_session, do_close_client).
THEOREM ClientInvAlways == Spec => []ClientInv
<1>1. IInv => ClientInv
  BY DEF IInv, Consistent, Beats, Ready, Fires, ClientInv, ToldAgrees, HeartBeatRuns, Pending
<1>2. QED
  BY <1>1, IInvAlways, PTL

\* m_socket is used while null only after a stale reconnect handler has started an
\* attempt beside the running one.
THEOREM NullSocketNeedsStale == Spec => []NullSocketOnlyIfStale
<1>1. IInv => NullSocketOnlyIfStale
  BY DEF IInv
<1>2. QED
  BY <1>1, IInvAlways, PTL

\* Until then connecting, connected, the socket and the waiting flag describe one
\* connection (do_connect, on_connet_complete, register_connect_timer).
THEOREM FlagsAlwaysAgree == Spec => []FlagsAgree
<1>1. IInv => FlagsAgree
  BY DEF IInv, Consistent, FlagsAgree
<1>2. QED
  BY <1>1, IInvAlways, PTL

\* A client that is to stay connected is connected, is trying, or will try again, stale
\* handlers or not.
THEOREM NeverGivesUpAlways == Spec => []NeverGivesUp
<1>1. IInv => NeverGivesUp
  BY DEF IInv, Tries, Ready, Fires, NeverGivesUp, Pending
<1>2. QED
  BY <1>1, IInvAlways, PTL
===============================================================================
