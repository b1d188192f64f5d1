------------------------------- MODULE TcpServer -------------------------------
(***************************************************************************)
(* The accepted sessions of a server (libserver/TcpSession.cpp, Session.inl)*)
(* and the manager that owns their table (ServerSessionManager.cpp).       *)
(*                                                                         *)
(* The manager runs on one loop of the server's pool, every session on one *)
(* of the same pool, so a session may share the manager's loop: what they  *)
(* post to each other then runs at once, inside the poster (IoLoop::post). *)
(* Otherwise it waits in the other loop's queue.  The same holds of what   *)
(* the upper layer does with a session: on the session's own loop it is    *)
(* done at once, from another thread it is posted.  The upper layer sees   *)
(* only the notifications a session hands to its MessageTask: those of its *)
(* own and the requests read, as SessionContract names them.               *)
(*                                                                         *)
(* A completion of an asynchronous read or write is an action of its own:  *)
(* it may have been queued at any moment since the operation was started,  *)
(* so it can run before or after any posted handler.                       *)
(***************************************************************************)
EXTENDS Integers, Sequences, FiniteSets

CONSTANTS
  Session,        \* the sessions that may be accepted
  SameLoop,       \* those that run on the manager's loop
  SessionLimits,  \* the limits a server may be configured with
  INIT_SIZE,      \* first capacity of a send queue
  MAX_SIZE,       \* size above which a full send queue is not doubled any more
  PeerSends,      \* bound: the requests peers send, as SessionContract names them
  MaxRecv,        \* bound: requests received, by all sessions together
  MaxSend         \* bound: messages sent on one session

ASSUME SameLoopIsSession == SameLoop \subseteq Session
ASSUME SizesPositive == INIT_SIZE \in Nat \ {0} /\ MAX_SIZE \in Nat \ {0}
ASSUME LimitsAreNat == SessionLimits \cup {MaxRecv, MaxSend} \subseteq Nat

VARIABLES
  m_max_session_count, \* the configured limit
  managerLoop,      \* handlers queued on the manager's loop, [op, session]
  m_session_all,    \* the sessions in the table; m_session_id is their key
  m_session_id,     \* m_session_id[s]: 0 until added, -1 after removal
  m_current_session,\* the last id given
  status,           \* status[s]: "unborn", "accepted", "refused", "started"
  is_open,          \* is_open[s]: the socket is open
  alive,            \* alive[s]: m_alive_time + m_alive_interval > now
  sessionLoop,      \* sessionLoop[s]: handlers queued for s, [op, msg]
  reading,          \* reading[s]: part of a message being read, or "none"
  readable,         \* readable[s]: that read was started on an open socket
  m_send_queue,     \* m_send_queue[s]
  capacity,         \* capacity[s] of its circular buffer
  writing,          \* writing[s]: the message of the outstanding write, or 0
  wire,             \* wire[s]: messages written, in order
  sends,            \* sends[s]: messages 1..sends[s] were handed to send
  here,             \* history: here[s]: those sent on the session's own loop
  notified,         \* notified[s]: notifications to the MessageTask, in order
  crashed           \* the process ended in undefined behaviour

manager == <<m_session_all, m_session_id, m_current_session>>
socket  == <<is_open, alive>>
reader  == <<reading, readable>>
writer  == <<m_send_queue, capacity, writing, wire>>
vars == <<m_max_session_count, managerLoop, manager, status, socket, sessionLoop, reader, writer,
          sends, here, notified, crashed>>

Contract == INSTANCE SessionContract

ASSUME PeerSendsRead == PeerSends \subseteq Contract!Read

Part == {"len", "head", "body"}

Init ==
  /\ m_max_session_count \in SessionLimits
  /\ managerLoop = <<>>
  /\ m_session_all = {}
  /\ m_session_id = [s \in Session |-> 0]
  /\ m_current_session = 0
  /\ status = [s \in Session |-> "unborn"]
  /\ is_open = [s \in Session |-> FALSE]
  /\ alive = [s \in Session |-> FALSE]
  /\ sessionLoop = [s \in Session |-> <<>>]
  /\ reading = [s \in Session |-> "none"]
  /\ readable = [s \in Session |-> FALSE]
  /\ m_send_queue = [s \in Session |-> <<>>]
  /\ capacity = [s \in Session |-> INIT_SIZE]
  /\ writing = [s \in Session |-> 0]
  /\ wire = [s \in Session |-> <<>>]
  /\ sends = [s \in Session |-> 0]
  /\ here = [s \in Session |-> {}]
  /\ notified = [s \in Session |-> <<>>]
  /\ crashed = FALSE

-------------------------------------------------------------------------------
(* Pieces of handlers.                                                     *)

Handler(op, msg) == [op |-> op, msg |-> msg]
Received == UNION {{s} \X {i \in 1..Len(notified[s]) : notified[s][i] \in Contract!Read} : s \in Session}
Notify(s, told) == notified' = [notified EXCEPT ![s] = @ \o told]

\* do_close_session: erase the entry under the session's id and void the id.
DoCloseSession(s) ==
  /\ m_session_all' = {t \in m_session_all : m_session_id[t] # m_session_id[s]}
  /\ m_session_id' = [m_session_id EXCEPT ![s] = -1]

\* Fault: no is_open guard.
CloseAgain(s, loop, told) ==
  /\ is_open' = [is_open EXCEPT ![s] = FALSE]
  /\ Notify(s, told \o <<"close">>)
  /\ IF s \in SameLoop
     THEN managerLoop' = loop /\ DoCloseSession(s)
     ELSE /\ managerLoop' = Append(loop, [op |-> "remove", session |-> s])
          /\ UNCHANGED <<m_session_all, m_session_id>>

\* Fault: the manager is not told.
CloseUntold(s, loop, told) ==
  /\ managerLoop' = loop
  /\ UNCHANGED <<m_session_all, m_session_id>>
  /\ is_open' = [is_open EXCEPT ![s] = FALSE]
  /\ Notify(s, IF is_open[s] THEN told \o <<"close">> ELSE told)

\* TcpSession::do_close on the session's loop: nothing unless the socket is
\* open; close it, tell the manager and the upper layer.  loop is what the
\* manager's loop holds besides, told what the handler told before.
DoClose(s, loop, told) ==
  IF is_open[s]
  THEN /\ is_open' = [is_open EXCEPT ![s] = FALSE]
       /\ Notify(s, told \o <<"close">>)
       /\ IF s \in SameLoop
          THEN managerLoop' = loop /\ DoCloseSession(s)
          ELSE /\ managerLoop' = Append(loop, [op |-> "remove", session |-> s])
               /\ UNCHANGED <<m_session_all, m_session_id>>
  ELSE /\ managerLoop' = loop
       /\ Notify(s, told)
       /\ UNCHANGED <<is_open, m_session_all, m_session_id>>

\* Fault: the next read counts as started on an open socket.
AsyncReadAnyway(s, part) ==
  /\ reading' = [reading EXCEPT ![s] = part]
  /\ readable' = [readable EXCEPT ![s] = TRUE]

\* Start reading the given part of a message, the last thing a handler does: a
\* read started on a socket that is closed by then can only fail.
AsyncRead(s, part) ==
  /\ reading' = [reading EXCEPT ![s] = part]
  /\ readable' = [readable EXCEPT ![s] = is_open'[s]]

-------------------------------------------------------------------------------
(* Accepting and adding.                                                   *)

\* on_accept_complete: hand the new session to the manager.
Accept(s) ==
  /\ status[s] = "unborn"
  /\ status' = [status EXCEPT ![s] = "accepted"]
  /\ is_open' = [is_open EXCEPT ![s] = TRUE]
  /\ managerLoop' = Append(managerLoop, [op |-> "add", session |-> s])
  /\ UNCHANGED <<manager, alive, sessionLoop, reader, writer, sends, here, notified, crashed>>

ManagerTakes(op, s) ==
  /\ managerLoop # <<>>
  /\ Head(managerLoop) = [op |-> op, session |-> s]

\* Fault: off by one.
OverLimitByOne == Cardinality(m_session_all) > m_max_session_count

IsSessionOverLimit == Cardinality(m_session_all) >= m_max_session_count

\* do_add_session over the limit: close the session, which was never started.
RefuseSession(s) ==
  /\ ManagerTakes("add", s)
  /\ IsSessionOverLimit
  /\ status' = [status EXCEPT ![s] = "refused"]
  /\ IF s \in SameLoop
     THEN DoClose(s, Tail(managerLoop), <<>>) /\ UNCHANGED sessionLoop
     ELSE /\ managerLoop' = Tail(managerLoop)
          /\ sessionLoop' = [sessionLoop EXCEPT ![s] = Append(@, Handler("close", 0))]
          /\ UNCHANGED <<m_session_all, m_session_id, is_open, notified>>
  /\ UNCHANGED <<m_current_session, alive, reader, writer, sends, here, crashed>>

\* TcpSession::start: two posts, one to read and one to announce the session.
Start(s) ==
  /\ alive' = [alive EXCEPT ![s] = TRUE]
  /\ IF s \in SameLoop
     THEN AsyncRead(s, "len") /\ Notify(s, <<"open">>) /\ UNCHANGED sessionLoop
     ELSE /\ sessionLoop' = [sessionLoop EXCEPT ![s] = @ \o
                               <<Handler("read_head_len", 0), Handler("session_open", 0)>>]
          /\ UNCHANGED <<reader, notified>>

\* The id of the next session; the modulus of the code binds to the 1 and has no
\* effect.
NextSessionId == m_current_session + 1

\* do_add_session below the limit.
AddSession(s) ==
  /\ ManagerTakes("add", s)
  /\ ~IsSessionOverLimit
  /\ managerLoop' = Tail(managerLoop)
  /\ status' = [status EXCEPT ![s] = "started"]
  /\ m_current_session' = NextSessionId
  /\ m_session_id' = [m_session_id EXCEPT ![s] = NextSessionId]
  /\ m_session_all' = m_session_all \cup {s}
  /\ UNCHANGED <<is_open, writer, sends, here, crashed>>
  /\ Start(s)

\* close_session as run by the manager's loop.
RemoveSession(s) ==
  /\ ManagerTakes("remove", s)
  /\ managerLoop' = Tail(managerLoop)
  /\ DoCloseSession(s)
  /\ UNCHANGED <<m_current_session, status, socket, sessionLoop, reader, writer, sends, here,
                 notified, crashed>>

-------------------------------------------------------------------------------
(* The alive check.                                                        *)

\* More than m_alive_interval seconds pass without a message from the peer.
Age(s) ==
  /\ alive[s]
  /\ alive' = [alive EXCEPT ![s] = FALSE]
  /\ UNCHANGED <<managerLoop, manager, status, is_open, sessionLoop, reader, writer, sends, here,
                 notified, crashed>>

\* Fault: the check never finds a session dead.
AlwaysAlive(s) == TRUE

IsAlive(s) == alive[s]

\* The sessions check_session_alive finds dead on its own loop: do_close runs
\* inside the loop over the table and erases the entry the loop stands on.
DeadHere == {s \in m_session_all \cap SameLoop : ~IsAlive(s) /\ is_open[s]}

\* Bound: a round of checks starts when the last one has been carried out; the
\* code starts one every m_check_interval seconds.
LastCheckDone ==
  \A s \in Session : \A i \in 1..Len(sessionLoop[s]) : sessionLoop[s][i].op # "check_alive"

\* Post the check of every session in the table that runs on another loop.
PostChecks ==
  sessionLoop' = [s \in Session |->
    IF s \in m_session_all \ SameLoop
    THEN Append(sessionLoop[s], Handler("check_alive", 0))
    ELSE sessionLoop[s]]

\* check_session_alive as long as no entry is erased under its iterator: every
\* session of another loop is posted its check.
CheckSessionAlive ==
  /\ m_session_all # {}
  /\ LastCheckDone
  /\ DeadHere = {}
  /\ PostChecks
  /\ UNCHANGED <<managerLoop, manager, status, socket, reader, writer, sends, here, notified, crashed>>

\* check_session_alive when an entry is erased under its iterator.  Advancing
\* the iterator then reads a freed node: the process crashes, or the memory is
\* still intact and the loop goes on to the end.
CheckErasesEntry ==
  /\ LastCheckDone
  /\ DeadHere # {}
  /\ \/ /\ crashed' = TRUE
        /\ UNCHANGED <<managerLoop, manager, status, socket, sessionLoop, reader, writer,
                       sends, here, notified>>
     \/ /\ is_open' = [s \in Session |-> is_open[s] /\ s \notin DeadHere]
        /\ notified' = [s \in Session |->
             IF s \in DeadHere THEN Append(notified[s], "close") ELSE notified[s]]
        /\ m_session_all' = m_session_all \ DeadHere
        /\ m_session_id' = [s \in Session |-> IF s \in DeadHere THEN -1 ELSE m_session_id[s]]
        /\ PostChecks
        /\ UNCHANGED <<managerLoop, m_current_session, status, alive, reader, writer, sends, here,
                       crashed>>

-------------------------------------------------------------------------------
(* The session's loop.                                                     *)

SessionTakes(s, op) ==
  /\ sessionLoop[s] # <<>>
  /\ Head(sessionLoop[s]).op = op
  /\ sessionLoop' = [sessionLoop EXCEPT ![s] = Tail(@)]

DoReadHeadLen(s) ==
  /\ SessionTakes(s, "read_head_len")
  /\ UNCHANGED <<managerLoop, manager, status, socket, writer, sends, here, notified, crashed>>
  /\ AsyncRead(s, "len")

DoSessionOpen(s) ==
  /\ SessionTakes(s, "session_open")
  /\ Notify(s, <<"open">>)
  /\ UNCHANGED <<managerLoop, manager, status, socket, reader, writer, sends, here, crashed>>

\* close_fun.
CloseFun(s) ==
  /\ SessionTakes(s, "close")
  /\ DoClose(s, managerLoop, <<>>)
  /\ UNCHANGED <<m_current_session, status, alive, reader, writer, sends, here, crashed>>

DoCheckAlive(s) ==
  /\ SessionTakes(s, "check_alive")
  /\ IF IsAlive(s)
     THEN UNCHANGED <<managerLoop, m_session_all, m_session_id, is_open, notified>>
     ELSE DoClose(s, managerLoop, <<>>)
  /\ UNCHANGED <<m_current_session, status, alive, reader, writer, sends, here, crashed>>

\* A read fails, or what was read is refused: header length above MSG_BUF_SIZE,
\* undecodable header, body length above the buffer, unknown command, undecodable
\* body.  The session closes and reads no more.
ReadFails(s) ==
  /\ reading[s] # "none"
  /\ reading' = [reading EXCEPT ![s] = "none"]
  /\ DoClose(s, managerLoop, <<>>)
  /\ UNCHANGED <<m_current_session, status, alive, sessionLoop, readable, writer, sends, here, crashed>>

\* on_read_head_len_complete, on_read_head_complete: go on with the next part.
ReadPart(s) ==
  /\ readable[s]
  /\ UNCHANGED <<managerLoop, manager, status, socket, sessionLoop, writer, sends, here, notified,
                 crashed>>
  /\ \/ reading[s] = "len"  /\ AsyncRead(s, "head")
     \/ reading[s] = "head" /\ AsyncRead(s, "body")

-------------------------------------------------------------------------------
(* Sending, and what the upper layer does in a handler of the session's loop. *)

\* The upper layer sends from another thread on a session it was told of, open or
\* not: the message is posted.
Send(s) ==
  /\ notified[s] # <<>>
  /\ sends[s] < MaxSend
  /\ sends' = [sends EXCEPT ![s] = @ + 1]
  /\ sessionLoop' = [sessionLoop EXCEPT ![s] = Append(@, Handler("write", sends[s] + 1))]
  /\ UNCHANGED <<managerLoop, manager, status, socket, reader, writer, here, notified, crashed>>

\* The upper layer closes the session from another thread (CMD_SHUTDOWN_SESSION in
\* send_pre_deal).
Shutdown(s) ==
  /\ notified[s] # <<>>
  /\ \A i \in 1..Len(sessionLoop[s]) : sessionLoop[s][i].op # "close"
  /\ sessionLoop' = [sessionLoop EXCEPT ![s] = Append(@, Handler("close", 0))]
  /\ UNCHANGED <<managerLoop, manager, status, socket, reader, writer, sends, here, notified, crashed>>

Full(s) == Len(m_send_queue[s]) = capacity[s]

\* Fault: a full queue is always doubled.
NeverRejects(s) == FALSE

\* MessageQueue::push refuses when the queue is full and above MAX_SIZE.
PushFails(s) == Full(s) /\ MAX_SIZE < Len(m_send_queue[s])

\* A message entering an empty queue is written at once if the socket is open.
StartWrite(s, msg) ==
  writing' = [writing EXCEPT ![s] = IF m_send_queue[s] = <<>> /\ is_open[s] THEN msg ELSE @]

\* do_write on the session's loop; told is what the handler told before.
Write(s, msg, told) ==
  IF PushFails(s)
  THEN DoClose(s, managerLoop, told) /\ UNCHANGED writer
  ELSE /\ m_send_queue' = [m_send_queue EXCEPT ![s] = Append(@, msg)]
       /\ capacity' = [capacity EXCEPT ![s] = IF Full(s) THEN 2 * @ ELSE @]
       /\ StartWrite(s, msg)
       /\ Notify(s, told)
       /\ UNCHANGED <<managerLoop, m_session_all, m_session_id, is_open, wire>>

\* A message posted to the session's loop is written.
DoWrite(s) ==
  /\ SessionTakes(s, "write")
  /\ Write(s, Head(sessionLoop[s]).msg, <<>>)
  /\ UNCHANGED <<m_current_session, status, alive, reader, sends, here, crashed>>

\* What the upper layer may do with s when it runs on the loop of s: send a message,
\* which is written before any that is still posted, or close the session.
ActsHere(s, told) ==
  \/ /\ sends[s] < MaxSend
     /\ sends' = [sends EXCEPT ![s] = @ + 1]
     /\ here' = [here EXCEPT ![s] = @ \cup {sends'[s]}]
     /\ Write(s, sends'[s], told)
  \/ DoClose(s, managerLoop, told) /\ UNCHANGED <<writer, sends, here>>

\* It does so in the callback of a request without a loop of its own when its timer
\* expires, and in a handler of another session on the same loop.
ActHere(s) ==
  /\ notified[s] # <<>>
  /\ ActsHere(s, <<>>)
  /\ UNCHANGED <<m_current_session, status, alive, sessionLoop, reader, crashed>>

\* Read on for the next message.
ReadNext(s) == AsyncRead(s, "len")

\* on_read_complete: a complete message.  A request goes to the upper layer, which may
\* answer in the handler (do_heart_beat) or post it elsewhere; a response goes to the
\* request table, which AsyncRequest models, and its callback may do the same.  What
\* more the handler does is an ActHere.  The socket is not looked at, only the next
\* read finds it closed.
OnReadComplete(s) ==
  /\ reading[s] = "body"
  /\ readable[s]
  /\ Cardinality(Received) < MaxRecv
  /\ alive' = [alive EXCEPT ![s] = TRUE]
  /\ \E told \in {<<>>} \cup {<<what>> : what \in PeerSends} :
       \/ /\ Notify(s, told)
          /\ UNCHANGED <<managerLoop, m_session_all, m_session_id, is_open, writer, sends, here>>
       \/ /\ notified[s] \o told # <<>>
          /\ ActsHere(s, told)
  /\ ReadNext(s)
  /\ UNCHANGED <<m_current_session, status, sessionLoop, crashed>>

\* Fault: the message just written is written again.
WriteSameAgain(s) ==
  writing' = [writing EXCEPT ![s] = IF Tail(m_send_queue[s]) # <<>> /\ is_open[s]
                                    THEN Head(m_send_queue[s]) ELSE 0]

\* Fault: the loop of writes stops after each message.
WriteNone(s) == writing' = [writing EXCEPT ![s] = 0]

\* The next message of the queue is written if the socket is open.
WriteNext(s) ==
  LET rest == Tail(m_send_queue[s]) IN
  writing' = [writing EXCEPT ![s] = IF rest # <<>> /\ is_open[s] THEN Head(rest) ELSE 0]

\* on_write_complete without error.
OnWriteComplete(s) ==
  /\ writing[s] # 0
  /\ wire' = [wire EXCEPT ![s] = Append(@, writing[s])]
  /\ m_send_queue' = [m_send_queue EXCEPT ![s] = Tail(@)]
  /\ WriteNext(s)
  /\ UNCHANGED <<managerLoop, manager, status, socket, sessionLoop, reader, capacity, sends,
                 here, notified, crashed>>

\* on_write_complete with an error.
WriteFails(s) ==
  /\ writing[s] # 0
  /\ writing' = [writing EXCEPT ![s] = 0]
  /\ DoClose(s, managerLoop, <<>>)
  /\ UNCHANGED <<m_current_session, status, alive, sessionLoop, reader, m_send_queue, capacity,
                 wire, sends, here, crashed>>

-------------------------------------------------------------------------------
ManagerStep == \E s \in Session : RefuseSession(s) \/ AddSession(s) \/ RemoveSession(s)
SessionStep(s) ==
  DoReadHeadLen(s) \/ DoSessionOpen(s) \/ CloseFun(s) \/ DoCheckAlive(s) \/ DoWrite(s)
Check == CheckSessionAlive \/ CheckErasesEntry

Next ==
  /\ ~crashed
  /\ UNCHANGED m_max_session_count
  /\ \/ ManagerStep
     \/ Check
     \/ \E s \in Session :
          \/ Accept(s) \/ Age(s) \/ SessionStep(s)
          \/ ReadFails(s) \/ ReadPart(s) \/ OnReadComplete(s)
          \/ Send(s) \/ Shutdown(s) \/ ActHere(s) \/ OnWriteComplete(s) \/ WriteFails(s)

SafeSpec == Init /\ [][Next]_vars

\* Loops run what is queued, the check timer keeps firing, and a read started on
\* a closed socket, or whose socket is closed, completes with an error.  A peer
\* owes no message; it is assumed to take the bytes written to it.
Running(A) == ~crashed /\ A /\ UNCHANGED m_max_session_count
Fairness ==
  /\ WF_vars(Running(ManagerStep))
  /\ WF_vars(Running(Check))
  /\ \A s \in Session :
       /\ WF_vars(Running(SessionStep(s)))
       /\ WF_vars(Running(~is_open[s] /\ ReadFails(s)))
       /\ WF_vars(Running(OnWriteComplete(s)))

Spec == SafeSpec /\ Fairness

-------------------------------------------------------------------------------
(* Properties.                                                             *)

HandlerOp == {"read_head_len", "session_open", "close", "check_alive", "write"}

\* Types; a session in the table has an id that was given.
TypeOK ==
  /\ m_max_session_count \in SessionLimits
  /\ managerLoop \in Seq([op : {"add", "remove"}, session : Session])
  /\ m_session_all \in SUBSET Session
  /\ m_session_id \in [Session -> Int]
  /\ m_current_session \in Nat
  /\ status \in [Session -> {"unborn", "accepted", "refused", "started"}]
  /\ is_open \in [Session -> BOOLEAN]
  /\ alive \in [Session -> BOOLEAN]
  /\ sessionLoop \in [Session -> Seq([op : HandlerOp, msg : 0..MaxSend])]
  /\ reading \in [Session -> Part \cup {"none"}]
  /\ readable \in [Session -> BOOLEAN]
  /\ m_send_queue \in [Session -> Seq(1..MaxSend)]
  /\ capacity \in [Session -> Nat]
  /\ writing \in [Session -> 0..MaxSend]
  /\ wire \in [Session -> Seq(1..MaxSend)]
  /\ sends \in [Session -> 0..MaxSend]
  /\ here \in [Session -> SUBSET (1..MaxSend)]
  /\ notified \in [Session -> Seq(Contract!Own \cup Contract!Read)]
  /\ crashed \in BOOLEAN
  /\ \A s \in m_session_all : m_session_id[s] \in 1..m_current_session

Times(s, what) == Cardinality({i \in 1..Len(notified[s]) : notified[s][i] = what})

\* However a session ends (peer, read or write error, full queue, alive check,
\* shutdown, session limit, several of them at once), it reports its close exactly
\* once, as soon as the socket is closed (do_close), and its opening at most once.
\* These are the reports of the session itself: a peer may send the same commands.
CloseReportedOnce ==
  \A s \in Session :
    /\ Times(s, "close") = IF status[s] # "unborn" /\ ~is_open[s] THEN 1 ELSE 0
    /\ Times(s, "open") <= 1

\* The upper layer is told what the contract allows: the session's own opening and
\* close once each and in any order, and after the close at most one request, whose
\* read had completed before (on_read_complete looks at no socket).
ImplementsContract == Contract!Spec

\* A session on the manager's own loop is announced before anything else is
\* reported of it.  (On another loop a message or the close may come first.)
OpenFirstOnOwnLoop ==
  \A s \in SameLoop : status[s] = "started" =>
    notified[s] # <<>> /\ notified[s][1] = "open"

\* The number of sessions being served never exceeds the limit, although closed
\* sessions leave the table later than their socket closes.
LimitHolds ==
  Cardinality({s \in Session : status[s] = "started" /\ is_open[s]}) <= m_max_session_count

Removal(s) == [op |-> "remove", session |-> s]

\* The table and the sockets agree up to removals on their way: a session served
\* is in the table, and a session in the table is served or about to be removed.
TableMatchesSockets ==
  \A s \in Session :
    /\ status[s] = "started" /\ is_open[s] => s \in m_session_all
    /\ s \in m_session_all => \/ is_open[s]
                              \/ \E i \in 1..Len(managerLoop) : managerLoop[i] = Removal(s)

\* Two sessions in the table never share an id, so no removal hits another one.
IdsUnique ==
  \A s, t \in m_session_all :
    m_session_id[s] > 0 /\ (m_session_id[s] = m_session_id[t] => s = t)

\* What the manager relies on when it adds a session and announces it: ids that tell
\* sessions apart, the limit, and on its own loop the announcement first.
TableInv == TypeOK /\ IdsUnique /\ LimitHolds /\ OpenFirstOnOwnLoop

\* The ring buffer of a send queue never overwrites a message and never holds more
\* than twice MAX_SIZE.
QueueBounded ==
  \A s \in Session :
    /\ Len(m_send_queue[s]) <= capacity[s]
    /\ capacity[s] <= IF INIT_SIZE < 2 * MAX_SIZE THEN 2 * MAX_SIZE ELSE INIT_SIZE

\* On an open session exactly one write is outstanding while the queue is not
\* empty, and it writes the head: writes never overlap and never stall.
OneWriteAtATime ==
  \A s \in Session : is_open[s] =>
    writing[s] = IF m_send_queue[s] = <<>> THEN 0 ELSE Head(m_send_queue[s])

OnWire(s, k, n) == \E i \in 1..n : wire[s][i] = k

\* Nothing is written twice, and whatever is written follows all that was sent before
\* it, but that a message sent on the session's own loop (IoLoop::post) may overtake
\* messages still posted to it.  Per origin, what was written is an initial run of
\* what was sent: nothing is lost or reordered before the session ends.
WireInOrder ==
  \A s \in Session : \A j \in 1..Len(wire[s]) :
    /\ ~OnWire(s, wire[s][j], j - 1)
    /\ \A k \in 1..(wire[s][j] - 1) :
         OnWire(s, k, j - 1) \/ (wire[s][j] \in here[s] /\ k \notin here[s])

\* Messages leave the queue one write at a time and reach the wire in order.
WritesInOrder == OneWriteAtATime /\ WireInOrder

\* The alive check never advances an iterator whose entry was erased.
IteratorStaysValid == ~crashed

\* A session whose peer falls silent is closed unless it speaks again, and a closed
\* session leaves the table.
DeadSessionGoes ==
  \A s \in Session :
    s \in m_session_all /\ ~(alive[s] /\ is_open[s])
      ~> (alive[s] /\ is_open[s]) \/ s \notin m_session_all \/ crashed

\* What is sent on a session is written, unless the session closes.
SentIsWritten ==
  \A s \in Session : \A k \in 1..MaxSend :
    sends[s] >= k ~> OnWire(s, k, Len(wire[s])) \/ ~is_open[s] \/ crashed
===============================================================================
