--------------------------------- MODULE Client ---------------------------------
(***************************************************************************)
(* The connecting side (libserver/Client.cpp): connect, reconnect after a  *)
(* failure or a closed session, heartbeat and alive timers, close_client.  *)
(*                                                                         *)
(* Client and session share one loop, so everything they call runs inside  *)
(* the handler at hand.  What is asynchronous are the handlers queued on   *)
(* that loop: calls posted by other threads, completions of timers and of  *)
(* connection attempts.  A cancelled operation queues its handler with an  *)
(* error; one that already completed stays queued with success and cannot  *)
(* be cancelled any more.                                                  *)
(*                                                                         *)
(* A handler is a composition of calls, so each call is an operator from a *)
(* state of the client to the next one.  A second session, which only a    *)
(* stale reconnect handler can produce, shares the fields of the first.    *)
(***************************************************************************)
EXTENDS Naturals, Sequences

CONSTANTS
  MaxConnectCalls,   \* bound: calls of connect(ip, port) by the user
  MaxCloseCalls,     \* bound: calls of close_client by the user
  MaxQueue           \* bound: with so many handlers queued the loop comes first

ASSUME BoundsAreNat == {MaxConnectCalls, MaxCloseCalls, MaxQueue} \subseteq Nat

VARIABLES
  c,          \* the client: its members, its socket and timers, its loop
  stale,      \* a reconnect handler started a second attempt beside a running one
  crashed,    \* m_socket was used while null
  connectCalls, closeCalls

vars == <<c, stale, crashed, connectCalls, closeCalls>>

Timer == {"reconnect", "connect", "heart_beat", "alive"}
Handler == [h : Timer \cup {"attempt", "do_connect", "do_close_client"}, err : BOOLEAN]

Init ==
  /\ c = [m_auto_reconnect |-> FALSE, m_is_connecting |-> FALSE,
          m_is_wait_connect |-> FALSE, m_is_connected |-> FALSE,
          m_socket |-> "null",                      \* "null", "open" or "closed"
          attempt |-> "none",   \* who owns the socket of the pending async_connect
          waiting |-> [t \in Timer |-> FALSE],      \* pending async_wait
          queue |-> <<>>,                           \* handlers on the loop
          told |-> "none"]       \* last report of its own to the MessageTask
  /\ stale = FALSE
  /\ crashed = FALSE
  /\ connectCalls = 0
  /\ closeCalls = 0

-------------------------------------------------------------------------------
(* asio: timers and sockets.                                               *)

Queue(s, h, err) == [s EXCEPT !.queue = Append(@, [h |-> h, err |-> err])]

\* Of the cancelled waits only the handler of the reconnect timer does something;
\* the other three return at once and are not queued here.
Cancel(s, t) ==
  LET d == [s EXCEPT !.waiting[t] = FALSE] IN
  IF s.waiting[t] /\ t = "reconnect" THEN Queue(d, t, TRUE) ELSE d

\* expires_after cancels a pending wait, async_wait starts a new one.
Arm(s, t) == [Cancel(s, t) EXCEPT !.waiting[t] = TRUE]

\* Closing or destroying a socket aborts its connection attempt.
Abort(s, owner) ==
  IF s.attempt = owner THEN Queue([s EXCEPT !.attempt = "none"], "attempt", TRUE) ELSE s

-------------------------------------------------------------------------------
(* Calls.                                                                  *)

\* Client::connect(): a new socket replaces m_socket, arm the connect timer, start
\* the attempt.
Connect(s) ==
  [Arm(Abort(s, "m_socket"), "connect") EXCEPT
     !.m_socket = "open", !.attempt = "m_socket", !.m_is_connecting = TRUE]

\* Fault: the client does not connect again.
CloseSessionOnly(s) ==
  Cancel(Cancel([s EXCEPT !.m_is_connected = FALSE], "heart_beat"), "alive")

\* Client::close_session, called by the closing session: connect again.
CloseSession(s) ==
  Connect(Cancel(Cancel([s EXCEPT !.m_is_connected = FALSE], "heart_beat"), "alive"))

\* TcpSession::do_close: close the socket, tell the client, tell the upper layer.
SessionCloses(s) == [CloseSession(Abort(s, "session")) EXCEPT !.told = "close"]

\* m_socket->close().
SocketCloses(s) == Abort([s EXCEPT !.m_socket = "closed"], "m_socket")

\* register_connect_timer.
RegisterConnectTimer(s) == Arm([s EXCEPT !.m_is_wait_connect = TRUE], "reconnect")

\* on_connet_complete, failed: report it, drop the socket, wait to try again.
ConnectFailed(s) ==
  LET d == Abort([s EXCEPT !.told = "failed", !.m_socket = "null"], "m_socket") IN
  IF d.m_auto_reconnect THEN RegisterConnectTimer(d) ELSE d

\* Fault: the heartbeat timer is not registered.
ConnectedMute(s) ==
  Arm([s EXCEPT !.m_is_connected = TRUE, !.m_socket = "null", !.told = "open",
                !.attempt = IF @ = "m_socket" THEN "session" ELSE @], "alive")

\* on_connet_complete, connected: the session takes the socket and starts.
Connected(s) ==
  Arm(Arm([s EXCEPT !.m_is_connected = TRUE, !.m_socket = "null", !.told = "open",
                    !.attempt = IF @ = "m_socket" THEN "session" ELSE @],
          "heart_beat"), "alive")

\* Fault: m_is_connecting is not reset.
AttemptOverKeepsFlag(s) == Cancel(s, "connect")

\* The head of on_connet_complete.
AttemptOver(s) == Cancel([s EXCEPT !.m_is_connecting = FALSE], "connect")

OnConnectComplete(s, err) ==
  IF s.m_socket # "open" \/ err THEN ConnectFailed(AttemptOver(s)) ELSE Connected(AttemptOver(s))

\* on_send_heart_beat: a cancelled wait or a lost connection ends the beat.
OnSendHeartBeat(s, err) ==
  IF ~err /\ s.m_is_connected THEN Arm(s, "heart_beat") ELSE s

\* on_check_alive, of a session that is alive or that the check closes.
OnCheckAlive(s, err, silent) ==
  IF err \/ ~s.m_is_connected THEN s
  ELSE Arm(IF silent THEN SessionCloses(s) ELSE s, "alive")

\* on_wait_reconnect.
OnWaitReconnect(s, err) ==
  LET d == [s EXCEPT !.m_is_wait_connect = FALSE] IN IF err THEN d ELSE Connect(d)

\* Fault: a timeout leaves the attempt alone.
OnConnectTimeoutIgnored(s, err) == s

\* on_connect_timeout: close the socket of the attempt.
OnConnectTimeout(s, err) ==
  IF ~err /\ s.m_socket = "open" THEN SocketCloses(s) ELSE s

\* Fault: a running attempt is overlooked.
DoConnectAnyway(s) ==
  IF s.m_is_connected THEN SessionCloses([s EXCEPT !.m_auto_reconnect = TRUE])
  ELSE Connect([s EXCEPT !.m_auto_reconnect = TRUE])

\* do_connect.
DoConnect(s) ==
  LET d == [s EXCEPT !.m_auto_reconnect = TRUE] IN
  IF d.m_is_connected THEN SessionCloses(d)
  ELSE IF d.m_is_connecting THEN SocketCloses(d)
  ELSE Connect(IF d.m_is_wait_connect
               THEN [Cancel(d, "reconnect") EXCEPT !.m_is_wait_connect = FALSE] ELSE d)

\* do_close_client.
DoCloseClient(s) ==
  LET d == [s EXCEPT !.m_auto_reconnect = FALSE]
      e == IF d.m_is_connected THEN SessionCloses(d)
           ELSE IF d.m_is_connecting THEN SocketCloses(d)
           ELSE IF d.m_is_wait_connect
           THEN Cancel([d EXCEPT !.m_is_wait_connect = FALSE], "reconnect")
           ELSE d
  IN Cancel(Cancel(Cancel(e, "connect"), "heart_beat"), "alive")

-------------------------------------------------------------------------------
(* What happens outside the loop.                                          *)

\* connect(ip, port) of another thread is posted.
UserConnects ==
  /\ connectCalls < MaxConnectCalls
  /\ connectCalls' = connectCalls + 1
  /\ c' = Queue(c, "do_connect", FALSE)
  /\ UNCHANGED <<stale, crashed, closeCalls>>

\* close_client of another thread is posted.
UserCloses ==
  /\ closeCalls < MaxCloseCalls
  /\ closeCalls' = closeCalls + 1
  /\ c' = Queue(c, "do_close_client", FALSE)
  /\ UNCHANGED <<stale, crashed, connectCalls>>

\* A timer expires and its handler is queued.
Expire(t) ==
  /\ c.waiting[t]
  /\ c' = Queue([c EXCEPT !.waiting[t] = FALSE], t, FALSE)
  /\ UNCHANGED <<stale, crashed, connectCalls, closeCalls>>

\* The connection attempt succeeds or fails.
AttemptCompletes(err) ==
  /\ c.attempt # "none"
  /\ c' = Queue([c EXCEPT !.attempt = "none"], "attempt", err)
  /\ UNCHANGED <<stale, crashed, connectCalls, closeCalls>>

\* A read or write of the session fails.
SessionFails ==
  /\ c.m_is_connected
  /\ c' = SessionCloses(c)
  /\ UNCHANGED <<stale, crashed, connectCalls, closeCalls>>

-------------------------------------------------------------------------------
(* The loop.                                                               *)

\* m_socket is dereferenced while null.
NullSocket(s, h) ==
  /\ s.m_socket = "null"
  /\ \/ h = "attempt"
     \/ h \in {"do_connect", "do_close_client"} /\ s.m_is_connecting /\ ~s.m_is_connected

\* The loop runs the handler at the head of its queue.
RunHandler ==
  /\ c.queue # <<>>
  /\ LET h == Head(c.queue).h
         err == Head(c.queue).err
         s == [c EXCEPT !.queue = Tail(@)]
     IN IF NullSocket(s, h)
        THEN crashed' = TRUE /\ UNCHANGED <<c, stale>>
        ELSE /\ \/ h = "attempt"         /\ c' = OnConnectComplete(s, err)
                \/ h = "reconnect"       /\ c' = OnWaitReconnect(s, err)
                \/ h = "connect"         /\ c' = OnConnectTimeout(s, err)
                \/ h = "heart_beat"      /\ c' = OnSendHeartBeat(s, err)
                \/ h = "alive"           /\ \E silent \in BOOLEAN : c' = OnCheckAlive(s, err, silent)
                \/ h = "do_connect"      /\ c' = DoConnect(s)
                \/ h = "do_close_client" /\ c' = DoCloseClient(s)
             /\ stale' = (stale \/ (h = "reconnect" /\ ~err /\ s.m_is_connecting))
             /\ UNCHANGED crashed
  /\ UNCHANGED <<connectCalls, closeCalls>>

Next ==
  /\ ~crashed
  /\ \/ RunHandler
     \/ /\ Len(c.queue) < MaxQueue
        /\ \/ UserConnects \/ UserCloses \/ SessionFails
           \/ \E t \in Timer : Expire(t)
           \/ \E err \in BOOLEAN : AttemptCompletes(err)

\* The loop runs its handlers and clocks keep going.  Nothing makes an attempt
\* complete by itself, users and the session owe nothing.
Fairness ==
  /\ WF_vars(~crashed /\ RunHandler)
  /\ \A t \in Timer : WF_vars(~crashed /\ Len(c.queue) < MaxQueue /\ Expire(t))

SafeSpec == Init /\ [][Next]_vars
Spec == SafeSpec /\ Fairness

-------------------------------------------------------------------------------
(* Properties.                                                             *)

Pending(t) == c.waiting[t] \/ \E i \in 1..Len(c.queue) : c.queue[i] = [h |-> t, err |-> FALSE]

\* The types of the client's state (members of Client, Client.h).
ClientState ==
  [m_auto_reconnect : BOOLEAN, m_is_connecting : BOOLEAN, m_is_wait_connect : BOOLEAN,
   m_is_connected : BOOLEAN, m_socket : {"null", "open", "closed"},
   attempt : {"none", "m_socket", "session"}, waiting : [Timer -> BOOLEAN],
   queue : Seq(Handler), told : {"none", "open", "close", "failed"}]

\* Type invariant of the client.
TypeOK ==
  /\ c \in ClientState
  /\ stale \in BOOLEAN
  /\ crashed \in BOOLEAN
  /\ connectCalls \in 0..MaxConnectCalls
  /\ closeCalls \in 0..MaxCloseCalls

\* m_socket is null when a handler needs it only after the handler of an expired
\* reconnect timer, which do_connect could no longer cancel, has started a second
\* attempt beside the running one.
NullSocketOnlyIfStale == crashed => stale

\* The flags describe the connection: connecting and connected exclude each other,
\* a running attempt has its socket, and the reconnect timer runs only in the
\* waiting state, unless a stale reconnect handler has intervened.
FlagsAgree ==
  ~stale =>
    /\ ~(c.m_is_connecting /\ c.m_is_connected)
    /\ c.m_is_connecting <=> c.m_socket # "null"
    /\ c.waiting["reconnect"] =>
         c.m_is_wait_connect /\ ~c.m_is_connecting /\ ~c.m_is_connected

\* What the client itself last told the upper layer, open, closed or failed, is open
\* exactly while it takes itself for connected.  (A server may send a request with the
\* command of either, which the upper layer cannot tell apart, see SessionContract.)
ToldAgrees == ~stale => (c.told = "open" <=> c.m_is_connected)

\* While connected the heartbeat goes on, whatever was cancelled before.
HeartBeatRuns == c.m_is_connected => Pending("heart_beat")

\* What the client tells the upper layer and the server of its connection is so.
ClientInv == TypeOK /\ ToldAgrees /\ HeartBeatRuns

\* A client that is to stay connected is connected, is trying, or will try again.
NeverGivesUp ==
  c.m_auto_reconnect /\ ~crashed =>
    \/ c.m_is_connected \/ c.m_is_connecting
    \/ Pending("reconnect")

\* An attempt that does not complete is given up by the connect timer, as long as
\* the user wants the connection.  (An attempt that close_client has set off is not:
\* close_client has cancelled its timer.)
HangingAttemptEnds ==
  (c.attempt = "m_socket" /\ c.m_auto_reconnect) ~> (c.attempt # "m_socket" \/ crashed)

\* A closed client closes its socket and does not connect again.
ClosedClientStaysClosed == ~c.m_auto_reconnect => c.attempt = "none"
===============================================================================
