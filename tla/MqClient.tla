-------------------------------- MODULE MqClient --------------------------------
(***************************************************************************)
(* The connection of a server to the message broker                        *)
(* (libserver/MqClient.cpp, MqSession.cpp, MqHandler.h).                   *)
(*                                                                         *)
(* Everything runs on one loop, main_pool's.  The AMQP library is external:*)
(* it reports to MqHandler that a connection is being negotiated, that the *)
(* login is complete, that the channel is ready, and that the connection   *)
(* has ended, in this order for one connection.                            *)
(*                                                                         *)
(* close_client, bind_exchange and MqSession::close have no caller that a  *)
(* running server reaches and are left out.                                *)
(***************************************************************************)
EXTENDS Naturals, Sequences

CONSTANT MaxAttempts   \* bound: connections made, the first of them by connect

ASSUME AttemptsArePositive == MaxAttempts \in Nat \ {0}

VARIABLES
  mainLoop,          \* handlers queued on the loop
  m_auto_reconnect,
  m_is_connecting,
  m_timer,           \* "idle", "waiting", or "queued" with its handler in mainLoop
  m_is_connected,    \* of MqHandler
  heartbeat,         \* _timer of MqHandler: "none", "unset" or "armed"
  link,              \* the AMQP connection, one of Link
  attempts           \* connections made

handler == <<m_is_connected, heartbeat>>
client == <<m_auto_reconnect, m_is_connecting, m_timer>>
mqVars == <<mainLoop, client, handler, link, attempts>>

Link == {"none", "opening", "negotiated", "connected", "ready", "ended"}

\* LanchProcess::run calls connect once, from another thread.
MqInit ==
  /\ mainLoop = <<[do |-> "connect"]>>
  /\ m_auto_reconnect = FALSE
  /\ m_is_connecting = FALSE
  /\ m_timer = "idle"
  /\ m_is_connected = FALSE
  /\ heartbeat = "none"
  /\ link = "none"
  /\ attempts = 0

MainRuns(what) ==
  /\ mainLoop # <<>>
  /\ Head(mainLoop) = what
  /\ mainLoop' = Tail(mainLoop)

-------------------------------------------------------------------------------
(* MqClient.                                                               *)

\* connect_mq: MqSession::init makes a handler, a connection and a channel anew.
ConnectMq ==
  /\ m_is_connecting' = TRUE
  /\ m_is_connected' = FALSE
  /\ heartbeat' = "unset"
  /\ link' = "opening"
  /\ attempts' = attempts + 1

DoConnect ==
  /\ MainRuns([do |-> "connect"])
  /\ IF m_is_connected
     THEN UNCHANGED <<client, handler, link, attempts>>
     ELSE /\ m_auto_reconnect' = TRUE
          /\ ConnectMq
          /\ m_timer' = "waiting"

\* The timer of one second.
TimerExpires ==
  /\ m_timer = "waiting"
  /\ m_timer' = "queued"
  /\ mainLoop' = Append(mainLoop, [do |-> "on_timeout"])
  /\ UNCHANGED <<m_auto_reconnect, m_is_connecting, handler, link, attempts>>

\* on_timeout.  While connecting it only waits for the connection; afterwards it makes
\* a lost one again.  close_session does nothing: it is called only when not connected.
OnTimeout ==
  /\ MainRuns([do |-> "on_timeout"])
  /\ m_timer' = "waiting"
  /\ UNCHANGED m_auto_reconnect
  /\ IF ~m_is_connecting /\ m_auto_reconnect /\ ~m_is_connected
     THEN attempts < MaxAttempts /\ ConnectMq
     ELSE /\ m_is_connecting' = (m_is_connecting /\ ~m_is_connected)
          /\ UNCHANGED <<handler, link, attempts>>

-------------------------------------------------------------------------------
(* MqHandler, called by the library.                                       *)

CloseMq ==
  /\ heartbeat' = "none"
  /\ m_is_connected' = FALSE

\* onNegotiate: an interval of 0 asks for no heartbeat.
OnNegotiate ==
  /\ link = "opening"
  /\ link' = "negotiated"
  /\ heartbeat' \in {heartbeat, "armed"}
  /\ UNCHANGED <<mainLoop, client, m_is_connected, attempts>>

\* Fault: the connection counts as connected.
OnConnectedCounts ==
  /\ link = "negotiated"
  /\ link' = "connected"
  /\ m_is_connected' = TRUE
  /\ UNCHANGED <<mainLoop, client, heartbeat, attempts>>

\* onConnected calls close_mq, as onClosed and onError do.
OnConnected ==
  /\ link = "negotiated"
  /\ link' = "connected"
  /\ CloseMq
  /\ UNCHANGED <<mainLoop, client, attempts>>

\* The channel is ready: the session declares its queue and exchanges and tells the
\* upper layer, which only logs.
ChannelReady ==
  /\ link = "connected"
  /\ link' = "ready"
  /\ UNCHANGED <<mainLoop, client, handler, attempts>>

\* onClosed, onError.
OnEnded ==
  /\ link \notin {"none", "ended"}
  /\ link' = "ended"
  /\ CloseMq
  /\ UNCHANGED <<mainLoop, client, attempts>>

MqNext ==
  \/ DoConnect \/ TimerExpires \/ OnTimeout
  \/ OnNegotiate \/ OnConnected \/ ChannelReady \/ OnEnded

-------------------------------------------------------------------------------
(* Properties.                                                             *)

\* A connection that has ended is not made again, although the client would reconnect:
\* on_timeout waits for a flag that no line of MqHandler sets (MqHandler.h:586).
EndedStaysEnded == [][link = "ended" => link' = "ended"]_link

\* The heartbeat the broker asked for runs only until the login is complete, where
\* onConnected destroys its timer (MqHandler.h:583).
HeartbeatEndsAtLogin == heartbeat = "armed" => link = "negotiated"
===============================================================================
