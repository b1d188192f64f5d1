----------------------------- MODULE PlayerManager -----------------------------
(***************************************************************************)
(* Who is logged in on which session of a lobby server                     *)
(* (LobbyServer/PlayerManager.cpp, LobbyTask.cpp).                         *)
(*                                                                         *)
(* The sessions live on loops of the server and tell the lobby what        *)
(* SessionContract allows; LobbyTask posts each notification to the one    *)
(* loop that runs PlayerManager.  To close a session the lobby sends it    *)
(* CMD_SHUTDOWN_SESSION, and hears of the close later.  A request with the *)
(* command of an opening or a close is handled as the session's own report *)
(* is (MessageTask::do_handle_message): the player leaves the maps while   *)
(* the socket stays open.                                                  *)
(*                                                                         *)
(* A Player object is identified with its user: MapsAgree implies that a   *)
(* second object for a user is made only when no map holds the first.      *)
(***************************************************************************)
EXTENDS Naturals, Sequences, FiniteSets

CONSTANTS
  Session,   \* sessions accepted by the server
  User,      \* user ids
  Token,     \* tokens sent to the lobby, members of TokenKind
  none,      \* no user, no session
  MaxMsg,    \* bound: requests read, by all sessions together
  MaxWaiting \* bound: messages waiting for the lobby's loop

TokenKind == {
  "complete",   \* an object with user_id, user_account and user_type
  "mistyped",   \* one of them has another type
  "issued"}     \* as LoginModule::user_login writes it, without user_account

ASSUME TokenKnown == Token \subseteq TokenKind
ASSUME NoneIsNone == none \notin User \cup Session
ASSUME BoundsAreNat == MaxMsg \in Nat /\ MaxWaiting \in Nat

VARIABLES
  notified,       \* notified[s]: what session s told the lobby, in order
  taskLoop,       \* messages posted to the lobby's loop
  m_login_user,   \* m_login_user[u]: session of the player of u, or none
  m_online_user,  \* m_online_user[s]: user of the player under s, or none
  shutdown,       \* sessions sent CMD_SHUTDOWN_SESSION
  aborted,        \* an assertion failed
  lastUser,       \* history: the user who last logged in on a session
  lastSession,    \* history: the session on which a user last logged in
  switched,       \* history: sessions on which two users have logged in
  closed,         \* history: sessions of which the lobby has handled a close, their
                  \*          own report or a request with its command
  late            \* history: sessions on which a login was handled after that

maps == <<m_login_user, m_online_user>>
history == <<lastUser, lastSession, switched, closed, late>>
vars == <<notified, taskLoop, maps, shutdown, aborted, history>>

Contract == INSTANCE SessionContract

\* What a message says: its command and, of a login, the token.
Plain(cmd) == [cmd |-> cmd, user |-> none, token |-> none]
Request == [cmd : {"login"}, user : User, token : Token] \cup {Plain("app")}
Message == [session : Session, what : Request \cup {Plain("open"), Plain("close")}]

Init ==
  /\ Contract!Init
  /\ taskLoop = <<>>
  /\ m_login_user = [u \in User |-> none]
  /\ m_online_user = [s \in Session |-> none]
  /\ shutdown = {}
  /\ aborted = FALSE
  /\ lastUser = [s \in Session |-> none]
  /\ lastSession = [u \in User |-> none]
  /\ switched = {}
  /\ closed = {}
  /\ late = {}

-------------------------------------------------------------------------------
(* The sessions.                                                           *)

\* LobbyTask::handle_message posts to the lobby's loop.
Post(s, what) == taskLoop' = Append(taskLoop, [session |-> s, what |-> what])

Tells(s, kind, what) ==
  /\ Len(taskLoop) < MaxWaiting
  /\ Contract!MayTell(s, kind)
  /\ notified' = [notified EXCEPT ![s] = Append(@, kind)]
  /\ Post(s, what)
  /\ UNCHANGED <<maps, shutdown, aborted, history>>

Opens(s) == Tells(s, "open", Plain("open"))
Closes(s) == Tells(s, "close", Plain("close"))

Received ==
  UNION {{s} \X {i \in 1..Len(notified[s]) : notified[s][i] \in Contract!Read} : s \in Session}

\* A request goes to its handler by its command, which may be that of an opening or a
\* close.
Reads(s) ==
  /\ Cardinality(Received) < MaxMsg
  /\ \/ \E request \in Request : Tells(s, "msg", request)
     \/ Tells(s, "peer_open", Plain("open"))
     \/ Tells(s, "peer_close", Plain("close"))

-------------------------------------------------------------------------------
(* The handlers of the lobby.                                              *)

Takes(s, what) ==
  /\ taskLoop # <<>>
  /\ Head(taskLoop) = [session |-> s, what |-> what]
  /\ taskLoop' = Tail(taskLoop)
  /\ UNCHANGED notified

\* on_session_open only writes a log.
OnSessionOpen(s) ==
  /\ Takes(s, Plain("open"))
  /\ UNCHANGED <<maps, shutdown, aborted, history>>

\* Fault: the player stays in the table of users.
SessionClosedHalf(s) ==
  /\ m_online_user' = [m_online_user EXCEPT ![s] = none]
  /\ UNCHANGED m_login_user

\* The player under the session leaves both maps.
SessionClosed(s) ==
  /\ m_online_user' = [m_online_user EXCEPT ![s] = none]
  /\ m_login_user' = [u \in User |-> IF u = m_online_user[s] THEN none ELSE m_login_user[u]]

OnSessionClose(s) ==
  /\ Takes(s, Plain("close"))
  /\ SessionClosed(s)
  /\ closed' = closed \cup {s}
  /\ UNCHANGED <<shutdown, aborted, lastUser, lastSession, switched, late>>

\* Fault: the old session keeps its entry.
AddUserSessionKeepOld(u, s) ==
  /\ m_login_user' = [m_login_user EXCEPT ![u] = s]
  /\ m_online_user' = [m_online_user EXCEPT ![s] = u]
  /\ shutdown' = shutdown \cup ({m_login_user[u]} \ {none, s})

\* Fault: an entry the session has already is not replaced.
AddUserSessionInsert(u, s) ==
  /\ m_login_user' = [m_login_user EXCEPT ![u] = s]
  /\ m_online_user' = [t \in Session |->
       IF t = s /\ m_online_user[s] = none THEN u
       ELSE IF t # s /\ t = m_login_user[u] THEN none ELSE m_online_user[t]]
  /\ shutdown' = shutdown \cup ({m_login_user[u]} \ {none, s})

\* Fault: the old session is forgotten but not shut down.
AddUserSessionNoShutdown(u, s) ==
  /\ m_login_user' = [m_login_user EXCEPT ![u] = s]
  /\ m_online_user' = [t \in Session |->
       IF t = s THEN u ELSE IF t = m_login_user[u] THEN none ELSE m_online_user[t]]
  /\ UNCHANGED shutdown

\* Fault: the entry of the session is erased after it was set.
AddUserSessionEraseLast(u, s) ==
  /\ m_login_user' = [m_login_user EXCEPT ![u] = s]
  /\ m_online_user' = [t \in Session |->
       IF t = m_login_user[u] THEN none ELSE IF t = s THEN u ELSE m_online_user[t]]
  /\ shutdown' = shutdown \cup ({m_login_user[u]} \ {none, s})

\* add_user_session: the user's player moves to this session, its old session loses
\* whatever entry it has, and is shut down unless it is the same.
AddUserSession(u, s) ==
  /\ m_login_user' = [m_login_user EXCEPT ![u] = s]
  /\ m_online_user' = [t \in Session |->
       IF t = s THEN u ELSE IF t = m_login_user[u] THEN none ELSE m_online_user[t]]
  /\ shutdown' = shutdown \cup ({m_login_user[u]} \ {none, s})

LoginRecorded(u, s) ==
  /\ lastUser' = [lastUser EXCEPT ![s] = u]
  /\ lastSession' = [lastSession EXCEPT ![u] = s]
  /\ switched' = switched \cup (IF lastUser[s] \in {none, u} THEN {} ELSE {s})
  /\ late' = late \cup (closed \cap {s})
  /\ UNCHANGED closed

\* player_token_login.  check_user_token reads user_account of the token, which an
\* assertion of the JSON library requires to be there.
PlayerTokenLogin(s, u, token) ==
  /\ Takes(s, [cmd |-> "login", user |-> u, token |-> token])
  /\ \/ /\ token = "complete"
        /\ AddUserSession(u, s)
        /\ LoginRecorded(u, s)
        /\ UNCHANGED aborted
     \/ /\ token = "mistyped"
        /\ shutdown' = shutdown \cup {s}
        /\ UNCHANGED <<maps, aborted, history>>
     \/ /\ token = "issued"
        /\ aborted' = TRUE
        /\ UNCHANGED <<maps, shutdown, history>>

\* on_unknown_msg: check_user_msg finds the user in whose name the request is
\* dispatched, or the request is refused; either way no state here changes.
OnUnknownMsg(s) ==
  /\ Takes(s, Plain("app"))
  /\ UNCHANGED <<maps, shutdown, aborted, history>>

TaskStep ==
  \E s \in Session :
    \/ OnSessionOpen(s) \/ OnSessionClose(s) \/ OnUnknownMsg(s)
    \/ \E u \in User, token \in Token : PlayerTokenLogin(s, u, token)

Next ==
  /\ ~aborted
  /\ TaskStep \/ \E s \in Session : Opens(s) \/ Closes(s) \/ Reads(s)

\* The lobby's loop runs what is posted, and a session that is sent the shutdown
\* closes (TcpServer: its loop runs the posted close).  Peers owe nothing.
Fairness ==
  /\ WF_vars(~aborted /\ TaskStep)
  /\ \A s \in Session : WF_vars(~aborted /\ s \in shutdown /\ Closes(s))

SafeSpec == Init /\ [][Next]_vars
Spec == SafeSpec /\ Fairness

-------------------------------------------------------------------------------
(* Properties.                                                             *)

\* Type invariant of the lobby.
TypeOK ==
  /\ notified \in [Session -> Seq(Contract!Own \cup Contract!Read)]
  /\ taskLoop \in Seq(Message)
  /\ m_login_user \in [User -> Session \cup {none}]
  /\ m_online_user \in [Session -> User \cup {none}]
  /\ shutdown \in SUBSET Session
  /\ aborted \in BOOLEAN
  /\ lastUser \in [Session -> User \cup {none}]
  /\ lastSession \in [User -> Session \cup {none}]
  /\ switched \in SUBSET Session
  /\ closed \in SUBSET Session
  /\ late \in SUBSET Session

\* A session in the online map belongs to the player the user map has: a user is
\* online on one session at most, and closing it removes the right player.
MapsAgree ==
  \A s \in Session, u \in User : m_online_user[s] = u => m_login_user[u] = s

\* What a close relies on to remove the right player.
MapsInv == TypeOK /\ MapsAgree

\* Requests are dispatched in the name of the user who logged in last on their
\* session, and who has not logged in on another one since.
RequestsOfOwner ==
  \A s \in Session, u \in User :
    m_online_user[s] = u => lastUser[s] = u /\ lastSession[u] = s

\* Whoever logged in last on a session, and nowhere else since, is served there
\* until a close is handled or the session is shut down, whatever other users do.
LoggedInIsServed ==
  \A s \in Session, u \in User :
    lastUser[s] = u /\ lastSession[u] = s =>
      m_online_user[s] = u \/ s \in closed \cup shutdown

\* A player stays after a close was handled only if its login was handled after that,
\* or the session was used by two users: on_session_close erases the record of the
\* user map at once, and nothing else ever does.  PlayerManager.h:69 says otherwise of
\* both: that the map includes the players who are offline for a short time, and that
\* their records are deleted after five minutes.  The first is refuted by this invariant,
\* the second by OfflinePlayerForgotten.
StayOnlyIfLateOrSwitched ==
  \A s \in Session, u \in User :
    s \in closed /\ m_login_user[u] = s => s \in late \cup switched

\* A session whose user has logged in elsewhere closes, as its own report says.  Not so
\* one of which a close was handled before, upon a request with that command: the lobby
\* has forgotten who was there, and nothing but its peer or the alive check ends it.
DisplacedSessionCloses ==
  \A s \in Session, u \in User :
    lastUser[s] = u /\ lastSession[u] # s /\ s \notin closed
      ~> Contract!Told(s, "close") \/ aborted

\* What PlayerManager.h says of m_login_user: once a player is offline its record
\* is deleted (after five minutes, which the model leaves out).
OfflinePlayerForgotten ==
  \A s \in Session, u \in User :
    (s \in closed /\ m_login_user[u] = s) ~> m_login_user[u] # s

\* The assertion of the JSON library: a key that is read is there.
TokenKeysPresent == ~aborted
===============================================================================
