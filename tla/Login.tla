---------------------------------- MODULE Login ----------------------------------
(***************************************************************************)
(* The login server (LoginServer/LoginModule.cpp, LoginTask.cpp): several  *)
(* child processes with one task loop each, over one database, started     *)
(* again by the master process whenever they end (MultiProcess.cpp).       *)
(*                                                                         *)
(* A login runs to its end on the task loop of its process, but asks the   *)
(* cache and the database one after the other: other processes come in     *)
(* between, and the process may end between any two questions.  It ends on *)
(* an exception, since nothing catches one (IoLoop::run), on an assertion, *)
(* and when it is killed, which stands for an exception of the database    *)
(* library as well: it may come at any step.                               *)
(*                                                                         *)
(* What the cache holds is left out: no login gets anything out of it.     *)
(***************************************************************************)
EXTENDS Naturals, Sequences, FiniteSets

CONSTANTS
  Process,     \* child processes of the login server
  Session,     \* sessions of clients, which ask for one login each
  Home,        \* Home[s]: the process that accepts s: each has a port of its own
  Account,     \* accounts clients know
  none,        \* no account or session
  Timed,       \* bound: sessions whose opening and close are followed
  MaxKills     \* bound: how often a process is killed

ASSUME HomeIsAProcess == Home \in [Session -> Process]
ASSUME NothingIsNone == none \notin Session \cup Account
ASSUME TimedAreSessions == Timed \subseteq Session
ASSUME KillsAreNat == MaxKills \in Nat

VARIABLES
  up,              \* processes that run
  kills,           \* how often a process has been killed
  told,            \* told[s]: what the process was told of s: its opening, its close,
                   \* and a request "late", after the close
  cut,             \* sessions whose process has ended
  taskLoop,        \* taskLoop[p]: messages posted to the task loop of p
  m_session_time,  \* m_session_time[s], at home: "none", "new", or "old": before the last timer
  login,           \* login[p]: the login p is working on
  counter,         \* the counter document: the last user id, or none
  users,           \* documents of users, by user id
  unnamedCache,    \* whether the configuration has a cache without a name
  fate,            \* the login of s: "unsent", "read", "lost" with its process, or the result
  given            \* given[s]: account and user id of a successful login

stores == <<counter, users, unnamedCache>>
tasks == <<told, cut, taskLoop, m_session_time>>
vars == <<up, kills, tasks, login, stores, fate, given>>

\* An account is one the client knows or one generated for the login of s.
Generated(s) == [for |-> s]
Idle == [step |-> "idle", session |-> none, account |-> none, user_id |-> 0]

Result == {"CODE_SUCCESS", "CODE_ACOCUNT_EMPTY", "CODE_SYSTEM_ERROR"}

Init ==
  /\ up = Process
  /\ kills = 0
  /\ told = [s \in Session |-> {}]
  /\ cut = {}
  /\ taskLoop = [p \in Process |-> <<>>]
  /\ m_session_time = [s \in Session |-> "none"]
  /\ login = [p \in Process |-> Idle]
  /\ counter \in {0, none}
  /\ users = <<>>
  /\ unnamedCache \in BOOLEAN
  /\ fate = [s \in Session |-> "unsent"]
  /\ given = [s \in Session |-> [account |-> none, user_id |-> 0]]

-------------------------------------------------------------------------------
(* The sessions of a process, and its session times.                       *)

\* As SessionContract has it: a session reports its opening and its close once each and
\* in any order (they are posted from different threads), and of the requests it reads
\* one at most follows the close.
Posts(s, what) ==
  /\ Home[s] \in up /\ s \notin cut
  /\ taskLoop' = [taskLoop EXCEPT ![Home[s]] = Append(@, what)]
  /\ UNCHANGED <<up, kills, cut, m_session_time, login, stores, given>>

Told(s, what) ==
  /\ what \notin told[s]
  /\ told' = [told EXCEPT ![s] = @ \cup {what}]

\* A request is read: any number of them before the close, and one after it.
ToldRead(s) ==
  IF "close" \in told[s] THEN Told(s, "late") ELSE UNCHANGED told

Tells(s, cmd) ==
  /\ Told(s, cmd)
  /\ Posts(s, [cmd |-> cmd, session |-> s])
  /\ UNCHANGED fate

Opens(s) == Tells(s, "open")
Closes(s) == Tells(s, "close")

\* A request with the command of an opening or a close, as often as the peer likes; the
\* task handles it as the report of the session (MessageTask::do_handle_message).
\* Bounds: it is not the first thing told of the session, and not posted while an
\* opening or a close of the session waits.
ReadsOwn(s, cmd) ==
  /\ told[s] # {}
  /\ ToldRead(s)
  /\ \A i \in 1..Len(taskLoop[Home[s]]) :
       taskLoop[Home[s]][i].session = s => taskLoop[Home[s]][i].cmd = "login"
  /\ Posts(s, [cmd |-> cmd, session |-> s])
  /\ UNCHANGED fate

\* A login request, on_login or on_robot_login: both call user_login alike.  One that
\* names no account gets one generated when it comes from an app, or has none.
Reads(s) ==
  /\ fate[s] = "unsent"
  /\ fate' = [fate EXCEPT ![s] = "read"]
  /\ \E account \in Account \cup {none, Generated(s)} :
       Posts(s, [cmd |-> "login", session |-> s, account |-> account])
  /\ ToldRead(s)

Takes(p, cmd) ==
  /\ login[p].step = "idle"
  /\ taskLoop[p] # <<>>
  /\ Head(taskLoop[p]).cmd = cmd
  /\ taskLoop' = [taskLoop EXCEPT ![p] = Tail(@)]
  /\ UNCHANGED <<up, kills, told, cut, stores, given>>

UserSessionOpen(p) ==
  /\ Takes(p, "open")
  /\ m_session_time' = [m_session_time EXCEPT ![Head(taskLoop[p]).session] = "new"]
  /\ UNCHANGED <<login, fate>>

UserSessionClose(p) ==
  /\ Takes(p, "close")
  /\ m_session_time' = [m_session_time EXCEPT ![Head(taskLoop[p]).session] = "none"]
  /\ UNCHANGED <<login, fate>>

\* Fault: the comparison with the limit is turned round.
KeptAfterReversed(time) == IF time = "new" THEN {"none", "old"} ELSE {time}

\* What a timer that runs every m_max_login_sec leaves of an entry.  One it has met
\* before is as old as that; a new one is if the timer is late.
KeptAfter(time) == IF time = "new" THEN {"none", "old"} ELSE {"none"}

\* on_timeout sets the timer again whatever happens, and never closes a session.
OnTimeout(p) ==
  /\ p \in up /\ login[p].step = "idle"
  /\ \E kept \in [Session -> {"none", "new", "old"}] :
       /\ \A s \in Session : kept[s] \in IF Home[s] = p THEN KeptAfter(m_session_time[s])
                                         ELSE {m_session_time[s]}
       /\ m_session_time' = kept
  /\ UNCHANGED <<up, kills, told, cut, taskLoop, login, stores, fate, given>>

-------------------------------------------------------------------------------
(* The end of a process.                                                   *)

\* The requests a process has read and not answered.
Holds(p) ==
  {s \in Session : login[p].session = s \/
     \E i \in 1..Len(taskLoop[p]) : taskLoop[p][i].cmd = "login" /\ taskLoop[p][i].session = s}

\* Nothing catches an exception or a failed assertion: the process ends, and everything
\* it keeps with it.
Ends(p) ==
  /\ p \in up
  /\ up' = up \ {p}
  /\ cut' = cut \cup {s \in Session : Home[s] = p /\ (told[s] # {} \/ fate[s] # "unsent")}
  /\ taskLoop' = [taskLoop EXCEPT ![p] = <<>>]
  /\ m_session_time' = [s \in Session |-> IF Home[s] = p THEN "none" ELSE m_session_time[s]]
  /\ login' = [login EXCEPT ![p] = Idle]
  /\ fate' = [s \in Session |-> IF s \in Holds(p) THEN "lost" ELSE fate[s]]
  /\ UNCHANGED <<told, stores, given>>

Killed(p) == kills < MaxKills /\ kills' = kills + 1 /\ Ends(p)

\* create_one_process waits for the child and starts it again.
CreateOneProcess(p) ==
  /\ p \notin up
  /\ up' = up \cup {p}
  /\ UNCHANGED <<kills, tasks, login, stores, fate, given>>

-------------------------------------------------------------------------------
(* A login, from question to question.                                     *)

\* The process asks next; or answers the client and turns to its next message.
Asks(p, step, account, user_id) ==
  /\ login' = [login EXCEPT ![p] =
       [@ EXCEPT !.step = step, !.account = account, !.user_id = user_id]]
  /\ UNCHANGED <<fate, given>>

Answers(p, s, result) ==
  /\ login' = [login EXCEPT ![p] = Idle]
  /\ fate' = [fate EXCEPT ![s] = result]

Fails(p, s, result) == Answers(p, s, result) /\ UNCHANGED given

Succeeds(p, user_id) ==
  /\ Answers(p, login[p].session, "CODE_SUCCESS")
  /\ given' = [given EXCEPT ![login[p].session] = [account |-> login[p].account, user_id |-> user_id]]

At(p, step) == login[p].step = step /\ UNCHANGED <<up, kills, tasks>>

EndsAt(p, step) == login[p].step = step /\ UNCHANGED kills /\ Ends(p)

\* user_login up to the first question.
UserLogin(p) ==
  /\ Takes(p, "login")
  /\ LET m == Head(taskLoop[p])
     IN  IF m.account = none
         THEN Answers(p, m.session, "CODE_ACOCUNT_EMPTY")
         ELSE /\ login' = [login EXCEPT ![p] =
                   [step |-> "cache", session |-> m.session, account |-> m.account, user_id |-> 0]]
              /\ UNCHANGED fate
  /\ UNCHANGED m_session_time

\* query_from_redis goes on after an error.  For the array a cache replies with, even of
\* a missing key, pair_array_to_json returns null and from_json throws.
QueryFromRedis(p) ==
  \/ At(p, "cache") /\ Asks(p, "find", login[p].account, 0) /\ UNCHANGED stores
  \/ EndsAt(p, "cache")

\* Fault: the user is looked for under the name the account is stored with.
FoundByAccount(account) == {id \in DOMAIN users : users[id].account = account}

\* find_one looks for user_account, and the documents say account.
Found(account) ==
  {id \in DOMAIN users : "user_account" \in DOMAIN users[id] /\ users[id].user_account = account}

\* query_from_mongo, query_user_account.  The log of a missing user reads the empty
\* result, which ends the process or not; a user found is written to the cache.
QueryFromMongo(p) ==
  IF Found(login[p].account) = {}
  THEN \/ At(p, "find") /\ Asks(p, "new id", login[p].account, 0) /\ UNCHANGED stores
       \/ EndsAt(p, "find")
  ELSE IF unnamedCache
  THEN At(p, "find") /\ (\E id \in Found(login[p].account) : Succeeds(p, id)) /\ UNCHANGED stores
  ELSE EndsAt(p, "find")

\* Fault: the client does not hear of the failure.
QueryNewUseridSilent(p) ==
  /\ At(p, "new id")
  /\ counter # none
  /\ counter' = counter + 1
  /\ Asks(p, "write account", login[p].account, counter')
  /\ UNCHANGED <<users, unnamedCache>>

\* Fault: the counter is read and not increased.
QueryNewUseridNoIncrement(p) ==
  /\ At(p, "new id")
  /\ IF counter = none
     THEN Fails(p, login[p].session, "CODE_SYSTEM_ERROR")
     ELSE Asks(p, "write account", login[p].account, counter + 1)
  /\ UNCHANGED stores

\* query_new_userid increments the counter document and fails without one.
QueryNewUserid(p) ==
  /\ At(p, "new id")
  /\ IF counter = none
     THEN UNCHANGED counter /\ Fails(p, login[p].session, "CODE_SYSTEM_ERROR")
     ELSE /\ counter' = counter + 1
          /\ Asks(p, "write account", login[p].account, counter')
  /\ UNCHANGED <<users, unnamedCache>>

\* json_to_hash writes to the cache without a name and asserts that there is one.
JsonToHash(p) ==
  \/ /\ At(p, "write account")
     /\ unnamedCache
     /\ Asks(p, "write user", login[p].account, login[p].user_id)
     /\ UNCHANGED stores
  \/ EndsAt(p, "write account") /\ ~unnamedCache

\* insert_new_user, which returns nothing when all went well: the caller takes it for
\* success or for failure.
InsertNewUser(p) ==
  /\ At(p, "write user")
  /\ users' = [id \in DOMAIN users \cup {login[p].user_id} |->
       IF id = login[p].user_id THEN [account |-> login[p].account] ELSE users[id]]
  /\ \/ Succeeds(p, login[p].user_id)
     \/ Fails(p, login[p].session, "CODE_ACOCUNT_EMPTY")
  /\ UNCHANGED <<counter, unnamedCache>>

-------------------------------------------------------------------------------

\* What a process does of its own accord.
Works(p) ==
  \/ UserSessionOpen(p) \/ UserSessionClose(p) \/ UserLogin(p)
  \/ QueryFromRedis(p) \/ QueryFromMongo(p) \/ QueryNewUserid(p)
  \/ JsonToHash(p) \/ InsertNewUser(p)

Next ==
  \/ \E p \in Process : Works(p) \/ OnTimeout(p) \/ Killed(p) \/ CreateOneProcess(p)
  \/ \E s \in Timed : Opens(s) \/ Closes(s) \/ ReadsOwn(s, "open") \/ ReadsOwn(s, "close")
  \/ \E s \in Session : Reads(s)

\* Loops run, stores reply, timers expire and the master starts what ended.  Clients owe
\* nothing.
Fairness ==
  \A p \in Process : WF_vars(Works(p)) /\ SF_vars(OnTimeout(p)) /\ WF_vars(CreateOneProcess(p))

Spec == Init /\ [][Next]_vars /\ Fairness

-------------------------------------------------------------------------------
(* Properties.                                                             *)

\* Type invariant of the login server and its stores.
TypeOK ==
  /\ up \in SUBSET Process
  /\ kills \in 0..MaxKills
  /\ m_session_time \in [Session -> {"none", "new", "old"}]
  /\ \A p \in Process :
       /\ login[p].step \in {"idle", "cache", "find", "new id", "write account", "write user"}
       /\ login[p].step # "idle" =>
            /\ p \in up
            /\ Home[login[p].session] = p /\ login[p].session \notin cut
            /\ login[p].account \in Account \cup {Generated(login[p].session)}
            /\ login[p].step = "write user" => login[p].user_id \in 1..counter
  /\ DOMAIN users \subseteq Nat
  /\ fate \in [Session -> {"unsent", "read", "lost"} \cup Result]
  /\ \A s \in Session : m_session_time[s] # "none" => Home[s] \in up

\* Whoever is told a user id is that user in the database, whatever other processes
\* did between the steps of the login and whichever processes ended since.
ToldUserExists ==
  \A s \in Session : fate[s] = "CODE_SUCCESS" =>
    /\ given[s].user_id \in DOMAIN users
    /\ users[given[s].user_id].account = given[s].account

\* No login finds the user of an earlier one, not even with the same account: every
\* success registers a user anew (LoginModule.cpp:292 against line 58).
EveryLoginRegisters ==
  \A q, s \in Session :
    q # s /\ fate[q] = "CODE_SUCCESS" /\ fate[s] = "CODE_SUCCESS" =>
      given[q].user_id # given[s].user_id

\* The user a login is given is its own.
LoginInv == TypeOK /\ EveryLoginRegisters

\* A login that was read is answered, or its process ends.
LoginDecided == \A s \in Session : fate[s] = "read" ~> fate[s] \in Result \cup {"lost"}

\* A process that has ended comes back, every time.
ProcessComesBack == \A p \in Process : p \notin up ~> p \in up

\* Clients are served on: their logins are decided, and whatever ends is started again.
LoginsGoOn == LoginDecided /\ ProcessComesBack

\* The handling of an opening of s, the session's own or a request of its peer.
OpeningHandled(s) == \E p \in Process : UserSessionOpen(p) /\ Head(taskLoop[p]).session = s

\* The time of a session does not stay in the map, not even when its opening is handled
\* after its close: the timer finds it (on_timeout).  It does as long as the peer keeps
\* sending the command of an opening, which starts the time anew.
SessionTimesGo ==
  \A s \in Session : []<>(m_session_time[s] = "none") \/ []<><<OpeningHandled(s)>>_vars

===============================================================================
