------------------------------- MODULE Login_proofs -------------------------------
(***************************************************************************)
(* Proofs about Login for any processes, sessions and accounts, and any    *)
(* number of ends of processes.                                            *)
(*                                                                         *)
(* The login of a session is in one place: on the task loop of its         *)
(* process, being worked on there, or decided (Waiting, Working, Decided). *)
(* Ids carries the argument about users: the counter gives every id once,  *)
(* so that an id is with one login that has yet to write its user, or with *)
(* one user, or was lost with a process.  That whoever is told an id is    *)
(* that user, and the only one told it, follows.                           *)
(***************************************************************************)
EXTENDS Login, Queues

-------------------------------------------------------------------------------
(* The invariant.                                                          *)

\* What stands for the login of s on the task loop of its process.
Named(s) == Account \cup {none, Generated(s)}
LoginOf(s) == [cmd : {"login"}, session : {s}, account : Named(s)]

\* What can be posted to the task loop of p.
SessionsOf(p) == {s \in Session : Home[s] = p}
Message(p) ==
  [cmd : {"open", "close"}, session : SessionsOf(p)] \cup UNION {LoginOf(s) : s \in SessionsOf(p)}

Waiting(s) == Has(taskLoop[Home[s]], LoginOf(s))
Working(s) == login[Home[s]].session = s

\* A login has its id and has not written its user.
HoldsId(p) == login[p].step \in {"write account", "write user"}

LoginStep == {"idle", "cache", "find", "new id", "write account", "write user"}

\* A process at rest keeps nothing of a login; one at work has a session of its own.
WorksOn(p) ==
  IF login[p].step = "idle" THEN login[p] = Idle
  ELSE /\ login[p].session \in SessionsOf(p)
       /\ login[p].account \in Account \cup {Generated(login[p].session)}

\* Types of what TypeOK leaves open.
Types ==
  /\ up \subseteq Process /\ kills \in 0..MaxKills
  /\ told \in [Session -> SUBSET {"open", "close", "late"}] /\ cut \subseteq Session
  /\ \A p \in Process : taskLoop[p] \in Seq(Message(p)) /\ (p \notin up => taskLoop[p] = <<>>)
  /\ taskLoop = [p \in Process |-> taskLoop[p]]
  /\ m_session_time \in [Session -> {"none", "new", "old"}]
  /\ \A s \in Session : m_session_time[s] # "none" => Home[s] \in up
  /\ login \in [Process -> [step : LoginStep, session : Session \cup {none},
                            account : Account \cup {none} \cup {Generated(s) : s \in Session},
                            user_id : Nat]]
  /\ \A p \in Process : WorksOn(p) /\ (login[p].step # "idle" => p \in up)
  /\ fate \in [Session -> {"unsent", "read", "lost"} \cup Result]
  /\ given \in [Session -> [account : Account \cup {none} \cup {Generated(s) : s \in Session},
                            user_id : Nat]]

\* A login that was read is in one place until it is decided.
Placed(s) ==
  /\ Waiting(s) \/ Working(s) => fate[s] = "read" /\ s \notin cut
  /\ ~(Waiting(s) /\ Working(s))
  /\ Once(taskLoop[Home[s]], LoginOf(s))

\* An id was drawn from the counter.
Drawn(id) == counter \in Nat /\ id \in 1..counter

\* An id is with one login, or with one user.
Ids ==
  /\ counter \in Nat \cup {none}
  /\ \A id \in DOMAIN users : Drawn(id) /\ users[id] = [account |-> users[id].account]
  /\ \A p \in Process : HoldsId(p) => Drawn(login[p].user_id) /\ login[p].user_id \notin DOMAIN users
  /\ \A p, q \in Process : HoldsId(p) /\ HoldsId(q) /\ login[p].user_id = login[q].user_id => p = q

\* What is said of ids, users and what clients were told.
Users == Ids /\ ToldUserExists /\ EveryLoginRegisters

IInv == Types /\ (\A s \in Session : Placed(s)) /\ Users

-------------------------------------------------------------------------------
(* The task loops.                                                         *)

\* A message to p is of a session of p, and a login is of one session.
LEMMA MessageIs ==
  ASSUME NEW p \in Process, NEW m \in Message(p)
  PROVE  /\ m.session \in Session /\ Home[m.session] = p
         /\ m.cmd = "login" => m \in LoginOf(m.session) /\ m.account \in Named(m.session)
         /\ \A t : m \in LoginOf(t) => t = m.session /\ m.cmd = "login"
<1>1. CASE m \in [cmd : {"open", "close"}, session : SessionsOf(p)]
  BY <1>1 DEF SessionsOf, LoginOf
<1>2. CASE \E s \in SessionsOf(p) : m \in LoginOf(s)
  BY <1>2 DEF SessionsOf, LoginOf
<1>3. QED
  BY <1>1, <1>2 DEF Message

\* A message is posted to the loop of p.
LEMMA PostDoes ==
  ASSUME Types, NEW p \in Process, p \in up, NEW m \in Message(p),
         taskLoop' = [taskLoop EXCEPT ![p] = Append(@, m)]
  PROVE  /\ \A q \in Process : taskLoop'[q] \in Seq(Message(q))
         /\ \A q \in Process : q \notin up => taskLoop'[q] = <<>>
         /\ taskLoop' = [q \in Process |-> taskLoop'[q]]
         /\ \A t \in Session : Waiting(t)' <=> Waiting(t) \/ m \in LoginOf(t)
         /\ \A t \in Session : Once(taskLoop[Home[t]], LoginOf(t)) /\ ~(m \in LoginOf(t) /\ Waiting(t))
              => Once(taskLoop'[Home[t]], LoginOf(t))
<1> DEFINE q == taskLoop[p]
<1>1. /\ q \in Seq(Message(p)) /\ taskLoop = [r \in Process |-> taskLoop[r]]
      /\ \A r \in Process : taskLoop[r] \in Seq(Message(r)) /\ (r \notin up => taskLoop[r] = <<>>)
  BY DEF Types
<1>2. /\ taskLoop'[p] = Append(q, m) /\ \A r \in Process \ {p} : taskLoop'[r] = taskLoop[r]
      /\ taskLoop' = [r \in Process |-> taskLoop'[r]]
  BY <1>1
<1>3. /\ Append(q, m) \in Seq(Message(p))
      /\ \A S : Has(Append(q, m), S) <=> Has(q, S) \/ m \in S
      /\ \A S : Once(q, S) /\ ~(m \in S /\ Has(q, S)) => Once(Append(q, m), S)
  BY <1>1, AppendQueue
<1>4. ASSUME NEW t \in Session
      PROVE  /\ Waiting(t)' <=> Waiting(t) \/ m \in LoginOf(t)
             /\ Once(taskLoop[Home[t]], LoginOf(t)) /\ ~(m \in LoginOf(t) /\ Waiting(t))
                  => Once(taskLoop'[Home[t]], LoginOf(t))
  <2>1. CASE Home[t] = p
    BY <1>2, <1>3, <2>1 DEF Waiting
  <2>2. CASE Home[t] # p
    <3>1. Home[t] \in Process \ {p} /\ m \notin LoginOf(t)
      BY <2>2, HomeIsAProcess, MessageIs
    <3>2. QED
      BY <1>2, <3>1 DEF Waiting
  <2>3. QED
    BY <2>1, <2>2
<1>5. /\ \A r \in Process : taskLoop'[r] \in Seq(Message(r))
      /\ \A r \in Process : r \notin up => taskLoop'[r] = <<>>
  BY <1>1, <1>2, <1>3
<1>6. QED
  BY <1>2, <1>4, <1>5

\* A process takes its next message.
LEMMA TakeDoes ==
  ASSUME Types, NEW p \in Process, NEW cmd, Takes(p, cmd)
  PROVE  LET m == Head(taskLoop[p]) IN
         /\ p \in up /\ m \in Message(p) /\ m.cmd = cmd
         /\ \A q \in Process : taskLoop'[q] \in Seq(Message(q))
         /\ \A q \in Process : q \notin up => taskLoop'[q] = <<>>
         /\ taskLoop' = [q \in Process |-> taskLoop'[q]]
         /\ \A t \in Session : Waiting(t) <=> Waiting(t)' \/ m \in LoginOf(t)
         /\ \A t \in Session : Once(taskLoop[Home[t]], LoginOf(t)) =>
              Once(taskLoop'[Home[t]], LoginOf(t)) /\ ~(m \in LoginOf(t) /\ Waiting(t)')
<1> DEFINE q == taskLoop[p]
           m == Head(q)
<1>1. /\ q \in Seq(Message(p)) /\ taskLoop = [r \in Process |-> taskLoop[r]]
      /\ \A r \in Process : taskLoop[r] \in Seq(Message(r)) /\ (r \notin up => taskLoop[r] = <<>>)
  BY DEF Types
<1>2. q # <<>> /\ p \in up /\ m.cmd = cmd /\ taskLoop' = [taskLoop EXCEPT ![p] = Tail(q)]
  BY <1>1 DEF Takes
<1>3. /\ taskLoop'[p] = Tail(q) /\ \A r \in Process \ {p} : taskLoop'[r] = taskLoop[r]
      /\ taskLoop' = [r \in Process |-> taskLoop'[r]]
  BY <1>1, <1>2
<1>4. /\ Tail(q) \in Seq(Message(p)) /\ m \in Message(p)
      /\ \A S : Has(q, S) <=> Has(Tail(q), S) \/ m \in S
      /\ \A S : Once(q, S) => Once(Tail(q), S) /\ ~(m \in S /\ Has(Tail(q), S))
  BY <1>1, <1>2, TailQueue
<1> HIDE DEF m
<1>5. ASSUME NEW t \in Session
      PROVE  /\ Waiting(t) <=> Waiting(t)' \/ m \in LoginOf(t)
             /\ Once(taskLoop[Home[t]], LoginOf(t)) =>
                  Once(taskLoop'[Home[t]], LoginOf(t)) /\ ~(m \in LoginOf(t) /\ Waiting(t)')
  <2>1. CASE Home[t] = p
    BY <1>3, <1>4, <2>1 DEF Waiting
  <2>2. CASE Home[t] # p
    <3>1. Home[t] \in Process \ {p} /\ m \notin LoginOf(t)
      BY <1>4, <2>2, HomeIsAProcess, MessageIs
    <3>2. QED
      BY <1>3, <3>1 DEF Waiting
  <2>3. QED
    BY <2>1, <2>2
<1>6. /\ \A r \in Process : taskLoop'[r] \in Seq(Message(r))
      /\ \A r \in Process : r \notin up => taskLoop'[r] = <<>>
  BY <1>1, <1>2, <1>3, <1>4
<1>7. QED
  BY <1>2, <1>3, <1>4, <1>5, <1>6 DEF m

-------------------------------------------------------------------------------
(* A login, from question to question.                                     *)

Accounts == Account \cup {none} \cup {Generated(s) : s \in Session}
LoginState ==
  [step : LoginStep, session : Session \cup {none}, account : Accounts, user_id : Nat]

\* A process at work works on a session of its own, and on no other.
LEMMA WorkIs ==
  ASSUME Types, NEW p \in Process
  PROVE  /\ login[p] \in LoginState
         /\ login[p].step # "idle" => p \in up
         /\ login[p].step # "idle" =>
              /\ login[p].session \in Session /\ Home[login[p].session] = p /\ Working(login[p].session)
              /\ login[p].account \in Account \cup {Generated(login[p].session)}
         /\ login[p].step = "idle" => login[p] = Idle
         /\ \A s \in Session : Home[s] = p => (Working(s) <=> login[p].session = s)
         /\ \A s \in Session : Home[s] = p /\ Working(s) => login[p].step # "idle"
BY NothingIsNone DEF Types, WorksOn, SessionsOf, Working, Idle, LoginState, Accounts

\* What is true of all processes when only the login of p changes, to r.
LEMMA LoginChanges ==
  ASSUME Types, NEW p \in Process, p \in up', UNCHANGED up, NEW r \in LoginState,
         login' = [login EXCEPT ![p] = r],
         IF r.step = "idle" THEN r = Idle
         ELSE r.session \in SessionsOf(p) /\ r.account \in Account \cup {Generated(r.session)}
  PROVE  /\ login' \in [Process -> LoginState] /\ login'[p] = r
         /\ \A q \in Process \ {p} : login'[q] = login[q]
         /\ \A q \in Process : WorksOn(q)' /\ (login'[q].step # "idle" => q \in up')
         /\ \A s \in Session : Home[s] # p => (Working(s)' <=> Working(s))
         /\ \A s \in Session : Home[s] = p => (Working(s)' <=> r.session = s)
<1>1. login \in [Process -> LoginState]
  BY DEF Types, LoginState, Accounts
<1>2. /\ login' \in [Process -> LoginState] /\ login'[p] = r
      /\ \A q \in Process \ {p} : login'[q] = login[q]
  BY <1>1
<1>3. ASSUME NEW q \in Process PROVE WorksOn(q)' /\ (login'[q].step # "idle" => q \in up')
  <2>1. CASE q = p
    BY <1>2, <2>1 DEF WorksOn
  <2>2. CASE q # p
    <3>1. WorksOn(q) /\ (login[q].step # "idle" => q \in up) /\ login'[q] = login[q]
      BY <1>2, <2>2 DEF Types
    <3>2. QED
      BY <3>1 DEF WorksOn
  <2>3. QED
    BY <2>1, <2>2
<1>4. /\ \A s \in Session : Home[s] # p => (Working(s)' <=> Working(s))
      /\ \A s \in Session : Home[s] = p => (Working(s)' <=> r.session = s)
  BY <1>2, HomeIsAProcess DEF Working
<1>5. QED
  BY <1>2, <1>3, <1>4

\* A process asks its next question.
LEMMA AsksDoes ==
  ASSUME Types, \A s \in Session : Placed(s), NEW p \in Process, login[p].step # "idle",
         UNCHANGED <<up, kills, tasks>>,
         NEW step \in LoginStep \ {"idle"}, NEW id \in Nat, Asks(p, step, login[p].account, id)
  PROVE  /\ Types' /\ \A s \in Session : Placed(s)'
         /\ login'[p].step = step /\ login'[p].user_id = id
         /\ \A q \in Process \ {p} : login'[q] = login[q]
         /\ UNCHANGED <<fate, given>>
<1> DEFINE r == [login[p] EXCEPT !.step = step, !.account = login[p].account, !.user_id = id]
<1>1. /\ login[p] \in LoginState /\ p \in up /\ login[p].session \in SessionsOf(p)
      /\ login[p].account \in Account \cup {Generated(login[p].session)}
      /\ \A s \in Session : Home[s] = p => (Working(s) <=> login[p].session = s)
  BY WorkIs DEF SessionsOf
<1>2. /\ r \in LoginState /\ r.step = step /\ r.session = login[p].session
      /\ r.account = login[p].account /\ r.user_id = id
  BY <1>1 DEF LoginState
<1>3. login' = [login EXCEPT ![p] = r] /\ UNCHANGED <<fate, given>>
  BY DEF Asks
<1> HIDE DEF r
<1>4. /\ login' \in [Process -> LoginState] /\ login'[p] = r
      /\ \A q \in Process \ {p} : login'[q] = login[q]
      /\ \A q \in Process : WorksOn(q)' /\ (login'[q].step # "idle" => q \in up')
      /\ \A s \in Session : Home[s] # p => (Working(s)' <=> Working(s))
      /\ \A s \in Session : Home[s] = p => (Working(s)' <=> r.session = s)
  BY <1>1, <1>2, <1>3, LoginChanges
<1>5. UNCHANGED <<told, cut, taskLoop, m_session_time, up, kills, fate, given>>
  BY <1>3 DEF tasks
<1>6. Types'
  BY <1>4, <1>5 DEF Types, LoginState, Accounts
<1>7. ASSUME NEW s \in Session PROVE Placed(s)'
  <2>1. (Working(s)' <=> Working(s)) /\ (Waiting(s)' <=> Waiting(s))
    BY <1>1, <1>2, <1>4, <1>5 DEF Waiting
  <2>2. QED
    BY <1>5, <2>1 DEF Placed
<1>8. QED
  BY <1>2, <1>3, <1>4, <1>6, <1>7

\* A process answers the login it works on, and rests.
LEMMA AnswersDoes ==
  ASSUME Types, \A s \in Session : Placed(s), NEW p \in Process, login[p].step # "idle",
         UNCHANGED <<up, kills, tasks>>,
         NEW result \in Result, Answers(p, login[p].session, result),
         given' \in [Session -> [account : Accounts, user_id : Nat]]
  PROVE  /\ Types' /\ \A s \in Session : Placed(s)'
         /\ login'[p] = Idle /\ \A q \in Process \ {p} : login'[q] = login[q]
         /\ fate[login[p].session] = "read" /\ fate'[login[p].session] = result
         /\ \A s \in Session : s # login[p].session => fate'[s] = fate[s]
<1> DEFINE w == login[p].session
<1>1. /\ p \in up /\ w \in Session /\ Home[w] = p /\ Working(w)
      /\ \A s \in Session : Home[s] = p => (Working(s) <=> w = s)
  BY WorkIs
<1>2. Idle \in LoginState /\ Idle.step = "idle" /\ Idle.session = none
  BY DEF Idle, LoginState, LoginStep, Accounts
<1>3. login' = [login EXCEPT ![p] = Idle] /\ fate' = [fate EXCEPT ![w] = result]
  BY DEF Answers
<1> HIDE DEF w
<1>4. /\ login' \in [Process -> LoginState] /\ login'[p] = Idle
      /\ \A q \in Process \ {p} : login'[q] = login[q]
      /\ \A q \in Process : WorksOn(q)' /\ (login'[q].step # "idle" => q \in up')
      /\ \A s \in Session : Home[s] # p => (Working(s)' <=> Working(s))
      /\ \A s \in Session : Home[s] = p => (Working(s)' <=> Idle.session = s)
  BY <1>1, <1>2, <1>3, LoginChanges
<1>5. UNCHANGED <<told, cut, taskLoop, m_session_time, up, kills>>
  BY DEF tasks
<1>6. fate \in [Session -> {"unsent", "read", "lost"} \cup Result]
  BY DEF Types
<1>7. /\ fate' \in [Session -> {"unsent", "read", "lost"} \cup Result] /\ fate'[w] = result
      /\ \A s \in Session : s # w => fate'[s] = fate[s]
  BY <1>1, <1>3, <1>6
<1>8. Types'
  BY <1>4, <1>5, <1>7 DEF Types, LoginState, Accounts
<1>9. ASSUME NEW s \in Session PROVE Placed(s)'
  <2>1. (Working(s)' => Working(s) /\ s # w) /\ (Waiting(s)' <=> Waiting(s))
    BY <1>1, <1>2, <1>4, <1>5, NothingIsNone DEF Waiting
  <2>2. s = w => ~Waiting(s)
    BY <1>1 DEF Placed
  <2>3. QED
    BY <1>5, <1>7, <2>1, <2>2 DEF Placed
<1>10. fate[w] = "read"
  BY <1>1 DEF Placed
<1>11. QED
  BY <1>4, <1>7, <1>8, <1>9, <1>10 DEF w

-------------------------------------------------------------------------------
(* Ids and users.                                                          *)

\* query_from_mongo looks for a key that no document has.
LEMMA NothingFound ==
  ASSUME Ids, NEW account
  PROVE  Found(account) = {}
<1>1. ASSUME NEW id \in DOMAIN users PROVE "user_account" \notin DOMAIN users[id]
  <2>1. users[id] = [account |-> users[id].account]
    BY DEF Ids
  <2>2. DOMAIN [account |-> users[id].account] = {"account"}
    OBVIOUS
  <2>3. QED
    BY <2>1, <2>2
<1>2. QED
  BY <1>1 DEF Found

\* A step that draws no id, writes no user and tells nobody an id.
LEMMA UsersSame ==
  ASSUME Users, UNCHANGED <<counter, users>>,
         \A s \in Session : fate'[s] = "CODE_SUCCESS" => fate[s] = "CODE_SUCCESS" /\ given'[s] = given[s],
         \A p \in Process : HoldsId(p)' => HoldsId(p) /\ login'[p].user_id = login[p].user_id
  PROVE  Users'
<1>1. Ids'
  BY DEF Users, Ids, Drawn
<1>2. ToldUserExists'
  BY DEF Users, ToldUserExists
<1>3. EveryLoginRegisters'
  BY DEF Users, EveryLoginRegisters
<1>4. QED
  BY <1>1, <1>2, <1>3 DEF Users

\* query_new_userid: the counter gives an id it has not given before.
LEMMA DrawDoes ==
  ASSUME Users, NEW p \in Process, counter \in Nat, counter' = counter + 1,
         UNCHANGED <<users, fate, given>>, login'[p].user_id = counter',
         \A q \in Process \ {p} : login'[q] = login[q]
  PROVE  Users'
<1> DEFINE New(id) == counter' \in Nat /\ id \in 1..counter'
<1>1. ASSUME NEW id, Drawn(id) PROVE New(id) /\ id # counter'
  BY <1>1 DEF Drawn
<1>2. New(counter') /\ \A id : New(id) <=> Drawn(id)'
  BY DEF Drawn
<1> HIDE DEF New
<1>3. counter' \notin DOMAIN users
  BY <1>1 DEF Users, Ids
<1>4. \A q \in Process \ {p} : HoldsId(q)' =>
        HoldsId(q) /\ Drawn(login[q].user_id) /\ login'[q].user_id = login[q].user_id
  BY DEF HoldsId, Users, Ids
<1>5. \A q \in Process : HoldsId(q)' => New(login'[q].user_id) /\ login'[q].user_id \notin DOMAIN users
  BY <1>1, <1>2, <1>3, <1>4 DEF Users, Ids
<1>6. ASSUME NEW q \in Process, NEW r \in Process, HoldsId(q)', HoldsId(r)',
             login'[q].user_id = login'[r].user_id
      PROVE  q = r
  <2>1. CASE q # p /\ r # p
    BY <1>4, <1>6, <2>1 DEF Users, Ids
  <2>2. CASE q = p /\ r # p
    BY <1>1, <1>4, <1>6, <2>2
  <2>3. CASE q # p /\ r = p
    BY <1>1, <1>4, <1>6, <2>3
  <2>4. QED
    BY <2>1, <2>2, <2>3
<1>7. Ids'
  <2>1. /\ counter' \in Nat \cup {none}
        /\ \A id \in DOMAIN users' : Drawn(id)' /\ users'[id] = [account |-> users'[id].account]
    BY <1>1, <1>2 DEF Users, Ids
  <2>2. \A q \in Process : HoldsId(q)' => Drawn(login[q].user_id)' /\ login'[q].user_id \notin DOMAIN users'
    BY <1>5 DEF Drawn, New
  <2>3. QED
    BY <1>6, <2>1, <2>2 DEF Ids
<1>8. ToldUserExists' /\ EveryLoginRegisters'
  BY DEF Users, ToldUserExists, EveryLoginRegisters
<1>9. QED
  BY <1>7, <1>8 DEF Users

\* insert_new_user: the user is written under the id of its login, and the client told
\* that it failed, or told the id.
LEMMA WritesUser ==
  ASSUME Users, NEW p \in Process, HoldsId(p), UNCHANGED counter,
         users' = [id \in DOMAIN users \cup {login[p].user_id} |->
                     IF id = login[p].user_id THEN [account |-> login[p].account] ELSE users[id]],
         ~HoldsId(p)', \A q \in Process \ {p} : login'[q] = login[q],
         \A s \in Session : fate'[s] = "CODE_SUCCESS" =>
           \/ fate[s] = "CODE_SUCCESS" /\ given'[s] = given[s]
           \/ /\ s = login[p].session
              /\ given'[s] = [account |-> login[p].account, user_id |-> login[p].user_id]
  PROVE  Users'
<1> DEFINE n == login[p].user_id
           a == login[p].account
           w == login[p].session
<1>1. Drawn(n) /\ n \notin DOMAIN users
  BY DEF Users, Ids
<1>2. /\ DOMAIN users' = DOMAIN users \cup {n} /\ users'[n] = [account |-> a]
      /\ \A id \in DOMAIN users : users'[id] = users[id]
  BY <1>1
<1>3. \A q \in Process : HoldsId(q)' =>
        q # p /\ HoldsId(q) /\ login'[q].user_id = login[q].user_id /\ login[q].user_id # n
  BY DEF HoldsId, Users, Ids
<1>4. \A id : Drawn(id)' <=> Drawn(id)
  BY DEF Drawn
<1>5. \A s \in Session : fate'[s] = "CODE_SUCCESS" =>
        \/ fate[s] = "CODE_SUCCESS" /\ given'[s] = given[s]
        \/ s = w /\ given'[s].account = a /\ given'[s].user_id = n
  OBVIOUS
<1> HIDE DEF n, a, w
<1>6. Ids'
  <2>1. \A id \in DOMAIN users' : Drawn(id)' /\ users'[id] = [account |-> users'[id].account]
    <3> SUFFICES ASSUME NEW id \in DOMAIN users'
                 PROVE  Drawn(id) /\ users'[id] = [account |-> users'[id].account]
      BY <1>4
    <3>1. CASE id = n
      BY <1>1, <1>2, <3>1
    <3>2. CASE id \in DOMAIN users
      BY <1>2, <3>2 DEF Users, Ids
    <3>3. QED
      BY <1>2, <3>1, <3>2
  <2>2. \A q \in Process : HoldsId(q)' => Drawn(login[q].user_id)' /\ login'[q].user_id \notin DOMAIN users'
    <3> SUFFICES ASSUME NEW q \in Process, HoldsId(q)'
                 PROVE  Drawn(login[q].user_id)' /\ login'[q].user_id \notin DOMAIN users'
      OBVIOUS
    <3>1. /\ HoldsId(q) /\ login'[q].user_id = login[q].user_id /\ login[q].user_id # n
          /\ Drawn(login[q].user_id) /\ login[q].user_id \notin DOMAIN users
      BY <1>3 DEF Users, Ids
    <3>2. Drawn(login[q].user_id)'
      BY <3>1 DEF Drawn
    <3>3. QED
      BY <1>2, <3>1, <3>2
  <2>3. \A q, r \in Process : HoldsId(q)' /\ HoldsId(r)' /\ login'[q].user_id = login'[r].user_id => q = r
    BY <1>3 DEF Users, Ids
  <2>4. QED
    BY <2>1, <2>2, <2>3 DEF Users, Ids
<1>7. ToldUserExists'
  <2> SUFFICES ASSUME NEW s \in Session, fate'[s] = "CODE_SUCCESS"
               PROVE  /\ given'[s].user_id \in DOMAIN users'
                      /\ users'[given'[s].user_id].account = given'[s].account
    BY DEF ToldUserExists
  <2>1. CASE fate[s] = "CODE_SUCCESS" /\ given'[s] = given[s]
    BY <1>2, <2>1 DEF Users, ToldUserExists
  <2>2. CASE given'[s].account = a /\ given'[s].user_id = n
    BY <1>2, <2>2
  <2>3. QED
    BY <1>5, <2>1, <2>2
<1>8. EveryLoginRegisters'
  <2> SUFFICES ASSUME NEW q \in Session, NEW s \in Session, q # s,
                      fate'[q] = "CODE_SUCCESS", fate'[s] = "CODE_SUCCESS"
               PROVE  given'[q].user_id # given'[s].user_id
    BY DEF EveryLoginRegisters
  <2>1. \A t \in Session : fate[t] = "CODE_SUCCESS" => given[t].user_id # n
    BY <1>1 DEF Users, ToldUserExists
  <2>2. QED
    BY <1>5, <2>1 DEF Users, EveryLoginRegisters
<1>9. QED
  BY <1>6, <1>7, <1>8 DEF Users

-------------------------------------------------------------------------------
(* The steps.                                                              *)

\* What a session was told grows by a word.
LEMMA ToldTyped ==
  ASSUME IInv, NEW s \in Session, NEW what \in {"open", "close", "late"},
         Told(s, what) \/ ToldRead(s)
  PROVE  told' \in [Session -> SUBSET {"open", "close", "late"}]
<1>1. told \in [Session -> SUBSET {"open", "close", "late"}]
  BY DEF IInv, Types
<1>2. ASSUME NEW word \in {"open", "close", "late"}, Told(s, word)
      PROVE  told' \in [Session -> SUBSET {"open", "close", "late"}]
  BY <1>1, <1>2 DEF Told
<1>3. QED
  BY <1>1, <1>2 DEF ToldRead

\* An opening or a close is posted (LoginTask::on_session_open, on_session_close), the
\* session's report or a request.
LEMMA TellsStep ==
  ASSUME IInv, NEW s \in Session, NEW cmd \in {"open", "close"}, Tells(s, cmd) \/ ReadsOwn(s, cmd)
  PROVE  IInv'
<1> DEFINE m == [cmd |-> cmd, session |-> s]
<1>1. /\ Home[s] \in up /\ taskLoop' = [taskLoop EXCEPT ![Home[s]] = Append(@, m)]
      /\ Told(s, cmd) \/ ToldRead(s)
      /\ UNCHANGED <<up, kills, cut, m_session_time, login, counter, users, fate, given>>
  BY DEF Tells, ReadsOwn, Posts, stores
<1>2. m \in Message(Home[s]) /\ \A t : m \notin LoginOf(t)
  BY DEF Message, SessionsOf, LoginOf
<1> HIDE DEF m
<1>3. /\ \A q \in Process : taskLoop'[q] \in Seq(Message(q))
      /\ \A q \in Process : q \notin up => taskLoop'[q] = <<>>
      /\ taskLoop' = [q \in Process |-> taskLoop'[q]]
      /\ \A t \in Session : Waiting(t)' <=> Waiting(t)
      /\ \A t \in Session : Once(taskLoop[Home[t]], LoginOf(t)) => Once(taskLoop'[Home[t]], LoginOf(t))
  BY <1>1, <1>2, PostDoes, HomeIsAProcess DEF IInv
<1>4. told' \in [Session -> SUBSET {"open", "close", "late"}]
  BY <1>1, ToldTyped
<1>5. Types'
  BY <1>1, <1>3, <1>4 DEF IInv, Types, WorksOn
<1>6. \A t \in Session : Placed(t)'
  BY <1>1, <1>3 DEF IInv, Placed, Working
<1>7. Users'
  BY <1>1, UsersSame DEF IInv, HoldsId
<1>8. QED
  BY <1>5, <1>6, <1>7 DEF IInv

\* A login request is posted (LoginTask::on_login): it is the first of its session.
LEMMA ReadsStep ==
  ASSUME IInv, NEW s \in Session, Reads(s)
  PROVE  IInv'
<1>1. PICK account \in Named(s) : Posts(s, [cmd |-> "login", session |-> s, account |-> account])
  BY DEF Reads, Named
<1> DEFINE m == [cmd |-> "login", session |-> s, account |-> account]
<1>2. /\ Home[s] \in up /\ s \notin cut /\ taskLoop' = [taskLoop EXCEPT ![Home[s]] = Append(@, m)]
      /\ fate[s] = "unsent" /\ fate' = [fate EXCEPT ![s] = "read"]
      /\ UNCHANGED <<up, kills, cut, m_session_time, login, counter, users, given>>
  BY <1>1 DEF Reads, Posts, stores
<1>3. m \in LoginOf(s) /\ s \in SessionsOf(Home[s]) /\ \A t : m \in LoginOf(t) => t = s
  BY DEF LoginOf, SessionsOf
<1>4. m \in Message(Home[s])
  BY <1>3 DEF Message
<1> HIDE DEF m
<1>5. /\ \A q \in Process : taskLoop'[q] \in Seq(Message(q))
      /\ \A q \in Process : q \notin up => taskLoop'[q] = <<>>
      /\ taskLoop' = [q \in Process |-> taskLoop'[q]]
      /\ \A t \in Session : Waiting(t)' <=> Waiting(t) \/ m \in LoginOf(t)
      /\ \A t \in Session : Once(taskLoop[Home[t]], LoginOf(t)) /\ ~(m \in LoginOf(t) /\ Waiting(t))
           => Once(taskLoop'[Home[t]], LoginOf(t))
  BY <1>2, <1>4, PostDoes, HomeIsAProcess DEF IInv
<1>6. /\ fate' \in [Session -> {"unsent", "read", "lost"} \cup Result] /\ fate'[s] = "read"
      /\ \A t \in Session \ {s} : fate'[t] = fate[t]
  BY <1>2 DEF IInv, Types
<1>7. Types'
  <2>1. told' \in [Session -> SUBSET {"open", "close", "late"}]
    BY ToldTyped DEF Reads
  <2>2. QED
    BY <1>2, <1>5, <1>6, <2>1 DEF IInv, Types, WorksOn
<1>8. ~Waiting(s) /\ ~Working(s)
  BY <1>2 DEF IInv, Placed
<1>9. ASSUME NEW t \in Session PROVE Placed(t)'
  <2>1. Placed(t) /\ (Working(t)' <=> Working(t))
    BY <1>2 DEF IInv, Working
  <2>2. CASE t = s
    BY <1>2, <1>3, <1>5, <1>6, <1>8, <2>1, <2>2 DEF Placed
  <2>3. CASE t # s
    BY <1>2, <1>3, <1>5, <1>6, <2>1, <2>3 DEF Placed
  <2>4. QED
    BY <2>2, <2>3
<1>10. Users'
  <2>1. \A t \in Session : fate'[t] = "CODE_SUCCESS" => fate[t] = "CODE_SUCCESS" /\ given'[t] = given[t]
    BY <1>2, <1>6
  <2>2. QED
    BY <1>2, <2>1, UsersSame DEF IInv, HoldsId
<1>11. QED
  BY <1>7, <1>9, <1>10 DEF IInv

\* The opening or the close of a session is handled (user_session_open, _close).
LEMMA SessionStep ==
  ASSUME IInv, NEW p \in Process, UserSessionOpen(p) \/ UserSessionClose(p)
  PROVE  IInv'
<1> DEFINE m == Head(taskLoop[p])
<1>1. PICK cmd \in {"open", "close"}, time \in {"new", "none"} :
        /\ Takes(p, cmd) /\ m_session_time' = [m_session_time EXCEPT ![m.session] = time]
        /\ UNCHANGED <<login, fate>>
  BY DEF UserSessionOpen, UserSessionClose
<1>2. UNCHANGED <<up, kills, told, cut, counter, users, given>>
  BY <1>1 DEF Takes, stores
<1>3. /\ p \in up /\ m \in Message(p) /\ m.cmd = cmd
      /\ \A q \in Process : taskLoop'[q] \in Seq(Message(q))
      /\ \A q \in Process : q \notin up => taskLoop'[q] = <<>>
      /\ taskLoop' = [q \in Process |-> taskLoop'[q]]
      /\ \A t \in Session : Waiting(t) <=> Waiting(t)' \/ m \in LoginOf(t)
      /\ \A t \in Session : Once(taskLoop[Home[t]], LoginOf(t)) => Once(taskLoop'[Home[t]], LoginOf(t))
  BY <1>1, TakeDoes DEF IInv
<1> HIDE DEF m
<1>4. m.session \in Session /\ Home[m.session] = p
  BY <1>3, MessageIs
<1>5. /\ m_session_time' \in [Session -> {"none", "new", "old"}]
      /\ \A s \in Session : m_session_time'[s] # "none" => Home[s] \in up
  BY <1>1, <1>3, <1>4 DEF IInv, Types
<1>6. Types'
  BY <1>1, <1>2, <1>3, <1>5 DEF IInv, Types, WorksOn
<1>7. \A t \in Session : Placed(t)'
  BY <1>1, <1>2, <1>3 DEF IInv, Placed, Working
<1>8. Users'
  BY <1>1, <1>2, UsersSame DEF IInv, HoldsId
<1>9. QED
  BY <1>6, <1>7, <1>8 DEF IInv

\* The timer of the session times fires, or the master starts a process again.
LEMMA OutsideStep ==
  ASSUME IInv, NEW p \in Process, OnTimeout(p) \/ CreateOneProcess(p)
  PROVE  IInv'
<1>1. UNCHANGED <<kills, told, cut, taskLoop, login, counter, users, fate, given>>
  BY DEF OnTimeout, CreateOneProcess, tasks, stores
<1>2. /\ m_session_time' \in [Session -> {"none", "new", "old"}] /\ up' \subseteq Process /\ up \subseteq up'
      /\ \A s \in Session : m_session_time'[s] # "none" => Home[s] \in up'
  <2>1. CASE OnTimeout(p)
    <3>1. PICK kept \in [Session -> {"none", "new", "old"}] :
            /\ \A s \in Session : kept[s] \in IF Home[s] = p THEN KeptAfter(m_session_time[s])
                                              ELSE {m_session_time[s]}
            /\ m_session_time' = kept
      BY <2>1 DEF OnTimeout
    <3>2. p \in up /\ up' = up /\ up \subseteq Process
      BY <2>1 DEF OnTimeout, IInv, Types
    <3>3. ASSUME NEW s \in Session, kept[s] # "none" PROVE Home[s] \in up
      BY <3>1, <3>2, <3>3 DEF IInv, Types
    <3>4. QED
      BY <3>1, <3>2, <3>3
  <2>2. CASE CreateOneProcess(p)
    BY <2>2 DEF CreateOneProcess, tasks, IInv, Types
  <2>3. QED
    BY <2>1, <2>2
<1>3. Types'
  BY <1>1, <1>2 DEF IInv, Types, WorksOn
<1>4. \A t \in Session : Placed(t)'
  BY <1>1 DEF IInv, Placed, Working, Waiting
<1>5. Users'
  BY <1>1, UsersSame DEF IInv, HoldsId
<1>6. QED
  BY <1>3, <1>4, <1>5 DEF IInv

\* A process ends, and with it what it keeps: no session of it waits or is worked on, and
\* what clients were told and the stores hold stays (IoLoop::run catches nothing).
LEMMA EndsStep ==
  ASSUME IInv, NEW p \in Process, Ends(p), kills' \in 0..MaxKills
  PROVE  IInv'
<1>1. /\ p \in up /\ up' = up \ {p}
      /\ cut' = cut \cup {s \in Session : Home[s] = p /\ (told[s] # {} \/ fate[s] # "unsent")}
      /\ taskLoop' = [taskLoop EXCEPT ![p] = <<>>]
      /\ m_session_time' = [s \in Session |-> IF Home[s] = p THEN "none" ELSE m_session_time[s]]
      /\ login' = [login EXCEPT ![p] = Idle]
      /\ fate' = [s \in Session |-> IF s \in Holds(p) THEN "lost" ELSE fate[s]]
      /\ UNCHANGED <<told, counter, users, given>>
  BY DEF Ends, stores
<1>2. Types
  BY DEF IInv
<1>3. ASSUME NEW s \in Holds(p) PROVE s \in Session /\ Home[s] = p
  <2>1. CASE login[p].session = s
    <3>1. login[p].step # "idle"
      BY <2>1, NothingIsNone DEF Holds, Types, WorksOn, Idle, IInv
    <3>2. QED
      BY <1>2, <2>1, <3>1, WorkIs
  <2>2. CASE \E i \in 1..Len(taskLoop[p]) : taskLoop[p][i].session = s
    <3>1. PICK i \in 1..Len(taskLoop[p]) : taskLoop[p][i].session = s
      BY <2>2
    <3>2. taskLoop[p][i] \in Message(p)
      BY <1>2 DEF Types
    <3>3. QED
      BY <3>1, <3>2, MessageIs
  <2>3. QED
    BY <2>1, <2>2 DEF Holds
<1>4. \A s \in Session : IF s \in Holds(p) THEN fate'[s] = "lost" ELSE fate'[s] = fate[s]
  BY <1>1
<1>5. fate' \in [Session -> {"unsent", "read", "lost"} \cup Result]
  BY <1>1, <1>2 DEF Types
<1>6. /\ taskLoop'[p] = <<>> /\ \A q \in Process \ {p} : taskLoop'[q] = taskLoop[q]
      /\ taskLoop' = [q \in Process |-> taskLoop'[q]]
      /\ login'[p] = Idle /\ \A q \in Process \ {p} : login'[q] = login[q]
      /\ login' \in [Process -> LoginState]
  <2>1. taskLoop = [q \in Process |-> taskLoop[q]] /\ login \in [Process -> LoginState]
    BY <1>2 DEF Types, LoginState, Accounts
  <2>2. Idle \in LoginState
    BY DEF Idle, LoginState, LoginStep, Accounts
  <2>3. QED
    BY <1>1, <2>1, <2>2
<1>7. \A q \in Process : taskLoop'[q] \in Seq(Message(q)) /\ (q \notin up' => taskLoop'[q] = <<>>)
  <2> SUFFICES ASSUME NEW q \in Process
               PROVE  taskLoop'[q] \in Seq(Message(q)) /\ (q \notin up' => taskLoop'[q] = <<>>)
    OBVIOUS
  <2>1. CASE q = p
    BY <1>6, <2>1
  <2>2. CASE q # p
    BY <1>1, <1>2, <1>6, <2>2 DEF Types
  <2>3. QED
    BY <2>1, <2>2
<1>8. \A q \in Process : WorksOn(q)' /\ (login'[q].step # "idle" => q \in up')
  <2> SUFFICES ASSUME NEW q \in Process PROVE WorksOn(q)' /\ (login'[q].step # "idle" => q \in up')
    OBVIOUS
  <2>1. CASE q = p
    BY <1>6, <2>1 DEF WorksOn, Idle
  <2>2. CASE q # p
    BY <1>1, <1>2, <1>6, <2>2 DEF Types, WorksOn
  <2>3. QED
    BY <2>1, <2>2
<1>9. /\ up' \subseteq Process /\ cut' \subseteq Session /\ told' \in [Session -> SUBSET {"open", "close", "late"}]
      /\ m_session_time' \in [Session -> {"none", "new", "old"}]
      /\ \A s \in Session : m_session_time'[s] # "none" => Home[s] \in up'
  BY <1>1, <1>2 DEF Types
<1>10. Types'
  BY <1>1, <1>2, <1>5, <1>6, <1>7, <1>8, <1>9 DEF Types, LoginState, Accounts
<1>11. ASSUME NEW s \in Session PROVE Placed(s)'
  <2>1. CASE Home[s] = p
    <3>1. ~Waiting(s)' /\ Once(taskLoop'[Home[s]], LoginOf(s))
      BY <1>6, <2>1 DEF Waiting, Has, Once
    <3>2. ~Working(s)'
      BY <1>6, <2>1, NothingIsNone DEF Working, Idle
    <3>3. QED
      BY <3>1, <3>2 DEF Placed
  <2>2. CASE Home[s] # p
    <3>1. Home[s] \in Process \ {p} /\ s \notin Holds(p)
      BY <1>3, <2>2, HomeIsAProcess
    <3>2. (Waiting(s)' <=> Waiting(s)) /\ (Working(s)' <=> Working(s)) /\ fate'[s] = fate[s]
      BY <1>4, <1>6, <3>1 DEF Waiting, Working
    <3>3. s \in cut' => s \in cut
      BY <1>1, <2>2
    <3>4. taskLoop'[Home[s]] = taskLoop[Home[s]]
      BY <1>6, <3>1
    <3>5. QED
      BY <3>2, <3>3, <3>4 DEF IInv, Placed
  <2>3. QED
    BY <2>1, <2>2
<1>12. Users'
  <2>1. \A s \in Session : fate'[s] = "CODE_SUCCESS" => fate[s] = "CODE_SUCCESS" /\ given'[s] = given[s]
    BY <1>1, <1>4
  <2>2. \A q \in Process : HoldsId(q)' => HoldsId(q) /\ login'[q].user_id = login[q].user_id
    <3>1. login'[p].step = "idle"
      BY <1>6 DEF Idle
    <3>2. QED
      BY <1>6, <3>1 DEF HoldsId
  <2>3. QED
    BY <1>1, <2>1, <2>2, UsersSame DEF IInv
<1>13. QED
  BY <1>10, <1>11, <1>12 DEF IInv

\* A login is taken from the loop (user_login): one without an account is answered, any
\* other begins.
LEMMA LoginStarts ==
  ASSUME IInv, NEW p \in Process, UserLogin(p)
  PROVE  IInv'
<1> DEFINE m == Head(taskLoop[p])
<1>1. /\ Takes(p, "login") /\ login[p].step = "idle" /\ m_session_time' = m_session_time
      /\ UNCHANGED <<up, kills, told, cut, counter, users, given>>
  BY DEF UserLogin, Takes, stores
<1>2. /\ p \in up /\ m \in Message(p) /\ m.cmd = "login"
      /\ \A q \in Process : taskLoop'[q] \in Seq(Message(q))
      /\ \A q \in Process : q \notin up => taskLoop'[q] = <<>>
      /\ taskLoop' = [q \in Process |-> taskLoop'[q]]
      /\ \A t \in Session : Waiting(t) <=> Waiting(t)' \/ m \in LoginOf(t)
      /\ \A t \in Session : Once(taskLoop[Home[t]], LoginOf(t)) =>
           Once(taskLoop'[Home[t]], LoginOf(t)) /\ ~(m \in LoginOf(t) /\ Waiting(t)')
  BY <1>1, TakeDoes DEF IInv
<1>3. IF m.account = none
      THEN login' = [login EXCEPT ![p] = Idle] /\ fate' = [fate EXCEPT ![m.session] = "CODE_ACOCUNT_EMPTY"]
      ELSE /\ login' = [login EXCEPT ![p] =
                [step |-> "cache", session |-> m.session, account |-> m.account, user_id |-> 0]]
           /\ fate' = fate
  BY DEF UserLogin, Answers
<1> HIDE DEF m
<1>4. PICK s : s = m.session
  OBVIOUS
<1>5. /\ s \in Session /\ Home[s] = p /\ m \in LoginOf(s) /\ m.account \in Named(s)
      /\ \A t : m \in LoginOf(t) => t = s
  BY <1>4, <1>2, MessageIs
<1>6. Waiting(s) /\ fate[s] = "read" /\ s \notin cut
  BY <1>2, <1>5 DEF IInv, Placed
<1> DEFINE r == [step |-> "cache", session |-> s, account |-> m.account, user_id |-> 0]
           x == IF m.account = none THEN Idle ELSE r
<1>7. /\ x \in LoginState /\ login' = [login EXCEPT ![p] = x]
      /\ IF x.step = "idle" THEN x = Idle
         ELSE x.session \in SessionsOf(p) /\ x.account \in Account \cup {Generated(x.session)}
      /\ x.session = s \/ x.session = none
      /\ x.session = s => fate' = fate
      /\ x.step \in {"idle", "cache"}
  <2>1. Idle \in LoginState /\ Idle.step = "idle" /\ Idle.session = none
    BY DEF Idle, LoginState, LoginStep, Accounts
  <2>2. CASE m.account = none
    BY <1>3, <1>5, <2>1, <2>2, NothingIsNone
  <2>3. CASE m.account # none
    <3>1. x = r /\ m.account \in Account \cup {Generated(s)}
      BY <1>5, <2>3 DEF Named
    <3>2. r \in LoginState
      BY <1>5, <3>1 DEF LoginState, LoginStep, Accounts
    <3>3. r.step = "cache" /\ r.session = s /\ r.account = m.account
      OBVIOUS
    <3>4. login' = [login EXCEPT ![p] = r] /\ fate' = fate
      BY <1>4, <1>3, <2>3
    <3> HIDE DEF x, r
    <3>5. QED
      BY <1>5, <3>1, <3>2, <3>3, <3>4 DEF SessionsOf
  <2>4. QED
    BY <2>2, <2>3
<1>8. /\ fate' \in [Session -> {"unsent", "read", "lost"} \cup Result]
      /\ \A t \in Session \ {s} : fate'[t] = fate[t]
      /\ fate'[s] \in {"read", "CODE_ACOCUNT_EMPTY"}
  <2>1. fate \in [Session -> {"unsent", "read", "lost"} \cup Result]
    BY DEF IInv, Types
  <2>2. fate' = fate \/ fate' = [fate EXCEPT ![s] = "CODE_ACOCUNT_EMPTY"]
    BY <1>4, <1>3
  <2>3. QED
    BY <1>5, <1>6, <2>1, <2>2 DEF Result
<1> HIDE DEF x, r
<1>9. /\ login' \in [Process -> LoginState] /\ login'[p] = x
      /\ \A q \in Process \ {p} : login'[q] = login[q]
      /\ \A q \in Process : WorksOn(q)' /\ (login'[q].step # "idle" => q \in up')
      /\ \A t \in Session : Home[t] # p => (Working(t)' <=> Working(t))
      /\ \A t \in Session : Home[t] = p => (Working(t)' <=> x.session = t)
  BY <1>1, <1>2, <1>7, LoginChanges DEF IInv
<1>10. Types'
  BY <1>1, <1>2, <1>8, <1>9 DEF IInv, Types, LoginState, Accounts
<1>11. ASSUME NEW t \in Session PROVE Placed(t)'
  <2>1. CASE t = s
    <3>1. ~Waiting(s)' /\ Once(taskLoop'[Home[s]], LoginOf(s))
      BY <1>2, <1>5 DEF IInv, Placed
    <3>2. Working(s)' => fate'[s] = "read" /\ s \notin cut'
      BY <1>1, <1>5, <1>6, <1>7, <1>9, NothingIsNone
    <3>3. QED
      BY <2>1, <3>1, <3>2 DEF Placed
  <2>2. CASE t # s
    <3>1. (Waiting(t)' => Waiting(t)) /\ (Working(t)' => Working(t)) /\ fate'[t] = fate[t]
      BY <1>2, <1>7, <1>8, <1>9, <2>2, NothingIsNone
    <3>2. QED
      BY <1>1, <1>2, <3>1 DEF IInv, Placed
  <2>3. QED
    BY <2>1, <2>2
<1>12. Users'
  <2>1. \A t \in Session : fate'[t] = "CODE_SUCCESS" => fate[t] = "CODE_SUCCESS" /\ given'[t] = given[t]
    BY <1>1, <1>8
  <2>2. \A q \in Process : HoldsId(q)' => HoldsId(q) /\ login'[q].user_id = login[q].user_id
    BY <1>7, <1>9 DEF HoldsId
  <2>3. QED
    BY <1>1, <2>1, <2>2, UsersSame DEF IInv
<1>13. QED
  BY <1>10, <1>11, <1>12 DEF IInv

\* A login in progress asks its next question, and draws and writes nothing
\* (query_from_redis, query_from_mongo, json_to_hash).
LEMMA AskStep ==
  ASSUME IInv, NEW p \in Process, login[p].step # "idle", UNCHANGED <<up, kills, tasks, stores>>,
         NEW step \in LoginStep \ {"idle"}, NEW id \in Nat, Asks(p, step, login[p].account, id),
         step \in {"write account", "write user"} => HoldsId(p) /\ id = login[p].user_id
  PROVE  IInv'
<1>1. /\ Types' /\ \A s \in Session : Placed(s)'
      /\ login'[p].step = step /\ login'[p].user_id = id
      /\ \A q \in Process \ {p} : login'[q] = login[q]
      /\ UNCHANGED <<fate, given>>
  BY AsksDoes DEF IInv
<1>2. \A q \in Process : HoldsId(q)' => HoldsId(q) /\ login'[q].user_id = login[q].user_id
  BY <1>1 DEF HoldsId
<1>3. Users'
  BY <1>1, <1>2, UsersSame DEF IInv, stores
<1>4. QED
  BY <1>1, <1>3 DEF IInv

\* A login in progress fails, and nothing is drawn or written.
LEMMA FailStep ==
  ASSUME IInv, NEW p \in Process, login[p].step # "idle", UNCHANGED <<up, kills, tasks, counter, users>>,
         NEW result \in Result \ {"CODE_SUCCESS"}, Fails(p, login[p].session, result)
  PROVE  IInv'
<1>1. given' = given /\ given \in [Session -> [account : Accounts, user_id : Nat]]
  BY DEF Fails, IInv, Types, Accounts
<1>2. /\ Types' /\ \A s \in Session : Placed(s)'
      /\ login'[p] = Idle /\ \A q \in Process \ {p} : login'[q] = login[q]
      /\ fate'[login[p].session] = result
      /\ \A s \in Session : s # login[p].session => fate'[s] = fate[s]
  BY <1>1, AnswersDoes DEF Fails, IInv
<1>3. \A s \in Session : fate'[s] = "CODE_SUCCESS" => fate[s] = "CODE_SUCCESS" /\ given'[s] = given[s]
  BY <1>1, <1>2
<1>4. login'[p].step = "idle"
  BY <1>2 DEF Idle
<1>5. \A q \in Process : HoldsId(q)' => HoldsId(q) /\ login'[q].user_id = login[q].user_id
  BY <1>2, <1>4 DEF HoldsId
<1>6. Users'
  BY <1>3, <1>5, UsersSame DEF IInv
<1>7. QED
  BY <1>2, <1>6 DEF IInv

\* query_new_userid: the login fails without a counter, or draws an id.
LEMMA NewIdStep ==
  ASSUME IInv, NEW p \in Process, QueryNewUserid(p)
  PROVE  IInv'
<1>1. login[p].step = "new id" /\ UNCHANGED <<up, kills, tasks, users>>
  BY DEF QueryNewUserid, At
<1>2. CASE counter = none
  <2>1. UNCHANGED counter /\ Fails(p, login[p].session, "CODE_SYSTEM_ERROR")
    BY <1>2 DEF QueryNewUserid
  <2>2. "CODE_SYSTEM_ERROR" \in Result \ {"CODE_SUCCESS"} /\ login[p].step # "idle"
    BY <1>1 DEF Result
  <2>3. QED
    BY <1>1, <2>1, <2>2, FailStep
<1>3. CASE counter # none
  <2>1. counter' = counter + 1 /\ Asks(p, "write account", login[p].account, counter')
    BY <1>3 DEF QueryNewUserid
  <2>2. counter \in Nat /\ counter' \in Nat
    <3>1. counter \in Nat
      BY <1>3 DEF IInv, Users, Ids
    <3>2. counter' = counter + 1
      BY <2>1
    <3>3. QED
      BY <3>1, <3>2
  <2>3. "write account" \in LoginStep \ {"idle"} /\ login[p].step # "idle"
    BY <1>1 DEF LoginStep
  <2>4. /\ Types' /\ \A s \in Session : Placed(s)'
        /\ login'[p].user_id = counter'
        /\ \A q \in Process \ {p} : login'[q] = login[q]
        /\ UNCHANGED <<fate, given>>
    BY <1>1, <2>1, <2>2, <2>3, AsksDoes DEF IInv
  <2>5. Users'
    BY <1>1, <2>1, <2>2, <2>4, DrawDoes DEF IInv
  <2>6. QED
    BY <2>4, <2>5 DEF IInv
<1>4. QED
  BY <1>2, <1>3

\* insert_new_user: the user is written, and the client told the id or a failure.
LEMMA InsertStep ==
  ASSUME IInv, NEW p \in Process, InsertNewUser(p)
  PROVE  IInv'
<1>1. /\ login[p].step = "write user" /\ UNCHANGED <<up, kills, tasks, counter>>
      /\ users' = [id \in DOMAIN users \cup {login[p].user_id} |->
                     IF id = login[p].user_id THEN [account |-> login[p].account] ELSE users[id]]
      /\ Succeeds(p, login[p].user_id) \/ Fails(p, login[p].session, "CODE_ACOCUNT_EMPTY")
  BY DEF InsertNewUser, At
<1>2. login[p].step # "idle" /\ HoldsId(p)
  BY <1>1 DEF HoldsId
<1> DEFINE g == [account |-> login[p].account, user_id |-> login[p].user_id]
<1>3. g \in [account : Accounts, user_id : Nat] /\ given \in [Session -> [account : Accounts, user_id : Nat]]
  BY WorkIs DEF IInv, LoginState, Types, Accounts
<1>4. PICK result \in {"CODE_SUCCESS", "CODE_ACOCUNT_EMPTY"} :
        /\ Answers(p, login[p].session, result)
        /\ IF result = "CODE_SUCCESS" THEN given' = [given EXCEPT ![login[p].session] = g]
           ELSE given' = given
  BY <1>1 DEF Succeeds, Fails
<1> HIDE DEF g
<1>5. login[p].session \in Session
  BY <1>2, WorkIs DEF IInv
<1>6. /\ given' \in [Session -> [account : Accounts, user_id : Nat]]
      /\ result = "CODE_SUCCESS" => given'[login[p].session] = g
      /\ \A s \in Session : s # login[p].session => given'[s] = given[s]
  BY <1>3, <1>4, <1>5
<1>7. /\ Types' /\ \A s \in Session : Placed(s)'
      /\ login'[p] = Idle /\ \A q \in Process \ {p} : login'[q] = login[q]
      /\ fate'[login[p].session] = result
      /\ \A s \in Session : s # login[p].session => fate'[s] = fate[s]
  BY <1>1, <1>2, <1>4, <1>6, AnswersDoes DEF IInv, Result
<1>8. \A s \in Session : fate'[s] = "CODE_SUCCESS" =>
        \/ fate[s] = "CODE_SUCCESS" /\ given'[s] = given[s]
        \/ s = login[p].session /\ given'[s] = g
  BY <1>6, <1>7
<1>9. ~HoldsId(p)'
  BY <1>7 DEF HoldsId, Idle
<1>10. Users'
  BY <1>1, <1>2, <1>7, <1>8, <1>9, WritesUser DEF IInv, g
<1>11. QED
  BY <1>7, <1>10 DEF IInv

\* A login asks the cache, the database, and the cache again.
LEMMA QueryStep ==
  ASSUME IInv, NEW p \in Process, QueryFromRedis(p) \/ QueryFromMongo(p) \/ JsonToHash(p)
  PROVE  IInv'
<1>1. login[p].user_id \in Nat /\ kills \in 0..MaxKills
  BY WorkIs DEF IInv, Types, LoginState
<1>2. \A step : EndsAt(p, step) => IInv'
  BY <1>1, EndsStep DEF EndsAt
<1>3. CASE QueryFromRedis(p)
  <2>1. CASE At(p, "cache") /\ Asks(p, "find", login[p].account, 0) /\ UNCHANGED stores
    BY <2>1, AskStep DEF At, LoginStep
  <2>2. QED
    BY <1>2, <1>3, <2>1 DEF QueryFromRedis
<1>4. CASE QueryFromMongo(p)
  <2>1. Found(login[p].account) = {}
    BY NothingFound DEF IInv, Users
  <2>2. CASE At(p, "find") /\ Asks(p, "new id", login[p].account, 0) /\ UNCHANGED stores
    BY <2>2, AskStep DEF At, LoginStep
  <2>3. QED
    BY <1>2, <1>4, <2>1, <2>2 DEF QueryFromMongo
<1>5. CASE JsonToHash(p)
  <2>1. CASE /\ At(p, "write account") /\ unnamedCache
             /\ Asks(p, "write user", login[p].account, login[p].user_id) /\ UNCHANGED stores
    BY <1>1, <2>1, AskStep DEF At, LoginStep, HoldsId
  <2>2. QED
    BY <1>2, <1>5, <2>1 DEF JsonToHash
<1>6. QED
  BY <1>3, <1>4, <1>5

-------------------------------------------------------------------------------
(* The invariant holds.                                                    *)

\* Nothing has been posted, no login begun, no id drawn.
LEMMA InitIInv == Init => IInv
<1> SUFFICES ASSUME Init PROVE IInv
  OBVIOUS
<1>1. Types
  BY KillsAreNat DEF Init, Types, WorksOn, Idle, LoginStep
<1>2. ASSUME NEW s \in Session PROVE Placed(s)
  <2>1. taskLoop[Home[s]] = <<>> /\ login[Home[s]] = Idle
    BY HomeIsAProcess DEF Init
  <2>2. ~Waiting(s) /\ ~Working(s) /\ Once(taskLoop[Home[s]], LoginOf(s))
    BY <2>1, NothingIsNone DEF Waiting, Working, Idle, Has, Once
  <2>3. QED
    BY <2>2 DEF Placed
<1>3. Users
  <2>1. DOMAIN users = {} /\ counter \in Nat \cup {none}
    BY DEF Init
  <2>2. \A p \in Process : ~HoldsId(p)
    BY DEF Init, HoldsId, Idle
  <2>3. \A s \in Session : fate[s] # "CODE_SUCCESS"
    BY DEF Init
  <2>4. QED
    BY <2>1, <2>2, <2>3 DEF Users, Ids, ToldUserExists, EveryLoginRegisters
<1>4. QED
  BY <1>1, <1>2, <1>3 DEF IInv

\* Every step of a process, a client or the master keeps the invariant.
LEMMA NextIInv == IInv /\ [Next]_vars => IInv'
<1> SUFFICES ASSUME IInv, [Next]_vars PROVE IInv'
  OBVIOUS
<1>1. ASSUME NEW p \in Process, Works(p) PROVE IInv'
  BY <1>1, SessionStep, LoginStarts, QueryStep, NewIdStep, InsertStep DEF Works
<1>2. ASSUME NEW p \in Process, OnTimeout(p) \/ CreateOneProcess(p) PROVE IInv'
  BY <1>2, OutsideStep
<1>3. ASSUME NEW p \in Process, Killed(p) PROVE IInv'
  <2>1. Ends(p) /\ kills' \in 0..MaxKills
    BY <1>3, KillsAreNat DEF Killed, IInv, Types
  <2>2. QED
    BY <2>1, EndsStep
<1>4. ASSUME NEW s \in Timed,
             Opens(s) \/ Closes(s) \/ ReadsOwn(s, "open") \/ ReadsOwn(s, "close")
      PROVE  IInv'
  BY <1>4, TellsStep, TimedAreSessions DEF Opens, Closes
<1>5. ASSUME NEW s \in Session, Reads(s) PROVE IInv'
  BY <1>5, ReadsStep
<1>6. CASE UNCHANGED vars
  <2>1. UNCHANGED <<up, kills, told, cut, taskLoop, m_session_time, login, counter, users, fate, given>>
    BY <1>6 DEF vars, tasks, stores
  <2>2. Types'
    BY <2>1 DEF IInv, Types, WorksOn
  <2>3. \A s \in Session : Placed(s)'
    BY <2>1 DEF IInv, Placed, Waiting, Working
  <2>4. Users'
    BY <2>1, UsersSame DEF IInv, HoldsId
  <2>5. QED
    BY <2>2, <2>3, <2>4 DEF IInv
<1>7. QED
  BY <1>1, <1>2, <1>3, <1>4, <1>5, <1>6 DEF Next

\* The invariant holds in every state.
THEOREM IInvAlways == Spec => []IInv
BY InitIInv, NextIInv, PTL DEF Spec

\* Whoever is told a user id is that user in the database, whatever other processes did
\* between the steps of the login and whichever ended: query_new_userid gives an id once,
\* and insert_new_user_db writes the user before user_login answers.
THEOREM ToldUserExistsAlways == Spec => []ToldUserExists
<1>1. IInv => ToldUserExists
  BY DEF IInv, Users
<1>2. QED
  BY <1>1, IInvAlways, PTL

\* Every successful login registers a user of its own, also for an account that has one:
\* query_from_mongo looks for user_account, and insert_new_user_db writes account.
THEOREM LoginInvAlways == Spec => []LoginInv
<1>1. ASSUME IInv PROVE TypeOK
  <2>1. /\ up \in SUBSET Process /\ kills \in 0..MaxKills
        /\ m_session_time \in [Session -> {"none", "new", "old"}]
        /\ fate \in [Session -> {"unsent", "read", "lost"} \cup Result]
        /\ \A s \in Session : m_session_time[s] # "none" => Home[s] \in up
    BY <1>1 DEF IInv, Types
  <2>2. DOMAIN users \subseteq Nat
    BY <1>1 DEF IInv, Users, Ids, Drawn
  <2>3. ASSUME NEW p \in Process
        PROVE  /\ login[p].step \in LoginStep
               /\ login[p].step # "idle" =>
                    /\ p \in up
                    /\ Home[login[p].session] = p /\ login[p].session \notin cut
                    /\ login[p].account \in Account \cup {Generated(login[p].session)}
                    /\ login[p].step = "write user" => login[p].user_id \in 1..counter
    <3>1. /\ login[p] \in LoginState
          /\ login[p].step # "idle" =>
               /\ p \in up /\ login[p].session \in Session /\ Home[login[p].session] = p
               /\ Working(login[p].session)
               /\ login[p].account \in Account \cup {Generated(login[p].session)}
      BY <1>1, WorkIs DEF IInv
    <3>2. login[p].step # "idle" => login[p].session \notin cut
      BY <1>1, <3>1 DEF IInv, Placed
    <3>3. login[p].step = "write user" => login[p].user_id \in 1..counter
      BY <1>1 DEF IInv, Users, Ids, HoldsId, Drawn
    <3>4. QED
      BY <3>1, <3>2, <3>3 DEF LoginState
  <2>4. QED
    BY <2>1, <2>2, <2>3 DEF TypeOK, LoginStep
<1>2. IInv => LoginInv
  BY <1>1 DEF LoginInv, IInv, Users
<1>3. QED
  BY <1>2, IInvAlways, PTL

===============================================================================
