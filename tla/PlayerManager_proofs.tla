------------------------- MODULE PlayerManager_proofs -------------------------
(***************************************************************************)
(* Proofs that the two maps of a lobby agree, for any number of sessions,  *)
(* users and messages.                                                     *)
(*                                                                         *)
(* MapsAgree and LoggedInIsServed are inductive as they stand.             *)
(* RequestsOfOwner needs MapsAgree: a login elsewhere removes the old      *)
(* entry because the user map leads to it.  StayOnlyIfLateOrSwitched needs *)
(* to know why a record of the user map may have no entry in the online    *)
(* map, or not be the last login of its session: in both cases the session *)
(* was used by two users (RecordHasEntry, RecordIsLast), and that a closed *)
(* session has an entry only after a late login (EntryAfterCloseIsLate).   *)
(***************************************************************************)
EXTENDS PlayerManager, TLAPS

RecordIsLast ==
  \A s \in Session, u \in User :
    m_login_user[u] = s => lastUser[s] = u \/ s \in switched

RecordHasEntry ==
  \A s \in Session, u \in User :
    m_login_user[u] = s => m_online_user[s] = u \/ s \in switched

EntryAfterCloseIsLate ==
  \A s \in Session : s \in closed /\ m_online_user[s] # none => s \in late

IInv ==
  /\ TypeOK
  /\ MapsAgree
  /\ RequestsOfOwner
  /\ LoggedInIsServed
  /\ RecordIsLast
  /\ RecordHasEntry
  /\ EntryAfterCloseIsLate

-------------------------------------------------------------------------------

\* The two maps and the history are all that the invariants are about.
LEMMA SameMaps ==
  ASSUME IInv, TypeOK', UNCHANGED <<maps, history>>, shutdown \subseteq shutdown'
  PROVE  IInv'
<1>1. MapsAgree' /\ RequestsOfOwner' /\ LoggedInIsServed'
  BY DEF IInv, MapsAgree, RequestsOfOwner, LoggedInIsServed, maps, history
<1>2. RecordIsLast' /\ RecordHasEntry' /\ EntryAfterCloseIsLate'
  BY DEF IInv, RecordIsLast, RecordHasEntry, EntryAfterCloseIsLate, maps, history
<1> QED BY <1>1, <1>2 DEF IInv

\* Taking a message leaves the types of the queues alone.
LEMMA TakesType ==
  ASSUME TypeOK, NEW s, NEW what, Takes(s, what)
  PROVE  /\ taskLoop' \in Seq(Message)
         /\ notified' \in [Session -> Seq(Contract!Own \cup Contract!Read)]
  BY DEF TypeOK, Takes

LEMMA PlainIsMessage ==
  ASSUME NEW s \in Session, NEW what \in Request \cup {Plain("open"), Plain("close")},
         NEW q \in Seq(Message)
  PROVE  Append(q, [session |-> s, what |-> what]) \in Seq(Message)
  BY DEF Message

LEMMA KindsKnown ==
  {"open", "close"} \subseteq Contract!Own /\ {"msg", "peer_open", "peer_close"} \subseteq Contract!Read
BY DEF Contract!Own, Contract!Read

\* What the sessions tell does not concern the maps.
LEMMA TellsStep ==
  ASSUME IInv, NEW s \in Session, NEW kind \in Contract!Own \cup Contract!Read,
         NEW what \in Request \cup {Plain("open"), Plain("close")}, Tells(s, kind, what)
  PROVE  IInv'
<1>1. taskLoop' \in Seq(Message)
  BY PlainIsMessage DEF IInv, TypeOK, Tells, Post
<1>2. notified' \in [Session -> Seq(Contract!Own \cup Contract!Read)]
  BY DEF IInv, TypeOK, Tells
<1>3. TypeOK'
  BY <1>1, <1>2 DEF IInv, TypeOK, Tells, maps, history
<1> QED BY <1>3, SameMaps DEF Tells

LEMMA CloseStep ==
  ASSUME IInv, NEW s \in Session, OnSessionClose(s)
  PROVE  IInv'
<1> USE NoneIsNone
<1>0. TypeOK'
  BY TakesType DEF IInv, TypeOK, OnSessionClose, SessionClosed
<1>1. /\ \A t \in Session : m_online_user'[t] = IF t = s THEN none ELSE m_online_user[t]
      /\ \A u \in User : m_login_user'[u] = IF u = m_online_user[s] THEN none
                                             ELSE m_login_user[u]
      /\ UNCHANGED <<shutdown, lastUser, lastSession, switched, late>>
      /\ closed' = closed \cup {s}
  BY DEF IInv, TypeOK, OnSessionClose, SessionClosed
<1>2. \A t \in Session, u \in User :
        m_online_user'[t] = u => t # s /\ m_online_user[t] = u /\ m_login_user'[u] = t
  <2> SUFFICES ASSUME NEW t \in Session, NEW u \in User, m_online_user'[t] = u
               PROVE  t # s /\ m_online_user[t] = u /\ m_login_user'[u] = t
    OBVIOUS
  <2>1. t # s /\ m_online_user[t] = u
    BY <1>1
  <2>2. m_login_user[u] = t
    BY <2>1 DEF IInv, MapsAgree
  <2>3. u # m_online_user[s]
    BY <2>1, <2>2 DEF IInv, MapsAgree
  <2> QED BY <2>1, <2>2, <2>3, <1>1
<1>8. MapsAgree'
  BY <1>2 DEF MapsAgree
<1>3. RequestsOfOwner'
  BY <1>1, <1>2 DEF IInv, RequestsOfOwner
<1>4. LoggedInIsServed'
  BY <1>0, <1>1 DEF IInv, TypeOK, LoggedInIsServed
<1>5. RecordIsLast'
  BY <1>0, <1>1 DEF IInv, TypeOK, RecordIsLast
<1>6. RecordHasEntry'
  <2> SUFFICES ASSUME NEW t \in Session, NEW u \in User, m_login_user'[u] = t
               PROVE  m_online_user'[t] = u \/ t \in switched'
    BY DEF RecordHasEntry
  <2>1. u # m_online_user[s] /\ m_login_user[u] = t
    BY <1>1
  <2>2. m_online_user[t] = u \/ t \in switched
    BY <2>1 DEF IInv, RecordHasEntry
  <2> QED BY <2>1, <2>2, <1>1
<1>7. EntryAfterCloseIsLate'
  BY <1>0, <1>1 DEF IInv, TypeOK, EntryAfterCloseIsLate
<1> QED BY <1>0, <1>8, <1>3, <1>4, <1>5, <1>6, <1>7 DEF IInv

\* A successful login, seen as its effect on each entry.
LEMMA LoginStep ==
  ASSUME IInv, NEW s \in Session, NEW u \in User, TypeOK',
         AddUserSession(u, s), LoginRecorded(u, s)
  PROVE  IInv'
<1> USE NoneIsNone
<1>1. /\ \A v \in User : m_login_user'[v] = IF v = u THEN s ELSE m_login_user[v]
      /\ \A t \in Session : m_online_user'[t] =
           IF t = s THEN u ELSE IF t = m_login_user[u] THEN none ELSE m_online_user[t]
      /\ shutdown' = shutdown \cup ({m_login_user[u]} \ {none, s})
  BY DEF IInv, TypeOK, AddUserSession
<1>2. /\ \A t \in Session : lastUser'[t] = IF t = s THEN u ELSE lastUser[t]
      /\ \A v \in User : lastSession'[v] = IF v = u THEN s ELSE lastSession[v]
      /\ switched' = switched \cup (IF lastUser[s] \in {none, u} THEN {} ELSE {s})
      /\ late' = late \cup (closed \cap {s})
      /\ closed' = closed
  BY DEF IInv, TypeOK, LoginRecorded
<1>3. MapsAgree'
  <2> SUFFICES ASSUME NEW t \in Session, NEW v \in User, m_online_user'[t] = v
               PROVE  m_login_user'[v] = t
    BY DEF MapsAgree
  <2>1. CASE t = s
    BY <2>1, <1>1
  <2>2. CASE t # s
    <3>1. m_online_user[t] = v /\ t # m_login_user[u]
      BY <2>2, <1>1
    <3>2. m_login_user[v] = t
      BY <3>1 DEF IInv, MapsAgree
    <3> QED BY <3>1, <3>2, <1>1
  <2> QED BY <2>1, <2>2
<1>4. RequestsOfOwner'
  <2> SUFFICES ASSUME NEW t \in Session, NEW v \in User, m_online_user'[t] = v
               PROVE  lastUser'[t] = v /\ lastSession'[v] = t
    BY DEF RequestsOfOwner
  <2>1. CASE t = s
    BY <2>1, <1>1, <1>2
  <2>2. CASE t # s
    <3>1. m_online_user[t] = v /\ t # m_login_user[u]
      BY <2>2, <1>1
    <3>2. v # u
      BY <3>1 DEF IInv, MapsAgree
    <3> QED BY <2>2, <3>1, <3>2, <1>2 DEF IInv, RequestsOfOwner
  <2> QED BY <2>1, <2>2
<1>5. LoggedInIsServed'
  BY <1>1, <1>2 DEF IInv, TypeOK, LoggedInIsServed
<1>6. RecordIsLast'
  <2> SUFFICES ASSUME NEW t \in Session, NEW v \in User, m_login_user'[v] = t
               PROVE  lastUser'[t] = v \/ t \in switched'
    BY DEF RecordIsLast
  <2>1. CASE v = u
    BY <2>1, <1>1, <1>2
  <2>2. CASE v # u
    <3>1. lastUser[t] = v \/ t \in switched
      BY <2>2, <1>1 DEF IInv, RecordIsLast
    <3> QED BY <2>2, <3>1, <1>2
  <2> QED BY <2>1, <2>2
<1>7. RecordHasEntry'
  <2> SUFFICES ASSUME NEW t \in Session, NEW v \in User, m_login_user'[v] = t
               PROVE  m_online_user'[t] = v \/ t \in switched'
    BY DEF RecordHasEntry
  <2>1. CASE v = u
    BY <2>1, <1>1
  <2>2. CASE v # u
    <3>1. m_login_user[v] = t
      BY <2>2, <1>1
    <3>2. lastUser[t] = v \/ t \in switched
      BY <3>1 DEF IInv, RecordIsLast
    <3>3. CASE t = s
      BY <2>2, <3>2, <3>3, <1>2
    <3>4. CASE t # s /\ t = m_login_user[u]
      <4>1. lastUser[t] = u \/ t \in switched
        BY <3>4 DEF IInv, RecordIsLast
      <4> QED BY <2>2, <3>2, <4>1, <1>2
    <3>5. CASE t # s /\ t # m_login_user[u]
      BY <3>1, <3>5, <1>1, <1>2 DEF IInv, RecordHasEntry
    <3> QED BY <3>3, <3>4, <3>5
  <2> QED BY <2>1, <2>2
<1>8. EntryAfterCloseIsLate'
  BY <1>1, <1>2 DEF IInv, TypeOK, EntryAfterCloseIsLate
<1> QED BY <1>3, <1>4, <1>5, <1>6, <1>7, <1>8 DEF IInv

LEMMA TokenStep ==
  ASSUME IInv, NEW s \in Session, NEW u \in User, NEW token \in Token,
         PlayerTokenLogin(s, u, token)
  PROVE  IInv'
<1>0. /\ taskLoop' \in Seq(Message)
      /\ notified' \in [Session -> Seq(Contract!Own \cup Contract!Read)]
  BY TakesType DEF IInv, PlayerTokenLogin
<1>1. CASE AddUserSession(u, s) /\ LoginRecorded(u, s) /\ UNCHANGED aborted
  <2>1. TypeOK'
    BY <1>0, <1>1 DEF IInv, TypeOK, AddUserSession, LoginRecorded
  <2> QED BY <1>1, <2>1, LoginStep
<1>2. CASE shutdown' = shutdown \cup {s} /\ UNCHANGED <<maps, aborted, history>>
  <2>1. TypeOK'
    BY <1>0, <1>2 DEF IInv, TypeOK, maps, history
  <2> QED BY <1>2, <2>1, SameMaps
<1>3. CASE aborted' = TRUE /\ UNCHANGED <<maps, shutdown, history>>
  <2>1. TypeOK'
    BY <1>0, <1>3 DEF IInv, TypeOK, maps, history
  <2> QED BY <1>3, <2>1, SameMaps
<1> QED BY <1>1, <1>2, <1>3 DEF PlayerTokenLogin

\* A handler that only takes its message.
LEMMA IdleStep ==
  ASSUME IInv, NEW s \in Session, OnSessionOpen(s) \/ OnUnknownMsg(s)
  PROVE  IInv'
<1>1. TypeOK'
  BY TakesType DEF IInv, TypeOK, OnSessionOpen, OnUnknownMsg, maps, history
<1> QED BY <1>1, SameMaps DEF OnSessionOpen, OnUnknownMsg

LEMMA Initially == Init => IInv
<1> SUFFICES ASSUME Init PROVE IInv
  OBVIOUS
<1> USE NoneIsNone
<1>1. TypeOK
  <2>1. notified = [s \in Session |-> <<>>]
    BY DEF Init, Contract!Init
  <2>2. notified \in [Session -> Seq(Contract!Own \cup Contract!Read)] /\ taskLoop \in Seq(Message)
    BY <2>1 DEF Init
  <2> QED BY <2>2 DEF Init, TypeOK
<1> QED
  BY <1>1 DEF Init, IInv, MapsAgree, RequestsOfOwner, LoggedInIsServed, RecordIsLast,
              RecordHasEntry, EntryAfterCloseIsLate

LEMMA Inductive == IInv /\ [Next]_vars => IInv'
<1> SUFFICES ASSUME IInv, [Next]_vars PROVE IInv'
  OBVIOUS
<1>1. CASE UNCHANGED vars
  <2>1. TypeOK'
    BY <1>1 DEF IInv, TypeOK, vars, maps, history
  <2> QED BY <1>1, <2>1, SameMaps DEF vars
<1>2. ASSUME NEW s \in Session, Opens(s) \/ Closes(s)
      PROVE  IInv'
  BY <1>2, TellsStep, KindsKnown DEF Opens, Closes
<1>3. ASSUME NEW s \in Session, Reads(s)
      PROVE  IInv'
  <2>1. PICK kind \in Contract!Read, what \in Request \cup {Plain("open"), Plain("close")} :
          Tells(s, kind, what)
    BY <1>3, KindsKnown DEF Reads
  <2> QED BY <2>1, TellsStep
<1>4. ASSUME NEW s \in Session, OnSessionOpen(s) \/ OnUnknownMsg(s)
      PROVE  IInv'
  BY <1>4, IdleStep
<1>5. ASSUME NEW s \in Session, OnSessionClose(s)
      PROVE  IInv'
  BY <1>5, CloseStep
<1>6. ASSUME NEW s \in Session, NEW u \in User, NEW token \in Token,
             PlayerTokenLogin(s, u, token)
      PROVE  IInv'
  BY <1>6, TokenStep
<1> QED BY <1>1, <1>2, <1>3, <1>4, <1>5, <1>6 DEF Next, TaskStep

LEMMA Invariance == SafeSpec => []IInv
  BY Initially, Inductive, PTL DEF SafeSpec

-------------------------------------------------------------------------------

\* The lobby's state keeps its types.
THEOREM TypeCorrect == SafeSpec => []TypeOK
<1>1. IInv => TypeOK
  BY DEF IInv
<1> QED BY <1>1, Invariance, PTL

\* Every entry of the online map is matched by the user map.
THEOREM MapsAgreeAlways == SafeSpec => []MapsAgree
<1>1. IInv => MapsAgree
  BY DEF IInv
<1> QED BY <1>1, Invariance, PTL

\* The maps agree and closing a session removes the right player.
THEOREM MapsInvAlways == SafeSpec => []MapsInv
BY TypeCorrect, MapsAgreeAlways, PTL DEF MapsInv

\* A request is dispatched in the name of the last user of its session.
THEOREM RequestsAttributed == SafeSpec => []RequestsOfOwner
<1>1. IInv => RequestsOfOwner
  BY DEF IInv
<1> QED BY <1>1, Invariance, PTL

\* A logged-in user is served until the session ends.
THEOREM LoggedInServed == SafeSpec => []LoggedInIsServed
<1>1. IInv => LoggedInIsServed
  BY DEF IInv
<1> QED BY <1>1, Invariance, PTL

\* Records without a session have only the two known causes.
THEOREM StrayRecordsExplained == SafeSpec => []StayOnlyIfLateOrSwitched
<1>1. IInv => StayOnlyIfLateOrSwitched
  BY NoneIsNone DEF IInv, RecordHasEntry, EntryAfterCloseIsLate, StayOnlyIfLateOrSwitched
<1> QED BY <1>1, Invariance, PTL
===============================================================================
