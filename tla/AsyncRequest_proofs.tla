-------------------------- MODULE AsyncRequest_proofs --------------------------
(***************************************************************************)
(* Proofs about AsyncRequest for every set of requests and plain messages  *)
(* and every bound on the peer's answers.                                  *)
(***************************************************************************)
EXTENDS AsyncRequest, TLAPS

\* The numbers in use lie below the counter and no two messages share one, so
\* that a lookup by number finds the entry of its own request only.
NumbersDistinct ==
  /\ \A m \in Msg : seqOf[m] < m_sequenceid
  /\ \A m, n \in Msg : seqOf[m] = seqOf[n] /\ seqOf[m] # NoSeq => m = n
  /\ \A m \in posted : seqOf[m] = NoSeq

\* The life of an entry: it is in the table exactly from the start of its timer
\* until its timer's handler has run, and a timer that is cancelled or handled
\* has had its callback called.
EntryLife ==
  \A r \in Async :
    /\ timer[r] = "unarmed" <=> seqOf[r] = NoSeq
    /\ r \in m_items <=> timer[r] \in {"running", "expired", "cancelled"}
    /\ timer[r] \in {"cancelled", "handled"} => bound[r] # <<>>
    /\ timer[r] = "unarmed" => bound[r] = <<>>

\* The inductive invariant.
IInv == TypeOK /\ NumbersDistinct /\ EntryLife /\ NoCrossTalk /\ TimeoutIsLast

\* A lookup by the number of a message that was sent finds at most the entry
\* of that message.
LEMMA FindOwn ==
  ASSUME TypeOK, NumbersDistinct, NEW m \in Msg, seqOf[m] # NoSeq
  PROVE  Find(seqOf[m]) = m_items \cap {m}
BY DEF TypeOK, NumbersDistinct, Find, Msg

\* A fresh number is in no entry: send_request never returns early.
LEMMA FreshNumber ==
  ASSUME TypeOK, NumbersDistinct
  PROVE  Find(m_sequenceid) = {}
BY DEF TypeOK, NumbersDistinct, Find, Msg

\* Initially the table is empty, no number is given and no timer is armed.
LEMMA InitIInv == Init => IInv
BY ForeignIsAsync DEF Init, IInv, TypeOK, NumbersDistinct, EntryLife, NoCrossTalk,
   TimeoutIsLast, TimerState, Outcome, NoSeq, Msg

\* What posting a callback of r does to the outcomes: it appends one to those of
\* r and leaves the others alone.
LEMMA PostAppends ==
  ASSUME TypeOK, NEW r \in Async, NEW o \in Outcome, Post(r, o)
  PROVE  /\ bound' \in [Async -> Seq(Outcome)]
         /\ ran' \in [Async -> Nat]
         /\ \A q \in Async : ran'[q] <= Len(bound'[q])
         /\ \A q \in Async \ {r} : bound'[q] = bound[q]
         /\ Len(bound'[r]) = Len(bound[r]) + 1
         /\ bound'[r][Len(bound[r]) + 1] = o
         /\ \A i \in 1..Len(bound[r]) : bound'[r][i] = bound[r][i]
         /\ bound'[r] # <<>>
<1> DEFINE s == bound[r]
<1>1. s \in Seq(Outcome) /\ bound' = [bound EXCEPT ![r] = Append(s, o)]
  BY DEF TypeOK, Post
<1>2. /\ Append(s, o) \in Seq(Outcome)
      /\ Len(Append(s, o)) = Len(s) + 1
      /\ Append(s, o)[Len(s) + 1] = o
      /\ \A i \in 1..Len(s) : Append(s, o)[i] = s[i]
      /\ Append(s, o) # <<>>
  BY <1>1
<1>3. bound'[r] = Append(s, o) /\ \A q \in Async \ {r} : bound'[q] = bound[q]
  BY <1>1 DEF TypeOK
<1>4. bound' \in [Async -> Seq(Outcome)]
  BY <1>1, <1>2 DEF TypeOK
<1>5. ran' \in [Async -> Nat] /\ \A q \in Async : ran'[q] <= Len(bound'[q])
  BY <1>2, <1>3 DEF TypeOK, Post
<1>6. QED
  BY <1>2, <1>3, <1>4, <1>5

\* Numbering a message keeps the numbers distinct.
LEMMA NumberingKeepsDistinct ==
  ASSUME TypeOK, NumbersDistinct, NEW m \in Msg, m \in posted,
         SetMsgSequenceId(m), posted' = posted \ {m}
  PROVE  /\ posted' \in SUBSET Msg /\ m_sequenceid' \in Nat
         /\ seqOf' \in [Msg -> Nat \cup {NoSeq}]
         /\ NumbersDistinct'
         /\ seqOf[m] = NoSeq /\ seqOf'[m] # NoSeq
         /\ \A n \in Msg \ {m} : seqOf'[n] = seqOf[n]
<1>1. /\ m_sequenceid \in Nat /\ m_sequenceid' = m_sequenceid + 1
      /\ seqOf \in [Msg -> Nat \cup {NoSeq}]
      /\ seqOf' = [seqOf EXCEPT ![m] = m_sequenceid]
      /\ seqOf[m] = NoSeq
  BY DEF TypeOK, NumbersDistinct, SetMsgSequenceId
<1>2. /\ seqOf'[m] = m_sequenceid /\ \A n \in Msg \ {m} : seqOf'[n] = seqOf[n]
      /\ seqOf' \in [Msg -> Nat \cup {NoSeq}]
  BY <1>1
<1>3. \A n \in Msg : seqOf'[n] < m_sequenceid'
  BY <1>1, <1>2 DEF NumbersDistinct, NoSeq
<1>4. \A n, k \in Msg : seqOf'[n] = seqOf'[k] /\ seqOf'[n] # NoSeq => n = k
  BY <1>1, <1>2 DEF NumbersDistinct
<1>5. \A n \in posted' : seqOf'[n] = NoSeq
  BY <1>2 DEF NumbersDistinct, TypeOK
<1>6. seqOf'[m] # NoSeq
  BY <1>1, <1>2 DEF NoSeq
<1>7. QED
  BY <1>1, <1>2, <1>3, <1>4, <1>5, <1>6 DEF NumbersDistinct, TypeOK

\* Every step keeps the inductive invariant.
LEMMA NextIInv == IInv /\ [Next]_vars => IInv'
<1> SUFFICES ASSUME IInv, [Next]_vars PROVE IInv'
  OBVIOUS
<1> USE ForeignIsAsync, PlainIsNotAsync, MaxAnswersIsNat
<1>0. Async \subseteq Msg /\ Plain \subseteq Msg
  BY DEF Msg
<1>1. ASSUME NEW m \in Msg, Send(m) PROVE IInv'
  BY <1>1 DEF Send, IInv, TypeOK, NumbersDistinct, EntryLife, NoCrossTalk, TimeoutIsLast
<1>2. ASSUME NEW m \in Msg, OnResponseCome(m) PROVE IInv'
  <2>1. UNCHANGED <<posted, m_sequenceid, seqOf>> /\ answers' \in [Msg -> Nat]
    BY <1>2 DEF OnResponseCome, IInv, TypeOK
  <2>2. CASE UNCHANGED <<m_items, timer, bound, ran>>
    BY <2>1, <2>2 DEF IInv, TypeOK, NumbersDistinct, EntryLife, NoCrossTalk, TimeoutIsLast
  <2>3. CASE \E r \in Find(seqOf[m]) : ItemResponseCome(r, m)
    <3>1. Find(seqOf[m]) = m_items \cap {m} /\ m_items \subseteq Async
      BY <1>2, FindOwn DEF OnResponseCome, IInv, TypeOK
    <3>2. m \in Async /\ m \in m_items /\ ItemResponseCome(m, m)
      BY <2>3, <3>1
    <3>3. Answer(m) \in Outcome /\ Answer(m).kind = "answer" /\ Answer(m).of = m
      BY <1>0 DEF Answer, Outcome
    <3>4. /\ Post(m, Answer(m)) /\ UNCHANGED m_items
          /\ timer' = [timer EXCEPT ![m] = IF @ = "running" THEN "cancelled" ELSE @]
      BY <3>2 DEF ItemResponseCome, Cancel
    <3>5. timer[m] \in {"running", "expired", "cancelled"}
      BY <3>2 DEF IInv, EntryLife
    <3>6. timer' \in [Async -> TimerState]
      BY <3>4 DEF IInv, TypeOK, TimerState
    <3>7. TypeOK'
      BY <2>1, <3>2, <3>3, <3>4, <3>6, PostAppends DEF IInv, TypeOK
    <3>8. NumbersDistinct'
      BY <2>1 DEF IInv, NumbersDistinct
    <3>9. EntryLife'
      BY <2>1, <3>2, <3>3, <3>4, <3>5, PostAppends DEF IInv, TypeOK, EntryLife
    <3>10. NoCrossTalk'
      <4> SUFFICES ASSUME NEW q \in Async, NEW i \in 1..Len(bound'[q])
                   PROVE  bound'[q][i].of = q
        BY DEF NoCrossTalk
      <4>1. CASE q # m
        BY <3>2, <3>3, <3>4, <4>1, PostAppends DEF IInv, NoCrossTalk
      <4>2. CASE q = m
        <5>1. i \in 1..Len(bound[m]) \/ i = Len(bound[m]) + 1
          BY <3>2, <3>3, <3>4, <4>2, PostAppends DEF IInv, TypeOK
        <5>2. QED
          BY <3>2, <3>3, <3>4, <4>2, <5>1, PostAppends DEF IInv, NoCrossTalk
      <4>3. QED
        BY <4>1, <4>2
    <3>11. TimeoutIsLast'
      <4> SUFFICES ASSUME NEW q \in Async, NEW i \in 1..Len(bound'[q]), bound'[q][i].kind = "timeout"
                   PROVE  i = Len(bound'[q]) /\ timer'[q] = "handled"
        BY DEF TimeoutIsLast
      <4>1. CASE q # m
        BY <3>2, <3>3, <3>4, <4>1, PostAppends DEF IInv, TimeoutIsLast, TypeOK
      <4>2. CASE q = m
        <5>1. i \in 1..Len(bound[m]) \/ i = Len(bound[m]) + 1
          BY <3>2, <3>3, <3>4, <4>2, PostAppends DEF IInv, TypeOK
        <5>2. bound[m][i].kind = "timeout" /\ i \in 1..Len(bound[m])
          BY <3>2, <3>3, <3>4, <4>2, <5>1, PostAppends DEF IInv
        <5>3. QED
          BY <3>2, <3>5, <5>2 DEF IInv, TimeoutIsLast
      <4>3. QED
        BY <4>1, <4>2
    <3>12. QED
      BY <3>7, <3>8, <3>9, <3>10, <3>11 DEF IInv
  <2>4. QED
    BY <1>2, <2>2, <2>3 DEF OnResponseCome
<1>3. ASSUME NEW m \in Plain, DoSendMessage(m) PROVE IInv'
  <2>1. /\ m \in Msg /\ m \in posted /\ SetMsgSequenceId(m) /\ posted' = posted \ {m}
        /\ UNCHANGED <<m_items, timer, answers, bound, ran>>
    BY <1>0, <1>3 DEF DoSendMessage
  <2>2. TypeOK' /\ NumbersDistinct'
    BY <2>1, NumberingKeepsDistinct DEF IInv, TypeOK
  <2>3. \A r \in Async : seqOf'[r] = seqOf[r]
    BY <1>0, <2>1, NumberingKeepsDistinct DEF IInv
  <2>4. EntryLife'
    BY <2>1, <2>3 DEF IInv, EntryLife
  <2>5. NoCrossTalk' /\ TimeoutIsLast'
    BY <2>1 DEF IInv, NoCrossTalk, TimeoutIsLast
  <2>6. QED
    BY <2>2, <2>4, <2>5 DEF IInv
<1>4. ASSUME NEW r \in Async, DoSendAsynMessage(r) PROVE IInv'
  <2>1. /\ r \in Msg /\ r \in posted /\ SetMsgSequenceId(r) /\ posted' = posted \ {r}
        /\ UNCHANGED <<answers, bound, ran>>
    BY <1>0, <1>4 DEF DoSendAsynMessage
  <2>2. /\ m_items' = m_items \cup {r}
        /\ timer' = [timer EXCEPT ![r] = "running"]
    BY <1>4, FreshNumber DEF DoSendAsynMessage, SendRequest, IInv
  <2>3. TypeOK' /\ NumbersDistinct'
    BY <2>1, <2>2, NumberingKeepsDistinct DEF IInv, TypeOK, TimerState
  <2>4. /\ seqOf[r] = NoSeq /\ seqOf'[r] # NoSeq
        /\ \A q \in Async \ {r} : seqOf'[q] = seqOf[q]
    BY <1>0, <2>1, NumberingKeepsDistinct DEF IInv
  <2>5. timer \in [Async -> TimerState] /\ timer[r] = "unarmed"
    BY <2>4 DEF IInv, TypeOK, EntryLife
  <2>6. EntryLife'
    BY <2>1, <2>2, <2>4, <2>5 DEF IInv, EntryLife
  <2>7. NoCrossTalk'
    BY <2>1 DEF IInv, NoCrossTalk
  <2>8. TimeoutIsLast'
    BY <2>1, <2>2, <2>5 DEF IInv, TimeoutIsLast, EntryLife
  <2>9. QED
    BY <2>3, <2>6, <2>7, <2>8 DEF IInv
<1>5. ASSUME NEW r \in Async, Expire(r) PROVE IInv'
  BY <1>5 DEF Expire, IInv, TypeOK, TimerState, NumbersDistinct, EntryLife, NoCrossTalk,
     TimeoutIsLast
<1>6. ASSUME NEW r \in Async, OnResponseTimeout(r) PROVE IInv'
  <2>1. /\ timer[r] \in {"expired", "cancelled"} /\ timer \in [Async -> TimerState]
        /\ timer' = [timer EXCEPT ![r] = "handled"]
        /\ UNCHANGED <<posted, m_sequenceid, seqOf, answers>>
    BY <1>6 DEF OnResponseTimeout, IInv, TypeOK
  <2>2. r \in m_items /\ seqOf[r] # NoSeq
    BY <2>1 DEF IInv, EntryLife
  <2>3. Find(seqOf[r]) = {r}
    BY <1>0, <2>2, FindOwn DEF IInv
  <2>4. /\ m_items' = m_items \ {r}
        /\ timer[r] = "expired" => Post(r, TimeOut(r))
        /\ timer[r] # "expired" => UNCHANGED <<bound, ran>>
    BY <1>6, <2>3 DEF OnResponseTimeout, Erase, TimedOut
  <2>5. NumbersDistinct'
    BY <2>1 DEF IInv, NumbersDistinct
  <2>6. CASE timer[r] = "expired"
    <3>1. Post(r, TimeOut(r)) /\ TimeOut(r) \in Outcome /\ TimeOut(r).of = r
      BY <1>0, <2>4, <2>6 DEF TimeOut, Outcome
    <3>2. TypeOK'
      BY <2>1, <2>4, <3>1, PostAppends DEF IInv, TypeOK, TimerState
    <3>3. EntryLife'
      BY <2>1, <2>2, <2>4, <3>1, PostAppends DEF IInv, TypeOK, EntryLife
    <3>4. ASSUME NEW q \in Async, NEW i \in 1..Len(bound'[q])
          PROVE  \/ i \in 1..Len(bound[q]) /\ bound'[q][i] = bound[q][i]
                                          /\ (q # r => Len(bound'[q]) = Len(bound[q]))
                 \/ q = r /\ i = Len(bound'[r]) /\ bound'[q][i] = TimeOut(r)
      <4>1. CASE q # r
        BY <3>1, <3>4, <4>1, PostAppends DEF IInv
      <4>2. CASE q = r
        BY <3>1, <3>4, <4>2, PostAppends DEF IInv, TypeOK
      <4>3. QED
        BY <4>1, <4>2
    <3>5. NoCrossTalk'
      BY <3>1, <3>4 DEF IInv, NoCrossTalk
    <3>6. \A i \in 1..Len(bound[r]) : bound[r][i].kind # "timeout"
      BY <2>1 DEF IInv, TimeoutIsLast
    <3>7. TimeoutIsLast'
      BY <2>1, <2>6, <3>4, <3>6 DEF IInv, TimeoutIsLast
    <3>8. QED
      BY <2>5, <3>2, <3>3, <3>5, <3>7 DEF IInv
  <2>7. CASE timer[r] # "expired"
    <3>1. UNCHANGED <<bound, ran>> /\ timer[r] = "cancelled"
      BY <2>1, <2>4, <2>7
    <3>2. TypeOK'
      BY <2>1, <2>4, <3>1 DEF IInv, TypeOK, TimerState
    <3>3. EntryLife'
      BY <2>1, <2>2, <2>4, <3>1 DEF IInv, EntryLife
    <3>4. NoCrossTalk' /\ TimeoutIsLast'
      BY <2>1, <3>1 DEF IInv, NoCrossTalk, TimeoutIsLast
    <3>5. QED
      BY <2>5, <3>2, <3>3, <3>4 DEF IInv
  <2>8. QED
    BY <2>6, <2>7
<1>7. ASSUME NEW r \in Async, RunForeign(r) PROVE IInv'
  BY <1>7 DEF RunForeign, IInv, TypeOK, NumbersDistinct, EntryLife, NoCrossTalk, TimeoutIsLast
<1>8. CASE UNCHANGED vars
  BY <1>8 DEF vars, IInv, TypeOK, NumbersDistinct, EntryLife, NoCrossTalk, TimeoutIsLast, Find
<1>9. QED
  BY <1>1, <1>2, <1>3, <1>4, <1>5, <1>6, <1>7, <1>8 DEF Next

\* Type correctness: every state of the request table has the stated types, and
\* no callback runs more often than it was posted.
THEOREM TypeCorrect == Spec => []TypeOK
<1>1. IInv => TypeOK
  BY DEF IInv
<1>2. QED
  BY InitIInv, NextIInv, <1>1, PTL DEF Spec, SafeSpec

\* The assert of AsyncRequest::on_response_timeout never fires, for any number
\* of requests and any pattern of late and repeated answers.
THEOREM AssertHolds == Spec => []TimeoutFindsItem
<1>1. IInv => TimeoutFindsItem
  BY DEF IInv, EntryLife, TimeoutFindsItem, Find
<1>2. QED
  BY InitIInv, NextIInv, <1>1, PTL DEF Spec, SafeSpec

\* send_request never drops a request for a number already in the table.
THEOREM RequestsTracked == Spec => []NoRequestDropped
<1>1. IInv => NoRequestDropped
  BY DEF IInv, TypeOK, TimerState, EntryLife, NoRequestDropped
<1>2. QED
  BY InitIInv, NextIInv, <1>1, PTL DEF Spec, SafeSpec

\* A callback hears only answers to its own request.
THEOREM OwnAnswersOnly == Spec => []NoCrossTalk
<1>1. IInv => NoCrossTalk
  BY DEF IInv
<1>2. QED
  BY InitIInv, NextIInv, <1>1, PTL DEF Spec, SafeSpec

\* A timeout is the last outcome of a request, and a request leaves the table
\* only after its callback was called.
THEOREM OutcomesFinal == Spec => [](TimeoutIsLast /\ GivenUpWasCalled)
<1>1. IInv => TimeoutIsLast /\ GivenUpWasCalled
  BY DEF IInv, EntryLife, GivenUpWasCalled
<1>2. QED
  BY InitIInv, NextIInv, <1>1, PTL DEF Spec, SafeSpec

\* No request is dropped, and the table gives one up only after calling it back.
THEOREM TableInvAlways == Spec => []TableInv
BY TypeCorrect, RequestsTracked, OutcomesFinal, PTL DEF TableInv

\* The step of a timer's handler, in terms of its own entry only.
LEMMA HandlerStep ==
  ASSUME IInv, NEW r \in Async, OnResponseTimeout(r)
  PROVE  /\ r \in m_items /\ seqOf[r] # NoSeq /\ m_items' = m_items \ {r}
         /\ timer[r] = "expired" => bound' = [bound EXCEPT ![r] = Append(@, TimeOut(r))]
         /\ timer[r] = "cancelled" => bound' = bound
<1>1. timer[r] \in {"expired", "cancelled"}
  BY DEF OnResponseTimeout
<1>2. r \in m_items /\ seqOf[r] # NoSeq
  BY <1>1 DEF IInv, EntryLife
<1>3. Find(seqOf[r]) = {r}
  BY <1>2, FindOwn DEF IInv, Msg
<1>4. QED
  BY <1>1, <1>2, <1>3 DEF OnResponseTimeout, Erase, TimedOut, Post

\* An answer handled while the timer runs excludes the timeout.
THEOREM CancelExcludesTimeout == Spec => CancelledNeverTimesOut
<1> DEFINE A == \A r \in Async : timer[r] = "cancelled" =>
                  \/ timer'[r] = "cancelled"
                  \/ timer'[r] = "handled" /\ bound'[r] = bound[r]
<1>1. IInv /\ [Next]_vars => [A]_vars
  <2> SUFFICES ASSUME IInv, Next, NEW r \in Async, timer[r] = "cancelled"
               PROVE  \/ timer'[r] = "cancelled"
                      \/ timer'[r] = "handled" /\ bound'[r] = bound[r]
    OBVIOUS
  <2>0. timer \in [Async -> TimerState] /\ seqOf[r] # NoSeq
    BY DEF IInv, TypeOK, EntryLife
  <2>1. ASSUME NEW m \in Msg, Send(m) PROVE timer' = timer
    BY <2>1 DEF Send
  <2>2. ASSUME NEW m \in Msg, OnResponseCome(m) PROVE timer'[r] = "cancelled"
    BY <2>0, <2>2 DEF OnResponseCome, ItemResponseCome, Cancel
  <2>3. ASSUME NEW m \in Plain, DoSendMessage(m) PROVE timer' = timer
    BY <2>3 DEF DoSendMessage
  <2>4. ASSUME NEW q \in Async, DoSendAsynMessage(q) PROVE timer'[r] = "cancelled"
    <3>1. q # r
      BY <2>0, <2>4 DEF DoSendAsynMessage, IInv, NumbersDistinct
    <3>2. QED
      BY <2>0, <2>4, <3>1 DEF DoSendAsynMessage, SendRequest
  <2>5. ASSUME NEW q \in Async, Expire(q) PROVE timer'[r] = "cancelled"
    BY <2>0, <2>5 DEF Expire
  <2>6. ASSUME NEW q \in Async, OnResponseTimeout(q)
        PROVE  \/ timer'[r] = "cancelled"
               \/ timer'[r] = "handled" /\ bound'[r] = bound[r]
    <3>1. timer' = [timer EXCEPT ![q] = "handled"]
      BY <2>6 DEF OnResponseTimeout
    <3>2. CASE q # r
      BY <2>0, <3>1, <3>2
    <3>3. CASE q = r
      BY <2>0, <2>6, <3>1, <3>3, HandlerStep
    <3>4. QED
      BY <3>2, <3>3
  <2>7. ASSUME NEW q \in Async, RunForeign(q) PROVE timer' = timer
    BY <2>7 DEF RunForeign
  <2>8. QED
    BY <2>1, <2>2, <2>3, <2>4, <2>5, <2>6, <2>7 DEF Next
<1>2. QED
  BY InitIInv, NextIInv, <1>1, PTL DEF Spec, SafeSpec, CancelledNeverTimesOut

\* The table implements the safety part of the contract of Session::send: every
\* step of the loops is a step of the contract or leaves it unchanged.
THEOREM ImplementsContractSafety ==
  Spec => Contract!ContractInit /\ [][Contract!ContractNext]_(Contract!contractVars)
<1> DEFINE phase(r) == IF seqOf[r] = NoSeq THEN "idle"
                       ELSE IF r \in m_items THEN "open" ELSE "given_up"
           ph == [r \in Async |-> phase(r)]
<1>1. Init => Contract!ContractInit
  BY DEF Init, Contract!ContractInit, Msg
<1>2. IInv /\ [Next]_vars => [Contract!ContractNext]_(Contract!contractVars)
  <2> SUFFICES ASSUME IInv, [Next]_vars
               PROVE  Contract!ContractNext \/ UNCHANGED <<ph, bound>>
    BY DEF Contract!contractVars
  <2>1. /\ seqOf \in [Msg -> Nat \cup {NoSeq}] /\ bound \in [Async -> Seq(Outcome)]
        /\ m_items \in SUBSET Async
        /\ Async \subseteq Msg /\ Plain \subseteq Msg
    BY DEF IInv, TypeOK, Msg
  <2>2. ASSUME NEW m \in Msg, Send(m) PROVE UNCHANGED <<ph, bound>>
    BY <2>2 DEF Send
  <2>3. ASSUME NEW m \in Msg, OnResponseCome(m)
        PROVE  Contract!ContractNext \/ UNCHANGED <<ph, bound>>
    <3>1. CASE UNCHANGED <<m_items, timer, bound, ran>>
      BY <2>3, <3>1 DEF OnResponseCome
    <3>2. CASE \E r \in Find(seqOf[m]) : ItemResponseCome(r, m)
      <4>1. m \in Async /\ m \in m_items /\ ItemResponseCome(m, m) /\ seqOf[m] # NoSeq
        BY <2>1, <2>3, <3>2, FindOwn DEF OnResponseCome, IInv
      <4>2. UNCHANGED <<seqOf, m_items>> /\ bound' = [bound EXCEPT ![m] = Append(@, Answer(m))]
        BY <2>3, <4>1 DEF OnResponseCome, ItemResponseCome, Post
      <4>3. Contract!HearAnswer(m)
        BY <4>1, <4>2 DEF Contract!HearAnswer, Contract!Answer, Answer
      <4>4. QED
        BY <4>1, <4>3 DEF Contract!ContractNext
    <3>3. QED
      BY <2>3, <3>1, <3>2 DEF OnResponseCome
  <2>4. ASSUME NEW m \in Plain, DoSendMessage(m) PROVE UNCHANGED <<ph, bound>>
    <3>1. m \in posted /\ m \in Msg /\ m \notin Async
      BY <2>4, PlainIsNotAsync DEF DoSendMessage, Msg
    <3>2. \A r \in Async : seqOf'[r] = seqOf[r]
      BY <2>1, <2>4, <3>1 DEF DoSendMessage, SetMsgSequenceId
    <3>3. QED
      BY <2>4, <3>2 DEF DoSendMessage
  <2>5. ASSUME NEW r \in Async, DoSendAsynMessage(r) PROVE Contract!ContractNext
    <3>1. /\ r \in posted /\ r \in Msg /\ SetMsgSequenceId(r) /\ bound' = bound
          /\ posted' = posted \ {r} /\ m_items' = m_items \cup {r}
      BY <2>1, <2>5, FreshNumber DEF DoSendAsynMessage, SendRequest, IInv
    <3>2. /\ seqOf[r] = NoSeq /\ seqOf'[r] # NoSeq
          /\ \A n \in Msg \ {r} : seqOf'[n] = seqOf[n]
      BY <3>1, NumberingKeepsDistinct DEF IInv
    <3>3. ph' = [ph EXCEPT ![r] = "open"] /\ ph[r] = "idle"
      BY <2>1, <3>1, <3>2
    <3>4. Contract!Open(r)
      BY <3>1, <3>3 DEF Contract!Open
    <3>5. QED
      BY <3>4 DEF Contract!ContractNext
  <2>6. ASSUME NEW r \in Async, Expire(r) PROVE UNCHANGED <<ph, bound>>
    BY <2>6 DEF Expire
  <2>7. ASSUME NEW r \in Async, OnResponseTimeout(r) PROVE Contract!ContractNext
    <3>1. /\ timer[r] \in {"expired", "cancelled"} /\ UNCHANGED seqOf
          /\ r \in m_items /\ seqOf[r] # NoSeq /\ m_items' = m_items \ {r}
      BY <2>7, HandlerStep DEF OnResponseTimeout
    <3>2. ph' = [ph EXCEPT ![r] = "given_up"] /\ ph[r] = "open"
      BY <3>1
    <3>3. CASE timer[r] = "expired"
      <4>1. bound' = [bound EXCEPT ![r] = Append(@, TimeOut(r))]
        BY <2>7, <3>3, HandlerStep
      <4>2. Contract!HearTimeout(r)
        BY <3>2, <4>1 DEF Contract!HearTimeout, Contract!TimeOut, TimeOut
      <4>3. QED
        BY <4>2 DEF Contract!ContractNext
    <3>4. CASE timer[r] = "cancelled"
      <4>1. bound' = bound /\ bound[r] # <<>>
        BY <2>7, <3>4, HandlerStep DEF IInv, EntryLife
      <4>2. Contract!GiveUp(r)
        BY <3>2, <4>1 DEF Contract!GiveUp
      <4>3. QED
        BY <4>2 DEF Contract!ContractNext
    <3>5. QED
      BY <3>1, <3>3, <3>4
  <2>8. ASSUME NEW r \in Async, RunForeign(r) PROVE UNCHANGED <<ph, bound>>
    BY <2>8 DEF RunForeign
  <2>9. CASE UNCHANGED vars
    BY <2>9 DEF vars
  <2>10. QED
    BY <2>2, <2>3, <2>4, <2>5, <2>6, <2>7, <2>8, <2>9 DEF Next
<1>3. QED
  BY InitIInv, NextIInv, <1>1, <1>2, PTL DEF Spec, SafeSpec

===============================================================================
