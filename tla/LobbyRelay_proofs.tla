---------------------------- MODULE LobbyRelay_proofs ----------------------------
(***************************************************************************)
(* Proofs about LobbyRelay for any sessions and requests.                  *)
(*                                                                         *)
(* A request is in one place at a time: asked for on the lobby's loop, to  *)
(* be sent on the broker's, open, called back on the lobby's loop, posted  *)
(* to the session it came from, or written.  Placed and Responded say so,  *)
(* and what has become of it at each place; that it gets one response,     *)
(* whose result is due, follows.  LinkInv is the same for the broker's     *)
(* client: connect runs once, and after it the client is connecting        *)
(* forever, so that no timeout connects again.                             *)
(***************************************************************************)
EXTENDS LobbyRelay, Queues

-------------------------------------------------------------------------------
(* The invariant.                                                          *)

\* What stands for a request r on the loops and the sockets.
AskOf(r) == [do : {"on_unknown_msg"}, request : {r}, routed : BOOLEAN]
SendOf(r) == {[do |-> "send", request |-> r]}
CallOf(r) == {[do |-> "callback", request |-> r, outcome |-> [kind |-> "timeout", of |-> r]]}
ResponseTo(r) == [to : {r}, result : Result]

Task == UNION {AskOf(r) \cup CallOf(r) : r \in Request}

\* The result that is due to r when it is answered.
Due(r) ==
  IF phase[r] = "given_up" THEN "CODE_WAIT_RESP_TIMEOUT"
  ELSE IF r \in known THEN "CODE_PARAMETER_INVALID" ELSE "CODE_SESSION_HAV_NO_USER"

Wrong(r) == ResponseTo(r) \ {[to |-> r, result |-> Due(r)]}

Asks(r) == Has(taskLoop, AskOf(r))
Sends(r) == Has(mainLoop, SendOf(r))
Calls(r) == Has(taskLoop, CallOf(r))
Answered(r, s) == Has(answers[s], ResponseTo(r)) \/ Has(sessionLoop[s], ResponseTo(r))

\* Where a request is: on one loop or open, or answered.
Placed(r) ==
  /\ asked[r] = none => phase[r] = "idle" /\ r \notin known /\ ~Asks(r)
  /\ Asks(r) => phase[r] = "idle" /\ r \notin known
  /\ Sends(r) => phase[r] = "idle" /\ r \in known /\ ~Asks(r)
  /\ phase[r] # "idle" => r \in known
  /\ Calls(r) => phase[r] = "given_up"
  /\ Once(taskLoop, AskOf(r)) /\ Once(taskLoop, CallOf(r)) /\ Once(mainLoop, SendOf(r))

\* Its response is in one place too, nothing else is under way, and its result is due.
Responded(r) ==
  \A s \in Session :
    /\ Answered(r, s) => asked[r] = s /\ phase[r] # "open" /\ ~Asks(r) /\ ~Sends(r) /\ ~Calls(r)
    /\ Once(answers[s], ResponseTo(r)) /\ Once(sessionLoop[s], ResponseTo(r))
    /\ ~(Has(answers[s], ResponseTo(r)) /\ Has(sessionLoop[s], ResponseTo(r)))
    /\ ~Has(answers[s], Wrong(r)) /\ ~Has(sessionLoop[s], Wrong(r))

\* The broker's client connects once and is connecting ever since.
LinkInv ==
  /\ ~m_is_connected
  /\ link = "none" => ~m_auto_reconnect /\ attempts = 0
  /\ link # "none" => m_is_connecting /\ ~Has(mainLoop, {[do |-> "connect"]})
  /\ Once(mainLoop, {[do |-> "connect"]})
  /\ HeartbeatEndsAtLogin

\* Every callback on the lobby's loop was given a timeout.
OnlyTimeouts == taskLoop \in Seq(Task)

IInv == TypeOK /\ LinkInv /\ OnlyTimeouts /\ \A r \in Request : Placed(r) /\ Responded(r)

-------------------------------------------------------------------------------
(* The broker's client.                                                    *)

\* Taking the head of mainLoop.
LEMMA TakeMain ==
  ASSUME mainLoop \in Seq(MainHandler), mainLoop # <<>>, mainLoop' = Tail(mainLoop)
  PROVE  /\ mainLoop' \in Seq(MainHandler) /\ Head(mainLoop) \in MainHandler
         /\ \A S : Has(mainLoop, S) <=> Has(mainLoop', S) \/ Head(mainLoop) \in S
         /\ \A S : Once(mainLoop, S) => Once(mainLoop', S) /\ ~(Head(mainLoop) \in S /\ Has(mainLoop', S))
BY TailQueue

\* A step of the client leaves the requests in its loop alone (MqClient::on_timeout,
\* do_connect) and its own flags as LinkInv says: no line sets m_is_connected.
LEMMA MqStepKeeps ==
  ASSUME TypeOK, LinkInv, MqNext
  PROVE  /\ m_auto_reconnect' \in BOOLEAN /\ m_is_connecting' \in BOOLEAN /\ m_is_connected' \in BOOLEAN
         /\ m_timer' \in {"idle", "waiting", "queued"} /\ heartbeat' \in {"none", "unset", "armed"}
         /\ link' \in Link /\ attempts' \in 0..MaxAttempts /\ mainLoop' \in Seq(MainHandler)
         /\ LinkInv'
         /\ \A r \in Request : /\ Has(mainLoop', SendOf(r)) <=> Has(mainLoop, SendOf(r))
                               /\ Once(mainLoop, SendOf(r)) => Once(mainLoop', SendOf(r))
         /\ link = "ended" => link' = "ended"
<1> DEFINE conn == {[do |-> "connect"]}
<1>1. /\ m_auto_reconnect \in BOOLEAN /\ m_is_connecting \in BOOLEAN /\ m_is_connected \in BOOLEAN
      /\ m_timer \in {"idle", "waiting", "queued"} /\ heartbeat \in {"none", "unset", "armed"}
      /\ link \in Link /\ attempts \in 0..MaxAttempts /\ mainLoop \in Seq(MainHandler)
  BY DEF TypeOK
<1>2. /\ ~m_is_connected
      /\ link = "none" => ~m_auto_reconnect /\ attempts = 0
      /\ link # "none" => m_is_connecting /\ ~Has(mainLoop, conn)
      /\ Once(mainLoop, conn)
      /\ heartbeat = "armed" => link = "negotiated"
  BY DEF LinkInv, HeartbeatEndsAtLogin
<1>3. /\ \A S : Has(mainLoop, S)' <=> Has(mainLoop', S)
      /\ Once(mainLoop, conn)' <=> Once(mainLoop', conn)
  BY DEF Has, Once
<1>4. LinkInv' <=>
      /\ ~m_is_connected'
      /\ link' = "none" => ~m_auto_reconnect' /\ attempts' = 0
      /\ link' # "none" => m_is_connecting' /\ ~Has(mainLoop', conn)
      /\ Once(mainLoop', conn)
      /\ heartbeat' = "armed" => link' = "negotiated"
  BY DEF LinkInv, HeartbeatEndsAtLogin, Has, Once
<1>5. 0 + 1 \in 0..MaxAttempts
  BY AttemptsArePositive
<1>6. /\ [do |-> "on_timeout"] \in MainHandler /\ [do |-> "on_timeout"] \notin conn
      /\ [do |-> "connect"] \in conn /\ [do |-> "connect"] # [do |-> "on_timeout"]
  BY DEF MainHandler
<1>7. \A r \in Request : [do |-> "connect"] \notin SendOf(r) /\ [do |-> "on_timeout"] \notin SendOf(r)
  BY DEF SendOf
<1>8. ASSUME NEW w \in {[do |-> "connect"], [do |-> "on_timeout"]}, MainRuns(w)
      PROVE  /\ mainLoop' \in Seq(MainHandler)
             /\ \A r \in Request : /\ Has(mainLoop', SendOf(r)) <=> Has(mainLoop, SendOf(r))
                                   /\ Once(mainLoop, SendOf(r)) => Once(mainLoop', SendOf(r))
             /\ Once(mainLoop', conn) /\ (~Has(mainLoop, conn) => ~Has(mainLoop', conn))
             /\ w = [do |-> "connect"] => Has(mainLoop, conn) /\ ~Has(mainLoop', conn)
  <2>1. mainLoop # <<>> /\ Head(mainLoop) = w /\ mainLoop' = Tail(mainLoop)
    BY <1>8 DEF MainRuns
  <2>2. /\ mainLoop' \in Seq(MainHandler)
        /\ \A S : Has(mainLoop, S) <=> Has(mainLoop', S) \/ w \in S
        /\ \A S : Once(mainLoop, S) => Once(mainLoop', S) /\ ~(w \in S /\ Has(mainLoop', S))
    BY <1>1, <2>1, TakeMain
  <2>3. \A r \in Request : w \notin SendOf(r)
    BY <1>7, <1>8
  <2> HIDE DEF conn
  <2>4. QED
    BY <1>2, <1>6, <2>2, <2>3
<1> HIDE DEF conn
<1>9. CASE DoConnect
  <2>1. /\ Has(mainLoop, conn) /\ link = "none" /\ ~Has(mainLoop', conn) /\ Once(mainLoop', conn)
        /\ mainLoop' \in Seq(MainHandler)
        /\ \A r \in Request : /\ Has(mainLoop', SendOf(r)) <=> Has(mainLoop, SendOf(r))
                              /\ Once(mainLoop, SendOf(r)) => Once(mainLoop', SendOf(r))
    BY <1>2, <1>8, <1>9 DEF DoConnect
  <2>2. /\ m_auto_reconnect' = TRUE /\ m_is_connecting' = TRUE /\ m_is_connected' = FALSE
        /\ heartbeat' = "unset" /\ link' = "opening" /\ attempts' = attempts + 1 /\ m_timer' = "waiting"
    BY <1>2, <1>9 DEF DoConnect, ConnectMq
  <2>3. attempts' \in 0..MaxAttempts
    BY <1>2, <1>5, <2>1, <2>2
  <2>4. QED
    BY <1>4, <2>1, <2>2, <2>3 DEF Link
<1>10. CASE TimerExpires
  <2>1. /\ mainLoop' = Append(mainLoop, [do |-> "on_timeout"]) /\ m_timer' = "queued"
        /\ m_auto_reconnect' = m_auto_reconnect /\ m_is_connecting' = m_is_connecting
        /\ m_is_connected' = m_is_connected /\ heartbeat' = heartbeat /\ link' = link
        /\ attempts' = attempts
    BY <1>10 DEF TimerExpires, handler
  <2>2. /\ mainLoop' \in Seq(MainHandler)
        /\ \A S : Has(mainLoop', S) <=> Has(mainLoop, S) \/ [do |-> "on_timeout"] \in S
        /\ \A S : Once(mainLoop, S) /\ ~([do |-> "on_timeout"] \in S /\ Has(mainLoop, S)) => Once(mainLoop', S)
    BY <1>1, <1>6, <2>1, AppendQueue
  <2>3. QED
    BY <1>1, <1>2, <1>4, <1>6, <1>7, <2>1, <2>2
<1>11. CASE OnTimeout
  <2>1. /\ mainLoop' \in Seq(MainHandler) /\ Once(mainLoop', conn) /\ (~Has(mainLoop, conn) => ~Has(mainLoop', conn))
        /\ \A r \in Request : /\ Has(mainLoop', SendOf(r)) <=> Has(mainLoop, SendOf(r))
                              /\ Once(mainLoop, SendOf(r)) => Once(mainLoop', SendOf(r))
    BY <1>8, <1>11 DEF OnTimeout
  <2>2. ~(~m_is_connecting /\ m_auto_reconnect /\ ~m_is_connected)
    BY <1>2
  <2>3. /\ m_timer' = "waiting" /\ m_auto_reconnect' = m_auto_reconnect
        /\ m_is_connecting' = (m_is_connecting /\ ~m_is_connected)
        /\ m_is_connected' = m_is_connected /\ heartbeat' = heartbeat /\ link' = link /\ attempts' = attempts
    BY <1>11, <2>2 DEF OnTimeout, handler
  <2>4. m_is_connecting' = m_is_connecting
    BY <1>1, <1>2, <2>3
  <2>5. QED
    BY <1>1, <1>2, <1>4, <2>1, <2>3, <2>4
<1>12. CASE OnNegotiate \/ OnConnected \/ ChannelReady \/ OnEnded
  <2>1. /\ mainLoop' = mainLoop /\ m_auto_reconnect' = m_auto_reconnect
        /\ m_is_connecting' = m_is_connecting /\ m_timer' = m_timer /\ attempts' = attempts
        /\ link # "none"
    BY <1>12 DEF OnNegotiate, OnConnected, ChannelReady, OnEnded, client
  <2>2. /\ ~m_is_connected' /\ m_is_connected' \in BOOLEAN
        /\ heartbeat' \in {"none", "unset", "armed"}
        /\ link' \in Link \ {"none"} /\ (heartbeat' = "armed" => link' = "negotiated")
        /\ link = "ended" => link' = "ended"
    <3>1. CASE OnNegotiate
      BY <1>1, <1>2, <3>1 DEF OnNegotiate, Link
    <3>2. CASE OnConnected
      BY <1>1, <1>2, <3>2 DEF OnConnected, CloseMq, Link
    <3>3. CASE ChannelReady
      BY <1>1, <1>2, <3>3 DEF ChannelReady, handler, Link
    <3>4. CASE OnEnded
      BY <1>1, <1>2, <3>4 DEF OnEnded, CloseMq, Link
    <3>5. QED
      BY <1>12, <3>1, <3>2, <3>3, <3>4
  <2>3. QED
    BY <1>1, <1>2, <1>4, <2>1, <2>2
<1>13. QED
  BY <1>9, <1>10, <1>11, <1>12 DEF MqNext

-------------------------------------------------------------------------------
(* Where a request is after a step.                                        *)

\* Placed and Responded of the next state, in the variables of the next state.
LEMMA NextPlace ==
  ASSUME NEW r \in Request
  PROVE  /\ Placed(r)' <=>
              /\ asked'[r] = none => phase'[r] = "idle" /\ r \notin known' /\ ~Has(taskLoop', AskOf(r))
              /\ Has(taskLoop', AskOf(r)) => phase'[r] = "idle" /\ r \notin known'
              /\ Has(mainLoop', SendOf(r)) => phase'[r] = "idle" /\ r \in known' /\ ~Has(taskLoop', AskOf(r))
              /\ phase'[r] # "idle" => r \in known'
              /\ Has(taskLoop', CallOf(r)) => phase'[r] = "given_up"
              /\ Once(taskLoop', AskOf(r)) /\ Once(taskLoop', CallOf(r)) /\ Once(mainLoop', SendOf(r))
         /\ Responded(r)' <=>
              \A s \in Session :
                /\ Has(answers'[s], ResponseTo(r)) \/ Has(sessionLoop'[s], ResponseTo(r)) =>
                     /\ asked'[r] = s /\ phase'[r] # "open"
                     /\ ~Has(taskLoop', AskOf(r)) /\ ~Has(mainLoop', SendOf(r)) /\ ~Has(taskLoop', CallOf(r))
                /\ Once(answers'[s], ResponseTo(r)) /\ Once(sessionLoop'[s], ResponseTo(r))
                /\ ~(Has(answers'[s], ResponseTo(r)) /\ Has(sessionLoop'[s], ResponseTo(r)))
                /\ ~Has(answers'[s], Wrong(r)') /\ ~Has(sessionLoop'[s], Wrong(r)')
         /\ Due(r)' = IF phase'[r] = "given_up" THEN "CODE_WAIT_RESP_TIMEOUT"
                      ELSE IF r \in known' THEN "CODE_PARAMETER_INVALID" ELSE "CODE_SESSION_HAV_NO_USER"
         /\ Wrong(r)' = ResponseTo(r) \ {[to |-> r, result |-> Due(r)']}
<1>1. Due(r)' = IF phase'[r] = "given_up" THEN "CODE_WAIT_RESP_TIMEOUT"
                ELSE IF r \in known' THEN "CODE_PARAMETER_INVALID" ELSE "CODE_SESSION_HAV_NO_USER"
  BY DEF Due
<1>2. Wrong(r)' = ResponseTo(r) \ {[to |-> r, result |-> Due(r)']}
  BY DEF Wrong, ResponseTo
<1>3. /\ Asks(r)' <=> Has(taskLoop', AskOf(r))
      /\ Sends(r)' <=> Has(mainLoop', SendOf(r))
      /\ Calls(r)' <=> Has(taskLoop', CallOf(r))
  BY DEF Asks, Sends, Calls, Has, AskOf, SendOf, CallOf
<1>4. /\ Once(taskLoop, AskOf(r))' <=> Once(taskLoop', AskOf(r))
      /\ Once(taskLoop, CallOf(r))' <=> Once(taskLoop', CallOf(r))
      /\ Once(mainLoop, SendOf(r))' <=> Once(mainLoop', SendOf(r))
  BY DEF Once, AskOf, SendOf, CallOf
<1>5. \A s \in Session :
        /\ Answered(r, s)' <=> Has(answers'[s], ResponseTo(r)) \/ Has(sessionLoop'[s], ResponseTo(r))
        /\ Has(answers[s], ResponseTo(r))' <=> Has(answers'[s], ResponseTo(r))
        /\ Has(sessionLoop[s], ResponseTo(r))' <=> Has(sessionLoop'[s], ResponseTo(r))
        /\ Once(answers[s], ResponseTo(r))' <=> Once(answers'[s], ResponseTo(r))
        /\ Once(sessionLoop[s], ResponseTo(r))' <=> Once(sessionLoop'[s], ResponseTo(r))
        /\ Has(answers[s], Wrong(r))' <=> Has(answers'[s], Wrong(r)')
        /\ Has(sessionLoop[s], Wrong(r))' <=> Has(sessionLoop'[s], Wrong(r)')
  BY DEF Answered, Has, Once, ResponseTo
<1>6. Placed(r)' <=>
        /\ asked'[r] = none => phase'[r] = "idle" /\ r \notin known' /\ ~Asks(r)'
        /\ Asks(r)' => phase'[r] = "idle" /\ r \notin known'
        /\ Sends(r)' => phase'[r] = "idle" /\ r \in known' /\ ~Asks(r)'
        /\ phase'[r] # "idle" => r \in known'
        /\ Calls(r)' => phase'[r] = "given_up"
        /\ Once(taskLoop, AskOf(r))' /\ Once(taskLoop, CallOf(r))' /\ Once(mainLoop, SendOf(r))'
  BY DEF Placed
<1>7. Responded(r)' <=>
        \A s \in Session :
          /\ Answered(r, s)' => asked'[r] = s /\ phase'[r] # "open" /\ ~Asks(r)' /\ ~Sends(r)' /\ ~Calls(r)'
          /\ Once(answers[s], ResponseTo(r))' /\ Once(sessionLoop[s], ResponseTo(r))'
          /\ ~(Has(answers[s], ResponseTo(r))' /\ Has(sessionLoop[s], ResponseTo(r))')
          /\ ~Has(answers[s], Wrong(r))' /\ ~Has(sessionLoop[s], Wrong(r))'
  BY DEF Responded
<1>8. Responded(r)' <=>
        \A s \in Session :
          /\ Has(answers'[s], ResponseTo(r)) \/ Has(sessionLoop'[s], ResponseTo(r)) =>
               /\ asked'[r] = s /\ phase'[r] # "open"
               /\ ~Has(taskLoop', AskOf(r)) /\ ~Has(mainLoop', SendOf(r)) /\ ~Has(taskLoop', CallOf(r))
          /\ Once(answers'[s], ResponseTo(r)) /\ Once(sessionLoop'[s], ResponseTo(r))
          /\ ~(Has(answers'[s], ResponseTo(r)) /\ Has(sessionLoop'[s], ResponseTo(r)))
          /\ ~Has(answers'[s], Wrong(r)') /\ ~Has(sessionLoop'[s], Wrong(r)')
  BY <1>3, <1>5, <1>7
<1>9. QED
  BY <1>1, <1>2, <1>3, <1>4, <1>6, <1>8

\* The loops, the phase and what is known of r are as before: so is its place.
LEMMA PlaceKept ==
  ASSUME NEW r \in Request, Placed(r),
         asked'[r] = asked[r], phase'[r] = phase[r], r \in known' <=> r \in known,
         Has(taskLoop', AskOf(r)) <=> Asks(r), Has(taskLoop', CallOf(r)) <=> Calls(r),
         Has(mainLoop', SendOf(r)) <=> Sends(r),
         Once(taskLoop, AskOf(r)) => Once(taskLoop', AskOf(r)),
         Once(taskLoop, CallOf(r)) => Once(taskLoop', CallOf(r)),
         Once(mainLoop, SendOf(r)) => Once(mainLoop', SendOf(r))
  PROVE  Placed(r)'
<1>1. /\ asked[r] = none => phase[r] = "idle" /\ r \notin known /\ ~Asks(r)
      /\ Asks(r) => phase[r] = "idle" /\ r \notin known
      /\ Sends(r) => phase[r] = "idle" /\ r \in known /\ ~Asks(r)
      /\ phase[r] # "idle" => r \in known
      /\ Calls(r) => phase[r] = "given_up"
      /\ Once(taskLoop, AskOf(r)) /\ Once(taskLoop, CallOf(r)) /\ Once(mainLoop, SendOf(r))
  BY DEF Placed
<1>2. QED
  BY <1>1, NextPlace

\* Nothing is answered, and if r has been answered nothing else of it has changed.
LEMMA ResponseKept ==
  ASSUME NEW r \in Request, Responded(r),
         \A s \in Session : \A S \in SUBSET ResponseTo(r) :
           /\ Has(answers'[s], S) <=> Has(answers[s], S)
           /\ Has(sessionLoop'[s], S) <=> Has(sessionLoop[s], S),
         \A s \in Session :
           /\ Once(answers[s], ResponseTo(r)) => Once(answers'[s], ResponseTo(r))
           /\ Once(sessionLoop[s], ResponseTo(r)) => Once(sessionLoop'[s], ResponseTo(r)),
         \A s \in Session : Answered(r, s) =>
           /\ asked'[r] = asked[r] /\ phase'[r] = phase[r] /\ (r \in known' <=> r \in known)
           /\ ~Has(taskLoop', AskOf(r)) /\ ~Has(mainLoop', SendOf(r)) /\ ~Has(taskLoop', CallOf(r))
  PROVE  Responded(r)'
<1> SUFFICES ASSUME NEW s \in Session
    PROVE
     /\ Has(answers'[s], ResponseTo(r)) \/ Has(sessionLoop'[s], ResponseTo(r)) =>
          /\ asked'[r] = s /\ phase'[r] # "open"
          /\ ~Has(taskLoop', AskOf(r)) /\ ~Has(mainLoop', SendOf(r)) /\ ~Has(taskLoop', CallOf(r))
     /\ Once(answers'[s], ResponseTo(r)) /\ Once(sessionLoop'[s], ResponseTo(r))
     /\ ~(Has(answers'[s], ResponseTo(r)) /\ Has(sessionLoop'[s], ResponseTo(r)))
     /\ ~Has(answers'[s], Wrong(r)') /\ ~Has(sessionLoop'[s], Wrong(r)')
  BY NextPlace
<1>1. /\ Answered(r, s) => asked[r] = s /\ phase[r] # "open" /\ ~Asks(r) /\ ~Sends(r) /\ ~Calls(r)
      /\ Once(answers[s], ResponseTo(r)) /\ Once(sessionLoop[s], ResponseTo(r))
      /\ ~(Has(answers[s], ResponseTo(r)) /\ Has(sessionLoop[s], ResponseTo(r)))
      /\ ~Has(answers[s], Wrong(r)) /\ ~Has(sessionLoop[s], Wrong(r))
  BY DEF Responded
<1>2. ResponseTo(r) \in SUBSET ResponseTo(r) /\ Wrong(r)' \in SUBSET ResponseTo(r) /\ Wrong(r) \in SUBSET ResponseTo(r)
  BY NextPlace DEF Wrong
<1>3. CASE Answered(r, s)
  <2>1. asked'[r] = asked[r] /\ phase'[r] = phase[r] /\ (r \in known' <=> r \in known)
    BY <1>3
  <2>2. Due(r)' = Due(r)
    BY <2>1, NextPlace DEF Due
  <2>3. Wrong(r)' = Wrong(r)
    BY <2>2, NextPlace DEF Wrong
  <2>4. ~Has(answers'[s], Wrong(r)') /\ ~Has(sessionLoop'[s], Wrong(r)')
    BY <1>1, <1>2, <2>3
  <2>5. QED
    BY <1>1, <1>2, <1>3, <2>1, <2>4
<1>4. CASE ~Answered(r, s)
  <2>1. ~Has(answers'[s], ResponseTo(r)) /\ ~Has(sessionLoop'[s], ResponseTo(r))
    BY <1>2, <1>4 DEF Answered
  <2>2. ~Has(answers'[s], Wrong(r)') /\ ~Has(sessionLoop'[s], Wrong(r)')
    BY <1>2, <2>1 DEF Has
  <2>3. QED
    BY <1>1, <2>1, <2>2
<1>5. QED
  BY <1>3, <1>4

\* The same when no response moves at all.
LEMMA NothingAnswered ==
  ASSUME NEW r \in Request, Responded(r), answers' = answers, sessionLoop' = sessionLoop,
         \A s \in Session : Answered(r, s) =>
           /\ asked'[r] = asked[r] /\ phase'[r] = phase[r] /\ (r \in known' <=> r \in known)
           /\ ~Has(taskLoop', AskOf(r)) /\ ~Has(mainLoop', SendOf(r)) /\ ~Has(taskLoop', CallOf(r))
  PROVE  Responded(r)'
BY ResponseKept

\* The first response to r is posted, with the result that is due (Message::send_response).
LEMMA FirstResponse ==
  ASSUME NEW r \in Request, NEW w \in Result, TypeOK, Responded(r), asked[r] \in Session,
         \A s \in Session : ~Answered(r, s),
         asked'[r] = asked[r], answers' = answers, SendResponse(r, w), w = Due(r)', phase'[r] # "open",
         ~Has(taskLoop', AskOf(r)), ~Has(mainLoop', SendOf(r)), ~Has(taskLoop', CallOf(r))
  PROVE  Responded(r)'
<1> DEFINE m == [to |-> r, result |-> w]
<1>1. /\ m \in Response /\ m \in ResponseTo(r) /\ m \notin Wrong(r)' /\ Wrong(r)' \subseteq ResponseTo(r)
  BY NextPlace DEF Response, ResponseTo
<1>2. sessionLoop \in [Session -> Seq(Response)] /\ sessionLoop' = [sessionLoop EXCEPT ![asked[r]] = Append(@, m)]
  BY DEF TypeOK, SendResponse
<1> HIDE DEF m
<1> SUFFICES ASSUME NEW s \in Session
    PROVE
     /\ Has(answers'[s], ResponseTo(r)) \/ Has(sessionLoop'[s], ResponseTo(r)) =>
          /\ asked'[r] = s /\ phase'[r] # "open"
          /\ ~Has(taskLoop', AskOf(r)) /\ ~Has(mainLoop', SendOf(r)) /\ ~Has(taskLoop', CallOf(r))
     /\ Once(answers'[s], ResponseTo(r)) /\ Once(sessionLoop'[s], ResponseTo(r))
     /\ ~(Has(answers'[s], ResponseTo(r)) /\ Has(sessionLoop'[s], ResponseTo(r)))
     /\ ~Has(answers'[s], Wrong(r)') /\ ~Has(sessionLoop'[s], Wrong(r)')
  BY NextPlace
<1>3. /\ ~Has(answers[s], ResponseTo(r)) /\ ~Has(sessionLoop[s], ResponseTo(r))
      /\ Once(answers[s], ResponseTo(r)) /\ Once(sessionLoop[s], ResponseTo(r))
  BY DEF Responded, Answered
<1>4. ~Has(answers[s], Wrong(r)') /\ ~Has(sessionLoop[s], Wrong(r)')
  BY <1>1, <1>3 DEF Has
<1>5. CASE s = asked[r]
  <2>1. sessionLoop'[s] = Append(sessionLoop[s], m) /\ sessionLoop[s] \in Seq(Response)
    BY <1>2, <1>5
  <2>2. /\ \A S : Has(Append(sessionLoop[s], m), S) <=> Has(sessionLoop[s], S) \/ m \in S
        /\ \A S : Once(sessionLoop[s], S) /\ ~(m \in S /\ Has(sessionLoop[s], S)) => Once(Append(sessionLoop[s], m), S)
    BY <1>1, <2>1, AppendQueue
  <2>3. QED
    BY <1>1, <1>3, <1>4, <1>5, <2>1, <2>2
<1>6. CASE s # asked[r]
  <2>1. sessionLoop'[s] = sessionLoop[s]
    BY <1>2, <1>6
  <2>2. QED
    BY <1>3, <1>4, <2>1
<1>7. QED
  BY <1>5, <1>6

\* A response to another request is posted.
LEMMA OtherResponse ==
  ASSUME NEW r \in Request, NEW x \in Request \ {r}, NEW w \in Result, TypeOK, asked[r] \in Session,
         SendResponse(r, w)
  PROVE  \A s \in Session :
           /\ \A S \in SUBSET ResponseTo(x) : Has(sessionLoop'[s], S) <=> Has(sessionLoop[s], S)
           /\ Once(sessionLoop[s], ResponseTo(x)) => Once(sessionLoop'[s], ResponseTo(x))
<1> DEFINE m == [to |-> r, result |-> w]
<1>1. m \in Response /\ \A S \in SUBSET ResponseTo(x) : m \notin S
  BY DEF Response, ResponseTo
<1>2. sessionLoop \in [Session -> Seq(Response)] /\ sessionLoop' = [sessionLoop EXCEPT ![asked[r]] = Append(@, m)]
  BY DEF TypeOK, SendResponse
<1> HIDE DEF m
<1> SUFFICES ASSUME NEW s \in Session
    PROVE  /\ \A S \in SUBSET ResponseTo(x) : Has(sessionLoop'[s], S) <=> Has(sessionLoop[s], S)
           /\ Once(sessionLoop[s], ResponseTo(x)) => Once(sessionLoop'[s], ResponseTo(x))
  OBVIOUS
<1>3. CASE s = asked[r]
  <2>1. sessionLoop'[s] = Append(sessionLoop[s], m) /\ sessionLoop[s] \in Seq(Response)
    BY <1>2, <1>3
  <2>2. /\ \A S : Has(Append(sessionLoop[s], m), S) <=> Has(sessionLoop[s], S) \/ m \in S
        /\ \A S : Once(sessionLoop[s], S) /\ ~(m \in S /\ Has(sessionLoop[s], S)) => Once(Append(sessionLoop[s], m), S)
    BY <1>1, <2>1, AppendQueue
  <2>3. ResponseTo(x) \in SUBSET ResponseTo(x)
    OBVIOUS
  <2>4. QED
    BY <1>1, <2>1, <2>2, <2>3
<1>4. CASE s # asked[r]
  BY <1>2, <1>4
<1>5. QED
  BY <1>3, <1>4

\* Sending a response keeps the type of the sessions' loops.
LEMMA SendResponseType ==
  ASSUME NEW r \in Request, NEW w \in Result, TypeOK, asked[r] \in Session, SendResponse(r, w)
  PROVE  sessionLoop' \in [Session -> Seq(Response)]
<1> DEFINE m == [to |-> r, result |-> w]
<1>1. m \in Response /\ sessionLoop \in [Session -> Seq(Response)]
  BY DEF Response, TypeOK
<1>2. sessionLoop' = [sessionLoop EXCEPT ![asked[r]] = Append(@, m)]
  BY DEF SendResponse
<1> HIDE DEF m
<1>3. Append(sessionLoop[asked[r]], m) \in Seq(Response)
  BY <1>1
<1>4. QED
  BY <1>1, <1>2, <1>3

-------------------------------------------------------------------------------
(* What is queued.                                                         *)

\* What stands for two requests differs, and so do a request and its callback.
LEMMA HandlersDiffer ==
  ASSUME NEW r \in Request
  PROVE  /\ SendOf(r) \subseteq MainHandler /\ AskOf(r) \cup CallOf(r) \subseteq Task
         /\ [do |-> "send", request |-> r] \in SendOf(r)
         /\ \A routed \in BOOLEAN : [do |-> "on_unknown_msg", request |-> r, routed |-> routed] \in AskOf(r)
         /\ [do |-> "callback", request |-> r, outcome |-> [kind |-> "timeout", of |-> r]] \in CallOf(r)
         /\ \A x \in Request : /\ \A m \in AskOf(r) : m \notin CallOf(x) /\ (m \in AskOf(x) => x = r)
                               /\ \A m \in CallOf(r) : m \notin AskOf(x) /\ (m \in CallOf(x) => x = r)
                               /\ \A m \in SendOf(r) : m \in SendOf(x) => x = r
<1>1. SendOf(r) \subseteq MainHandler /\ [do |-> "send", request |-> r] \in SendOf(r)
  BY DEF SendOf, MainHandler
<1>2. AskOf(r) \cup CallOf(r) \subseteq Task
  BY DEF Task
<1>3. \A routed \in BOOLEAN : [do |-> "on_unknown_msg", request |-> r, routed |-> routed] \in AskOf(r)
  BY DEF AskOf
<1>4. [do |-> "callback", request |-> r, outcome |-> [kind |-> "timeout", of |-> r]] \in CallOf(r)
  BY DEF CallOf
<1>5. ASSUME NEW x \in Request, NEW m \in AskOf(r) PROVE m \notin CallOf(x) /\ (m \in AskOf(x) => x = r)
  <2>1. m.do = "on_unknown_msg" /\ m.request = r
    BY DEF AskOf
  <2>2. m \in CallOf(x) => m.do = "callback"
    BY DEF CallOf
  <2>3. m \in AskOf(x) => m.request = x
    BY DEF AskOf
  <2>4. QED
    BY <2>1, <2>2, <2>3
<1>6. ASSUME NEW x \in Request, NEW m \in CallOf(r) PROVE m \notin AskOf(x) /\ (m \in CallOf(x) => x = r)
  <2>1. m.do = "callback" /\ m.request = r
    BY DEF CallOf
  <2>2. m \in CallOf(x) => m.request = x
    BY DEF CallOf
  <2>3. m \in AskOf(x) => m.do = "on_unknown_msg"
    BY DEF AskOf
  <2>4. QED
    BY <2>1, <2>2, <2>3
<1>7. ASSUME NEW x \in Request, NEW m \in SendOf(r), m \in SendOf(x) PROVE x = r
  <2>1. m.request = r /\ m.request = x
    BY <1>7 DEF SendOf
  <2>2. QED
    BY <2>1
<1>8. QED
  BY <1>1, <1>2, <1>3, <1>4, <1>5, <1>6, <1>7

\* Every task is of one of the types the lobby's loop has.
LEMMA TasksTyped == Task \subseteq TaskHandler
<1> SUFFICES ASSUME NEW r \in Request PROVE AskOf(r) \cup CallOf(r) \subseteq TaskHandler
  BY DEF Task
<1>1. AskOf(r) \subseteq TaskHandler
  BY DEF AskOf, TaskHandler
<1>2. [kind |-> "timeout", of |-> r] \in [kind : {"answer", "timeout"}, of : Request]
  OBVIOUS
<1>3. CallOf(r) \subseteq TaskHandler
  BY <1>2 DEF CallOf, TaskHandler
<1>4. QED
  BY <1>1, <1>3

\* A task is queued on the lobby's loop.
LEMMA AppendTask ==
  ASSUME taskLoop \in Seq(Task), NEW e \in Task, taskLoop' = Append(taskLoop, e)
  PROVE  /\ taskLoop' \in Seq(Task) /\ taskLoop' \in Seq(TaskHandler)
         /\ \A S : Has(taskLoop', S) <=> Has(taskLoop, S) \/ e \in S
         /\ \A S : Once(taskLoop, S) /\ ~(e \in S /\ Has(taskLoop, S)) => Once(taskLoop', S)
<1>1. taskLoop' \in Seq(Task)
  BY AppendQueue
<1>2. taskLoop' \in Seq(TaskHandler)
  BY <1>1, TasksTyped
<1>3. QED
  BY <1>1, <1>2, AppendQueue

\* The task at the head is taken.
LEMMA TailTask ==
  ASSUME taskLoop \in Seq(Task), taskLoop # <<>>, taskLoop' = Tail(taskLoop)
  PROVE  /\ taskLoop' \in Seq(Task) /\ taskLoop' \in Seq(TaskHandler) /\ Head(taskLoop) \in Task
         /\ \A S : Has(taskLoop, S) <=> Has(taskLoop', S) \/ Head(taskLoop) \in S
         /\ \A S : Once(taskLoop, S) => Once(taskLoop', S) /\ ~(Head(taskLoop) \in S /\ Has(taskLoop', S))
<1>1. taskLoop' \in Seq(Task)
  BY TailQueue
<1>2. taskLoop' \in Seq(TaskHandler)
  BY <1>1, TasksTyped
<1>3. QED
  BY <1>1, <1>2, TailQueue

-------------------------------------------------------------------------------
(* The steps.                                                              *)

\* What the invariant says of the types.
LEMMA Types ==
  ASSUME IInv
  PROVE  /\ mainLoop \in Seq(MainHandler) /\ taskLoop \in Seq(Task) /\ taskLoop \in Seq(TaskHandler)
         /\ asked \in [Request -> Session \cup {none}] /\ known \in SUBSET Request
         /\ phase \in [Request -> {"idle", "open", "given_up"}]
         /\ sessionLoop \in [Session -> Seq(Response)] /\ answers \in [Session -> Seq(Response)]
         /\ consumed \in 0..MaxConsumed /\ TypeOK
BY DEF IInv, TypeOK, OnlyTimeouts

\* The types of the next state when the broker's client does not move.
LEMMA NextTypes ==
  ASSUME TypeOK, UNCHANGED <<client, handler, link, attempts>>,
         mainLoop' \in Seq(MainHandler), taskLoop' \in Seq(TaskHandler),
         asked' \in [Request -> Session \cup {none}], known' \in SUBSET Request,
         phase' \in [Request -> {"idle", "open", "given_up"}],
         sessionLoop' \in [Session -> Seq(Response)], answers' \in [Session -> Seq(Response)],
         consumed' \in 0..MaxConsumed
  PROVE  TypeOK'
BY DEF TypeOK, client, handler

\* The broker's client does not move, and no call of connect is queued.
LEMMA LinkKept ==
  ASSUME LinkInv, UNCHANGED <<client, handler, link, attempts>>,
         Has(mainLoop', {[do |-> "connect"]}) => Has(mainLoop, {[do |-> "connect"]}),
         Once(mainLoop, {[do |-> "connect"]}) => Once(mainLoop', {[do |-> "connect"]})
  PROVE  LinkInv'
<1>1. /\ Has(mainLoop, {[do |-> "connect"]})' <=> Has(mainLoop', {[do |-> "connect"]})
      /\ Once(mainLoop, {[do |-> "connect"]})' <=> Once(mainLoop', {[do |-> "connect"]})
  BY DEF Has, Once
<1>2. QED
  BY <1>1 DEF LinkInv, HeartbeatEndsAtLogin, client, handler

\* A step of the broker's client.
LEMMA MqStepIInv ==
  ASSUME IInv, MqStep
  PROVE  IInv'
<1>1. TypeOK /\ LinkInv /\ MqNext /\ OnlyTimeouts /\ \A r \in Request : Placed(r) /\ Responded(r)
  BY DEF IInv, MqStep
<1>2. /\ taskLoop' = taskLoop /\ asked' = asked /\ known' = known /\ phase' = phase
      /\ sessionLoop' = sessionLoop /\ answers' = answers /\ consumed' = consumed
  BY DEF MqStep, players, relayVars
<1>3. /\ m_auto_reconnect' \in BOOLEAN /\ m_is_connecting' \in BOOLEAN /\ m_is_connected' \in BOOLEAN
      /\ m_timer' \in {"idle", "waiting", "queued"} /\ heartbeat' \in {"none", "unset", "armed"}
      /\ link' \in Link /\ attempts' \in 0..MaxAttempts /\ mainLoop' \in Seq(MainHandler)
      /\ LinkInv'
      /\ \A r \in Request : /\ Has(mainLoop', SendOf(r)) <=> Has(mainLoop, SendOf(r))
                            /\ Once(mainLoop, SendOf(r)) => Once(mainLoop', SendOf(r))
  BY <1>1, MqStepKeeps
<1>4. TypeOK'
  BY <1>2, <1>3, Types DEF TypeOK
<1>5. OnlyTimeouts'
  BY <1>1, <1>2 DEF OnlyTimeouts
<1>6. ASSUME NEW r \in Request PROVE Placed(r)' /\ Responded(r)'
  <2>1. Placed(r) /\ Responded(r)
    BY <1>1
  <2>2. Placed(r)'
    BY <1>2, <1>3, <2>1, PlaceKept DEF Asks, Sends, Calls
  <2>3. \A s \in Session : Answered(r, s) => ~Asks(r) /\ ~Sends(r) /\ ~Calls(r)
    BY <2>1 DEF Responded
  <2>4. Responded(r)'
    BY <1>2, <1>3, <2>1, <2>3, NothingAnswered DEF Asks, Sends, Calls
  <2>5. QED
    BY <2>2, <2>4
<1>7. QED
  BY <1>3, <1>4, <1>5, <1>6 DEF IInv

\* A session reads a request nobody asked before.
LEMMA ReadsIInv ==
  ASSUME IInv, NEW s \in Session, NEW r \in Request, Reads(s, r)
  PROVE  IInv'
<1>1. PICK routed \in BOOLEAN : taskLoop' = Append(taskLoop, [do |-> "on_unknown_msg", request |-> r, routed |-> routed])
  BY DEF Reads
<1> DEFINE e == [do |-> "on_unknown_msg", request |-> r, routed |-> routed]
<1>2. /\ asked[r] = none /\ asked' = [asked EXCEPT ![r] = s] /\ UNCHANGED <<client, handler, link, attempts>>
      /\ mainLoop' = mainLoop /\ known' = known /\ phase' = phase
      /\ sessionLoop' = sessionLoop /\ answers' = answers /\ consumed' = consumed
  BY DEF Reads, mqVars
<1>3. e \in AskOf(r)
  BY HandlersDiffer
<1>4. taskLoop' = Append(taskLoop, e)
  BY <1>1
<1> HIDE DEF e
<1>5. e \in Task /\ \A x \in Request : e \notin CallOf(x) /\ (e \in AskOf(x) => x = r)
  BY <1>3, HandlersDiffer
<1>6. /\ taskLoop' \in Seq(Task) /\ taskLoop' \in Seq(TaskHandler)
      /\ \A S : Has(taskLoop', S) <=> Has(taskLoop, S) \/ e \in S
      /\ \A S : Once(taskLoop, S) /\ ~(e \in S /\ Has(taskLoop, S)) => Once(taskLoop', S)
  BY <1>4, <1>5, AppendTask, Types
<1>7. TypeOK' /\ LinkInv' /\ OnlyTimeouts'
  BY <1>2, <1>6, Types, NextTypes, LinkKept DEF IInv, OnlyTimeouts
<1>8. ASSUME NEW x \in Request PROVE Placed(x)' /\ Responded(x)'
  <2>1. Placed(x) /\ Responded(x)
    BY DEF IInv
  <2>2. CASE x # r
    <3>1. /\ asked'[x] = asked[x]
          /\ Has(taskLoop', AskOf(x)) <=> Asks(x)
          /\ Has(taskLoop', CallOf(x)) <=> Calls(x)
          /\ Once(taskLoop, AskOf(x)) => Once(taskLoop', AskOf(x))
          /\ Once(taskLoop, CallOf(x)) => Once(taskLoop', CallOf(x))
      BY <1>2, <1>3, <1>5, <1>6, <2>2, Types DEF Asks, Calls
    <3>2. Placed(x)'
      BY <1>2, <2>1, <3>1, PlaceKept DEF Sends
    <3>3. \A t \in Session : Answered(x, t) => ~Asks(x) /\ ~Sends(x) /\ ~Calls(x)
      BY <2>1 DEF Responded
    <3>4. Responded(x)'
      BY <1>2, <2>1, <3>1, <3>3, NothingAnswered DEF Sends
    <3>5. QED
      BY <3>2, <3>4
  <2>3. CASE x = r
    <3>1. /\ phase[r] = "idle" /\ r \notin known /\ ~Asks(r) /\ ~Sends(r) /\ ~Calls(r)
          /\ Once(taskLoop, AskOf(r)) /\ Once(taskLoop, CallOf(r)) /\ Once(mainLoop, SendOf(r))
      BY <1>2, <2>1, <2>3 DEF Placed
    <3>2. \A t \in Session : ~Answered(r, t)
      BY <1>2, <2>1, <2>3, NoSession DEF Responded
    <3>3. /\ asked'[r] = s /\ s # none
          /\ Has(taskLoop', AskOf(r)) /\ ~Has(taskLoop', CallOf(r)) /\ ~Has(mainLoop', SendOf(r))
          /\ Once(taskLoop', AskOf(r)) /\ Once(taskLoop', CallOf(r)) /\ Once(mainLoop', SendOf(r))
      BY <1>2, <1>3, <1>5, <1>6, <3>1, Types, NoSession DEF Asks, Calls, Sends
    <3>4. Placed(r)'
      BY <1>2, <3>1, <3>3, NextPlace
    <3>5. Responded(r)'
      BY <1>2, <2>1, <2>3, <3>2, NothingAnswered
    <3>6. QED
      BY <2>3, <3>4, <3>5
  <2>4. QED
    BY <2>2, <2>3
<1>9. QED
  BY <1>7, <1>8 DEF IInv

\* Nothing of a request moves: a session closes, or the broker delivers a message, which
\* recv_data hands to nobody.
LEMMA IdleIInv ==
  ASSUME IInv, mqVars' = mqVars, taskLoop' = taskLoop, asked' = asked, known' = known, phase' = phase,
         sessionLoop' = sessionLoop, answers' = answers, consumed' \in 0..MaxConsumed
  PROVE  IInv'
<1>1. mainLoop' = mainLoop /\ UNCHANGED <<client, handler, link, attempts>>
  BY DEF mqVars
<1>2. TypeOK' /\ LinkInv' /\ OnlyTimeouts'
  BY <1>1, Types, NextTypes, LinkKept DEF IInv, OnlyTimeouts
<1>3. ASSUME NEW x \in Request PROVE Placed(x)' /\ Responded(x)'
  <2>1. Placed(x) /\ Responded(x)
    BY DEF IInv
  <2>2. Placed(x)'
    BY <1>1, <2>1, PlaceKept DEF Asks, Sends, Calls
  <2>3. \A t \in Session : Answered(x, t) => ~Asks(x) /\ ~Sends(x) /\ ~Calls(x)
    BY <2>1 DEF Responded
  <2>4. Responded(x)'
    BY <1>1, <2>1, <2>3, NothingAnswered DEF Asks, Sends, Calls
  <2>5. QED
    BY <2>2, <2>4
<1>4. QED
  BY <1>2, <1>3 DEF IInv

\* A request is taken from the lobby's loop: it was nowhere else.
LEMMA TakesAsk ==
  ASSUME IInv, OnUnknownMsg
  PROVE  \E r \in Request :
           /\ Head(taskLoop).request = r /\ Head(taskLoop).routed \in BOOLEAN
           /\ taskLoop' \in Seq(Task) /\ taskLoop' \in Seq(TaskHandler)
           /\ phase[r] = "idle" /\ r \notin known /\ asked[r] \in Session
           /\ ~Has(taskLoop', AskOf(r)) /\ ~Has(taskLoop', CallOf(r)) /\ ~Sends(r)
           /\ Once(taskLoop', AskOf(r)) /\ Once(taskLoop', CallOf(r)) /\ Once(mainLoop, SendOf(r))
           /\ \A s \in Session : ~Answered(r, s)
           /\ \A x \in Request \ {r} :
                /\ Has(taskLoop', AskOf(x)) <=> Asks(x)
                /\ Has(taskLoop', CallOf(x)) <=> Calls(x)
                /\ Once(taskLoop, AskOf(x)) => Once(taskLoop', AskOf(x))
                /\ Once(taskLoop, CallOf(x)) => Once(taskLoop', CallOf(x))
<1>1. taskLoop # <<>> /\ Head(taskLoop).do = "on_unknown_msg" /\ taskLoop' = Tail(taskLoop)
  BY DEF OnUnknownMsg
<1>2. /\ taskLoop' \in Seq(Task) /\ taskLoop' \in Seq(TaskHandler) /\ Head(taskLoop) \in Task
      /\ \A S : Has(taskLoop, S) <=> Has(taskLoop', S) \/ Head(taskLoop) \in S
      /\ \A S : Once(taskLoop, S) => Once(taskLoop', S) /\ ~(Head(taskLoop) \in S /\ Has(taskLoop', S))
  BY <1>1, TailTask, Types
<1>3. PICK r \in Request : Head(taskLoop) \in AskOf(r)
  <2>1. PICK r \in Request : Head(taskLoop) \in AskOf(r) \cup CallOf(r)
    BY <1>2 DEF Task
  <2>2. Head(taskLoop) \notin CallOf(r)
    BY <1>1 DEF CallOf
  <2>3. QED
    BY <2>1, <2>2
<1>4. Head(taskLoop).request = r /\ Head(taskLoop).routed \in BOOLEAN
  BY <1>3 DEF AskOf
<1>5. \A x \in Request : Head(taskLoop) \notin CallOf(x) /\ (Head(taskLoop) \in AskOf(x) => x = r)
  BY <1>3, HandlersDiffer
<1>6. Placed(r) /\ Responded(r) /\ Asks(r)
  BY <1>2, <1>3 DEF IInv, Asks
<1>7. phase[r] = "idle" /\ r \notin known /\ asked[r] # none /\ ~Sends(r) /\ ~Calls(r)
      /\ Once(taskLoop, AskOf(r)) /\ Once(taskLoop, CallOf(r)) /\ Once(mainLoop, SendOf(r))
  BY <1>6 DEF Placed
<1>8. asked[r] \in Session
  BY <1>7, Types
<1>9. \A s \in Session : ~Answered(r, s)
  BY <1>6 DEF Responded
<1>10. /\ ~Has(taskLoop', AskOf(r)) /\ ~Has(taskLoop', CallOf(r))
       /\ Once(taskLoop', AskOf(r)) /\ Once(taskLoop', CallOf(r))
  BY <1>2, <1>3, <1>7 DEF Calls
<1>11. \A x \in Request \ {r} :
         /\ Has(taskLoop', AskOf(x)) <=> Asks(x)
         /\ Has(taskLoop', CallOf(x)) <=> Calls(x)
         /\ Once(taskLoop, AskOf(x)) => Once(taskLoop', AskOf(x))
         /\ Once(taskLoop, CallOf(x)) => Once(taskLoop', CallOf(x))
  BY <1>2, <1>5 DEF Asks, Calls
<1>12. QED
  BY <1>2, <1>4, <1>7, <1>8, <1>9, <1>10, <1>11

\* The lobby refuses a request or posts it to the broker's loop (dispatch_app_msg).
LEMMA OnUnknownMsgIInv ==
  ASSUME IInv, OnUnknownMsg
  PROVE  IInv'
<1>1. PICK r \in Request :
           /\ Head(taskLoop).request = r /\ Head(taskLoop).routed \in BOOLEAN
           /\ taskLoop' \in Seq(Task) /\ taskLoop' \in Seq(TaskHandler)
           /\ phase[r] = "idle" /\ r \notin known /\ asked[r] \in Session
           /\ ~Has(taskLoop', AskOf(r)) /\ ~Has(taskLoop', CallOf(r)) /\ ~Sends(r)
           /\ Once(taskLoop', AskOf(r)) /\ Once(taskLoop', CallOf(r)) /\ Once(mainLoop, SendOf(r))
           /\ \A s \in Session : ~Answered(r, s)
           /\ \A x \in Request \ {r} :
                /\ Has(taskLoop', AskOf(x)) <=> Asks(x)
                /\ Has(taskLoop', CallOf(x)) <=> Calls(x)
                /\ Once(taskLoop, AskOf(x)) => Once(taskLoop', AskOf(x))
                /\ Once(taskLoop, CallOf(x)) => Once(taskLoop', CallOf(x))
  BY TakesAsk
<1>2. /\ UNCHANGED <<client, handler, link, attempts>> /\ asked' = asked /\ phase' = phase
      /\ answers' = answers /\ consumed' = consumed
      /\ \/ SendResponse(r, "CODE_SESSION_HAV_NO_USER") /\ mainLoop' = mainLoop /\ known' = known
         \/ SendResponse(r, "CODE_PARAMETER_INVALID") /\ mainLoop' = mainLoop /\ known' = known \cup {r}
         \/ SendMessage(r) /\ sessionLoop' = sessionLoop /\ known' = known \cup {r}
  BY <1>1 DEF OnUnknownMsg, DispatchAppMsg
<1>3. \A x \in Request : /\ Placed(x) /\ Responded(x)
                         /\ \A t \in Session : Answered(x, t) => ~Asks(x) /\ ~Sends(x) /\ ~Calls(x)
  BY DEF IInv, Responded
<1>4. TypeOK /\ LinkInv /\ known' \in SUBSET Request /\ OnlyTimeouts'
      /\ \A x \in Request \ {r} : x \in known' <=> x \in known
  BY <1>1, <1>2, Types DEF IInv, OnlyTimeouts
<1>5. ASSUME NEW w \in {"CODE_SESSION_HAV_NO_USER", "CODE_PARAMETER_INVALID"}, SendResponse(r, w),
             mainLoop' = mainLoop, w = IF r \in known' THEN "CODE_PARAMETER_INVALID" ELSE "CODE_SESSION_HAV_NO_USER"
      PROVE  IInv'
  <2>1. w \in Result
    BY DEF Result
  <2>2. TypeOK' /\ LinkInv'
    BY <1>1, <1>2, <1>4, <1>5, <2>1, Types, NextTypes, LinkKept, SendResponseType
  <2>3. w = Due(r)'
    BY <1>1, <1>2, <1>5, NextPlace
  <2>4. Placed(r)'
    BY <1>1, <1>2, <1>5, NextPlace, NoSession DEF Sends
  <2>5. Responded(r)'
    BY <1>1, <1>2, <1>3, <1>4, <1>5, <2>1, <2>3, FirstResponse DEF Sends
  <2>6. ASSUME NEW x \in Request \ {r} PROVE Placed(x)' /\ Responded(x)'
    <3>1. Placed(x)'
      BY <1>1, <1>2, <1>3, <1>4, <1>5, PlaceKept DEF Sends
    <3>2. \A s \in Session :
            /\ \A S \in SUBSET ResponseTo(x) : Has(sessionLoop'[s], S) <=> Has(sessionLoop[s], S)
            /\ Once(sessionLoop[s], ResponseTo(x)) => Once(sessionLoop'[s], ResponseTo(x))
      BY <1>1, <1>4, <1>5, <2>1, OtherResponse
    <3>3. \A s \in Session : Answered(x, s) =>
            /\ asked'[x] = asked[x] /\ phase'[x] = phase[x] /\ (x \in known' <=> x \in known)
            /\ ~Has(taskLoop', AskOf(x)) /\ ~Has(mainLoop', SendOf(x)) /\ ~Has(taskLoop', CallOf(x))
      BY <1>1, <1>2, <1>3, <1>4, <1>5 DEF Sends
    <3>4. \A s \in Session :
            /\ \A S \in SUBSET ResponseTo(x) :
                 /\ Has(answers'[s], S) <=> Has(answers[s], S)
                 /\ Has(sessionLoop'[s], S) <=> Has(sessionLoop[s], S)
            /\ Once(answers[s], ResponseTo(x)) => Once(answers'[s], ResponseTo(x))
            /\ Once(sessionLoop[s], ResponseTo(x)) => Once(sessionLoop'[s], ResponseTo(x))
      BY <1>2, <3>2
    <3>5. Responded(x)'
      BY <1>3, <3>3, <3>4, ResponseKept
    <3>6. QED
      BY <3>1, <3>5
  <2>7. QED
    BY <1>4, <2>2, <2>4, <2>5, <2>6 DEF IInv
<1>6. CASE SendMessage(r) /\ sessionLoop' = sessionLoop /\ known' = known \cup {r}
  <2> DEFINE e == [do |-> "send", request |-> r]
  <2>1. e \in SendOf(r) /\ mainLoop' = Append(mainLoop, e) /\ e \notin {[do |-> "connect"]}
    BY <1>6, HandlersDiffer DEF SendMessage
  <2> HIDE DEF e
  <2>2. e \in MainHandler /\ \A x \in Request : e \in SendOf(x) => x = r
    BY <2>1, HandlersDiffer
  <2>3. /\ mainLoop' \in Seq(MainHandler)
        /\ \A S : Has(mainLoop', S) <=> Has(mainLoop, S) \/ e \in S
        /\ \A S : Once(mainLoop, S) /\ ~(e \in S /\ Has(mainLoop, S)) => Once(mainLoop', S)
    BY <2>1, <2>2, AppendQueue, Types
  <2>4. TypeOK'
    BY <1>1, <1>2, <1>4, <1>6, <2>3, Types, NextTypes
  <2>5. LinkInv'
    BY <1>2, <1>4, <2>1, <2>3, LinkKept
  <2>6. Placed(r)'
    <3>1. Has(mainLoop', SendOf(r)) /\ Once(mainLoop', SendOf(r)) /\ r \in known' /\ asked'[r] # none
      BY <1>1, <1>2, <1>6, <2>1, <2>3, NoSession DEF Sends
    <3>2. QED
      BY <1>1, <1>2, <3>1, NextPlace
  <2>7. Responded(r)'
    BY <1>1, <1>2, <1>3, <1>6, NothingAnswered
  <2>8. ASSUME NEW x \in Request \ {r} PROVE Placed(x)' /\ Responded(x)'
    <3>1. /\ Has(mainLoop', SendOf(x)) <=> Sends(x)
          /\ Once(mainLoop, SendOf(x)) => Once(mainLoop', SendOf(x))
      BY <2>2, <2>3 DEF Sends
    <3>2. Placed(x)'
      BY <1>1, <1>2, <1>3, <1>4, <3>1, PlaceKept
    <3>3. Responded(x)'
      BY <1>1, <1>2, <1>3, <1>4, <1>6, <3>1, NothingAnswered
    <3>4. QED
      BY <3>2, <3>3
  <2>9. QED
    BY <1>4, <2>4, <2>5, <2>6, <2>7, <2>8 DEF IInv
<1>7. CASE SendResponse(r, "CODE_SESSION_HAV_NO_USER") /\ mainLoop' = mainLoop /\ known' = known
  BY <1>1, <1>5, <1>7
<1>8. CASE SendResponse(r, "CODE_PARAMETER_INVALID") /\ mainLoop' = mainLoop /\ known' = known \cup {r}
  BY <1>1, <1>5, <1>8
<1>9. QED
  BY <1>2, <1>6, <1>7, <1>8

\* The callback of a request is run: it responds with the timeout it was given.
LEMMA RunCallbackIInv ==
  ASSUME IInv, RunCallback
  PROVE  IInv'
<1> DEFINE w == "CODE_WAIT_RESP_TIMEOUT"
<1>1. taskLoop # <<>> /\ Head(taskLoop).do = "callback" /\ taskLoop' = Tail(taskLoop)
  BY DEF RunCallback
<1>2. /\ taskLoop' \in Seq(Task) /\ taskLoop' \in Seq(TaskHandler) /\ Head(taskLoop) \in Task
      /\ \A S : Has(taskLoop, S) <=> Has(taskLoop', S) \/ Head(taskLoop) \in S
      /\ \A S : Once(taskLoop, S) => Once(taskLoop', S) /\ ~(Head(taskLoop) \in S /\ Has(taskLoop', S))
  BY <1>1, TailTask, Types
<1>3. PICK r \in Request : Head(taskLoop) \in CallOf(r)
  <2>1. PICK r \in Request : Head(taskLoop) \in AskOf(r) \cup CallOf(r)
    BY <1>2 DEF Task
  <2>2. Head(taskLoop) \notin AskOf(r)
    BY <1>1 DEF AskOf
  <2>3. QED
    BY <2>1, <2>2
<1>4. Head(taskLoop).request = r /\ Head(taskLoop).outcome.kind = "timeout"
  BY <1>3 DEF CallOf
<1>5. \A x \in Request : Head(taskLoop) \notin AskOf(x) /\ (Head(taskLoop) \in CallOf(x) => x = r)
  BY <1>3, HandlersDiffer
<1>6. /\ UNCHANGED <<client, handler, link, attempts>> /\ mainLoop' = mainLoop /\ asked' = asked
      /\ phase' = phase /\ known' = known /\ answers' = answers /\ consumed' = consumed
      /\ SendResponse(r, w)
  BY <1>4 DEF RunCallback, mqVars, players
<1>7. \A x \in Request : /\ Placed(x) /\ Responded(x)
                         /\ \A t \in Session : Answered(x, t) => ~Asks(x) /\ ~Sends(x) /\ ~Calls(x)
  BY DEF IInv, Responded
<1>8. TypeOK /\ LinkInv /\ OnlyTimeouts' /\ w \in Result
  BY <1>2, Types DEF IInv, OnlyTimeouts, Result
<1>9. Calls(r)
  BY <1>2, <1>3 DEF Calls
<1>10. /\ phase[r] = "given_up" /\ r \in known /\ asked[r] # none /\ ~Asks(r) /\ ~Sends(r)
       /\ Once(taskLoop, AskOf(r)) /\ Once(taskLoop, CallOf(r)) /\ Once(mainLoop, SendOf(r))
  BY <1>7, <1>9 DEF Placed
<1>11. asked[r] \in Session /\ \A s \in Session : ~Answered(r, s)
  BY <1>7, <1>9, <1>10, Types
<1>12. TypeOK' /\ LinkInv'
  BY <1>2, <1>6, <1>8, <1>11, Types, NextTypes, LinkKept, SendResponseType
<1>13. /\ ~Has(taskLoop', AskOf(r)) /\ ~Has(taskLoop', CallOf(r)) /\ ~Has(mainLoop', SendOf(r))
       /\ Once(taskLoop', AskOf(r)) /\ Once(taskLoop', CallOf(r)) /\ Once(mainLoop', SendOf(r))
  BY <1>2, <1>3, <1>6, <1>10 DEF Asks, Sends
<1>14. Placed(r)'
  BY <1>6, <1>10, <1>13, NextPlace
<1>15. w = Due(r)'
  BY <1>6, <1>10, NextPlace
<1> HIDE DEF w
<1>16. Responded(r)'
  BY <1>6, <1>7, <1>8, <1>10, <1>11, <1>13, <1>15, FirstResponse
<1>17. ASSUME NEW x \in Request \ {r} PROVE Placed(x)' /\ Responded(x)'
  <2>1. /\ Has(taskLoop', AskOf(x)) <=> Asks(x)
        /\ Has(taskLoop', CallOf(x)) <=> Calls(x)
        /\ Once(taskLoop, AskOf(x)) => Once(taskLoop', AskOf(x))
        /\ Once(taskLoop, CallOf(x)) => Once(taskLoop', CallOf(x))
    BY <1>2, <1>5 DEF Asks, Calls
  <2>2. Placed(x)'
    BY <1>6, <1>7, <2>1, PlaceKept DEF Sends
  <2>3. \A s \in Session :
          /\ \A S \in SUBSET ResponseTo(x) : Has(sessionLoop'[s], S) <=> Has(sessionLoop[s], S)
          /\ Once(sessionLoop[s], ResponseTo(x)) => Once(sessionLoop'[s], ResponseTo(x))
    BY <1>6, <1>8, <1>11, OtherResponse
  <2>4. \A s \in Session : Answered(x, s) =>
          /\ asked'[x] = asked[x] /\ phase'[x] = phase[x] /\ (x \in known' <=> x \in known)
          /\ ~Has(taskLoop', AskOf(x)) /\ ~Has(mainLoop', SendOf(x)) /\ ~Has(taskLoop', CallOf(x))
    BY <1>6, <1>7, <2>1 DEF Sends
  <2>5. \A s \in Session :
          /\ \A S \in SUBSET ResponseTo(x) :
               /\ Has(answers'[s], S) <=> Has(answers[s], S)
               /\ Has(sessionLoop'[s], S) <=> Has(sessionLoop[s], S)
          /\ Once(answers[s], ResponseTo(x)) => Once(answers'[s], ResponseTo(x))
          /\ Once(sessionLoop[s], ResponseTo(x)) => Once(sessionLoop'[s], ResponseTo(x))
    BY <1>6, <2>3
  <2>6. Responded(x)'
    BY <1>7, <2>4, <2>5, ResponseKept
  <2>7. QED
    BY <2>2, <2>6
<1>18. QED
  BY <1>8, <1>12, <1>14, <1>16, <1>17 DEF IInv

\* A request is sent to the broker and its timer starts.
LEMMA DoSendIInv ==
  ASSUME IInv, DoSendAsynMessage
  PROVE  IInv'
<1>1. mainLoop # <<>> /\ Head(mainLoop).do = "send" /\ mainLoop' = Tail(mainLoop)
  BY DEF DoSendAsynMessage
<1>2. /\ mainLoop' \in Seq(MainHandler) /\ Head(mainLoop) \in MainHandler
      /\ \A S : Has(mainLoop, S) <=> Has(mainLoop', S) \/ Head(mainLoop) \in S
      /\ \A S : Once(mainLoop, S) => Once(mainLoop', S) /\ ~(Head(mainLoop) \in S /\ Has(mainLoop', S))
  BY <1>1, TakeMain, Types
<1>3. PICK r \in Request : Head(mainLoop) = [do |-> "send", request |-> r]
  BY <1>1, <1>2 DEF MainHandler
<1>4. /\ Head(mainLoop) \in SendOf(r) /\ Head(mainLoop).request = r
      /\ \A x \in Request : Head(mainLoop) \in SendOf(x) => x = r
  <2>1. Head(mainLoop) \in SendOf(r) /\ Head(mainLoop).request = r
    BY <1>3 DEF SendOf
  <2>2. QED
    BY <2>1, HandlersDiffer
<1>5. /\ UNCHANGED <<client, handler, link, attempts>> /\ asked' = asked /\ taskLoop' = taskLoop
      /\ known' = known /\ answers' = answers /\ sessionLoop' = sessionLoop /\ consumed' = consumed
      /\ phase[r] = "idle" /\ phase' = [phase EXCEPT ![r] = "open"]
  BY <1>4 DEF DoSendAsynMessage, Broker!Open, players
<1>6. \A x \in Request : /\ Placed(x) /\ Responded(x)
                         /\ \A t \in Session : Answered(x, t) => ~Asks(x) /\ ~Sends(x) /\ ~Calls(x)
  BY DEF IInv, Responded
<1>7. phase' \in [Request -> {"idle", "open", "given_up"}]
  BY <1>5, Types
<1>8. TypeOK' /\ LinkInv' /\ OnlyTimeouts'
  BY <1>2, <1>5, <1>7, Types, NextTypes, LinkKept DEF IInv, OnlyTimeouts
<1>9. Sends(r)
  BY <1>2, <1>4 DEF Sends
<1>10. /\ r \in known /\ asked[r] # none /\ ~Asks(r) /\ ~Calls(r)
       /\ Once(taskLoop, AskOf(r)) /\ Once(taskLoop, CallOf(r)) /\ Once(mainLoop, SendOf(r))
  BY <1>5, <1>6, <1>9 DEF Placed
<1>11. ~Has(mainLoop', SendOf(r)) /\ Once(mainLoop', SendOf(r)) /\ phase'[r] = "open"
  BY <1>2, <1>4, <1>5, <1>10, Types
<1>12. Placed(r)'
  BY <1>5, <1>10, <1>11, NextPlace DEF Asks, Calls
<1>13. Responded(r)'
  BY <1>5, <1>6, <1>9, NothingAnswered
<1>14. ASSUME NEW x \in Request \ {r} PROVE Placed(x)' /\ Responded(x)'
  <2>1. /\ Has(mainLoop', SendOf(x)) <=> Sends(x)
        /\ Once(mainLoop, SendOf(x)) => Once(mainLoop', SendOf(x))
        /\ phase'[x] = phase[x]
    BY <1>2, <1>4, <1>5, Types DEF Sends
  <2>2. Placed(x)'
    BY <1>5, <1>6, <2>1, PlaceKept DEF Asks, Calls
  <2>3. Responded(x)'
    BY <1>5, <1>6, <2>1, NothingAnswered DEF Asks, Calls
  <2>4. QED
    BY <2>2, <2>3
<1>15. QED
  BY <1>8, <1>12, <1>13, <1>14 DEF IInv

\* A request is given up after three seconds and its callback posted.
LEMMA OnResponseTimeoutIInv ==
  ASSUME IInv, NEW r \in Request, OnResponseTimeout(r)
  PROVE  IInv'
<1> DEFINE e == [do |-> "callback", request |-> r, outcome |-> [kind |-> "timeout", of |-> r]]
<1>1. /\ UNCHANGED <<client, handler, link, attempts>> /\ mainLoop' = mainLoop /\ asked' = asked
      /\ known' = known /\ answers' = answers /\ sessionLoop' = sessionLoop /\ consumed' = consumed
      /\ phase[r] = "open" /\ phase' = [phase EXCEPT ![r] = "given_up"]
      /\ taskLoop' = Append(taskLoop, e)
  BY DEF OnResponseTimeout, Broker!HearTimeout, Broker!TimeOut, PostCallback, mqVars, players
<1>2. e \in CallOf(r)
  BY HandlersDiffer
<1> HIDE DEF e
<1>3. e \in Task /\ \A x \in Request : e \notin AskOf(x) /\ (e \in CallOf(x) => x = r)
  BY <1>2, HandlersDiffer
<1>4. /\ taskLoop' \in Seq(Task) /\ taskLoop' \in Seq(TaskHandler)
      /\ \A S : Has(taskLoop', S) <=> Has(taskLoop, S) \/ e \in S
      /\ \A S : Once(taskLoop, S) /\ ~(e \in S /\ Has(taskLoop, S)) => Once(taskLoop', S)
  BY <1>1, <1>3, AppendTask, Types
<1>5. \A x \in Request : /\ Placed(x) /\ Responded(x)
                         /\ \A t \in Session : Answered(x, t) =>
                              ~Asks(x) /\ ~Sends(x) /\ ~Calls(x) /\ phase[x] # "open"
  BY DEF IInv, Responded
<1>6. phase' \in [Request -> {"idle", "open", "given_up"}] /\ phase'[r] = "given_up"
  BY <1>1, Types
<1>7. TypeOK' /\ LinkInv' /\ OnlyTimeouts'
  BY <1>1, <1>4, <1>6, Types, NextTypes, LinkKept DEF IInv, OnlyTimeouts
<1>8. /\ r \in known /\ asked[r] # none /\ ~Asks(r) /\ ~Calls(r) /\ ~Sends(r)
      /\ Once(taskLoop, AskOf(r)) /\ Once(taskLoop, CallOf(r)) /\ Once(mainLoop, SendOf(r))
  BY <1>1, <1>5 DEF Placed
<1>9. /\ ~Has(taskLoop', AskOf(r)) /\ Once(taskLoop', AskOf(r)) /\ Once(taskLoop', CallOf(r))
  BY <1>3, <1>4, <1>8 DEF Asks, Calls
<1>10. Placed(r)'
  BY <1>1, <1>6, <1>8, <1>9, NextPlace DEF Sends
<1>11. Responded(r)'
  BY <1>1, <1>5, NothingAnswered
<1>12. ASSUME NEW x \in Request \ {r} PROVE Placed(x)' /\ Responded(x)'
  <2>1. /\ Has(taskLoop', AskOf(x)) <=> Asks(x)
        /\ Has(taskLoop', CallOf(x)) <=> Calls(x)
        /\ Once(taskLoop, AskOf(x)) => Once(taskLoop', AskOf(x))
        /\ Once(taskLoop, CallOf(x)) => Once(taskLoop', CallOf(x))
        /\ phase'[x] = phase[x]
    BY <1>1, <1>3, <1>4, Types DEF Asks, Calls
  <2>2. Placed(x)'
    BY <1>1, <1>5, <2>1, PlaceKept DEF Sends
  <2>3. Responded(x)'
    BY <1>1, <1>5, <2>1, NothingAnswered DEF Sends
  <2>4. QED
    BY <2>2, <2>3
<1>13. QED
  BY <1>7, <1>10, <1>11, <1>12 DEF IInv

\* A session writes a response or, closed, drops it (Session::write_fun).
LEMMA WriteFunIInv ==
  ASSUME IInv, NEW s \in Session, WriteFun(s)
  PROVE  IInv'
<1> DEFINE m == Head(sessionLoop[s])
           q == Tail(sessionLoop[s])
           a == Append(answers[s], m)
<1>1. /\ UNCHANGED <<client, handler, link, attempts>> /\ mainLoop' = mainLoop /\ asked' = asked
      /\ known' = known /\ phase' = phase /\ taskLoop' = taskLoop /\ consumed' = consumed
      /\ sessionLoop[s] # <<>> /\ sessionLoop' = [sessionLoop EXCEPT ![s] = q]
      /\ answers' = answers \/ answers' = [answers EXCEPT ![s] = a]
  BY DEF WriteFun, mqVars, players
<1>2. sessionLoop \in [Session -> Seq(Response)] /\ answers \in [Session -> Seq(Response)]
  BY Types
<1>3. /\ q \in Seq(Response) /\ m \in Response
      /\ \A S : Has(sessionLoop[s], S) <=> Has(q, S) \/ m \in S
      /\ \A S : Once(sessionLoop[s], S) => Once(q, S) /\ ~(m \in S /\ Has(q, S))
  BY <1>1, <1>2, TailQueue
<1> HIDE DEF m, q
<1>4. /\ a \in Seq(Response)
      /\ \A S : Has(a, S) <=> Has(answers[s], S) \/ m \in S
      /\ \A S : Once(answers[s], S) /\ ~(m \in S /\ Has(answers[s], S)) => Once(a, S)
  BY <1>2, <1>3, AppendQueue
<1> HIDE DEF a
<1>5. /\ sessionLoop' \in [Session -> Seq(Response)] /\ answers' \in [Session -> Seq(Response)]
      /\ sessionLoop'[s] = q /\ (answers'[s] = answers[s] \/ answers'[s] = a)
      /\ \A t \in Session \ {s} : sessionLoop'[t] = sessionLoop[t] /\ answers'[t] = answers[t]
  BY <1>1, <1>2, <1>3, <1>4
<1>6. TypeOK' /\ LinkInv' /\ OnlyTimeouts'
  BY <1>1, <1>5, Types, NextTypes, LinkKept DEF IInv, OnlyTimeouts
<1>7. ASSUME NEW x \in Request PROVE Placed(x)' /\ Responded(x)'
  <2>1. Placed(x) /\ Responded(x)
    BY DEF IInv
  <2>2. Placed(x)'
    BY <1>1, <2>1, PlaceKept DEF Asks, Calls, Sends
  <2>3. Wrong(x)' = Wrong(x)
    <3>1. Due(x)' = Due(x)
      BY <1>1, NextPlace DEF Due
    <3>2. QED
      BY <3>1, NextPlace DEF Wrong
  <2>4. ASSUME NEW t \in Session
        PROVE
         /\ Has(answers'[t], ResponseTo(x)) \/ Has(sessionLoop'[t], ResponseTo(x)) =>
              /\ asked'[x] = t /\ phase'[x] # "open"
              /\ ~Has(taskLoop', AskOf(x)) /\ ~Has(mainLoop', SendOf(x)) /\ ~Has(taskLoop', CallOf(x))
         /\ Once(answers'[t], ResponseTo(x)) /\ Once(sessionLoop'[t], ResponseTo(x))
         /\ ~(Has(answers'[t], ResponseTo(x)) /\ Has(sessionLoop'[t], ResponseTo(x)))
         /\ ~Has(answers'[t], Wrong(x)') /\ ~Has(sessionLoop'[t], Wrong(x)')
    <3>1. /\ Has(answers[t], ResponseTo(x)) \/ Has(sessionLoop[t], ResponseTo(x)) =>
               asked[x] = t /\ phase[x] # "open" /\ ~Asks(x) /\ ~Sends(x) /\ ~Calls(x)
          /\ Once(answers[t], ResponseTo(x)) /\ Once(sessionLoop[t], ResponseTo(x))
          /\ ~(Has(answers[t], ResponseTo(x)) /\ Has(sessionLoop[t], ResponseTo(x)))
          /\ ~Has(answers[t], Wrong(x)) /\ ~Has(sessionLoop[t], Wrong(x))
      BY <2>1 DEF Responded, Answered
    <3>2. CASE t # s
      BY <1>1, <1>5, <2>3, <3>1, <3>2 DEF Asks, Calls, Sends
    <3>3. CASE t = s
      <4>1. /\ Has(sessionLoop'[s], ResponseTo(x)) => Has(sessionLoop[s], ResponseTo(x))
            /\ Once(sessionLoop'[s], ResponseTo(x)) /\ ~Has(sessionLoop'[s], Wrong(x))
        BY <1>3, <1>5, <3>1, <3>3
      <4>2. CASE answers'[s] = answers[s]
        BY <1>1, <2>3, <3>1, <3>3, <4>1, <4>2 DEF Asks, Calls, Sends
      <4>3. CASE answers'[s] = a
        <5>1. /\ Has(a, ResponseTo(x)) \/ Has(q, ResponseTo(x)) =>
                   Has(answers[s], ResponseTo(x)) \/ Has(sessionLoop[s], ResponseTo(x))
              /\ Once(a, ResponseTo(x)) /\ ~(Has(a, ResponseTo(x)) /\ Has(q, ResponseTo(x)))
              /\ ~Has(a, Wrong(x))
          BY <1>3, <1>4, <3>1, <3>3
        <5>2. QED
          BY <1>1, <1>5, <2>3, <3>1, <3>3, <4>1, <4>3, <5>1 DEF Asks, Calls, Sends
      <4>4. QED
        BY <1>5, <4>2, <4>3
    <3>4. QED
      BY <3>2, <3>3
  <2>5. Responded(x)'
    BY <2>4, NextPlace
  <2>6. QED
    BY <2>2, <2>5
<1>8. QED
  BY <1>6, <1>7 DEF IInv

-------------------------------------------------------------------------------
(* The theorems.                                                           *)

\* The lobby starts with empty loops, but for the one call of connect.
LEMMA InitIInv == Init => IInv
<1> SUFFICES ASSUME Init PROVE IInv
  OBVIOUS
<1> DEFINE e == [do |-> "connect"]
<1>1. /\ mainLoop = <<e>> /\ ~m_auto_reconnect /\ ~m_is_connecting /\ ~m_is_connected
      /\ m_auto_reconnect \in BOOLEAN /\ m_is_connecting \in BOOLEAN /\ m_is_connected \in BOOLEAN
      /\ m_timer = "idle" /\ heartbeat = "none" /\ link = "none" /\ attempts = 0
      /\ asked = [r \in Request |-> none] /\ taskLoop = <<>>
      /\ phase = [r \in Request |-> "idle"] /\ sessionLoop = [s \in Session |-> <<>>]
      /\ answers = [s \in Session |-> <<>>] /\ known = {} /\ consumed = 0
  BY DEF Init, MqInit, Broker!ContractInit
<1>2. e \in MainHandler /\ \A r \in Request : e \notin SendOf(r)
  BY DEF MainHandler, SendOf
<1> HIDE DEF e
<1>3. mainLoop \in Seq(MainHandler) /\ Len(mainLoop) = 1 /\ mainLoop[1] = e
  BY <1>1, <1>2
<1>4. \A S : Once(mainLoop, S) /\ (Has(mainLoop, S) => e \in S)
  BY <1>3 DEF Once, Has
<1>5. \A S : ~Has(<<>>, S) /\ Once(<<>>, S)
  BY DEF Has, Once
<1>6. \A T : <<>> \in Seq(T)
  OBVIOUS
<1>7. 0 \in 0..MaxAttempts /\ 0 \in 0..MaxConsumed
  BY AttemptsArePositive, ConsumedIsNat
<1>8. TypeOK
  <2>1. /\ asked \in [Request -> Session \cup {none}] /\ phase \in [Request -> {"idle", "open", "given_up"}]
        /\ sessionLoop \in [Session -> Seq(Response)] /\ answers \in [Session -> Seq(Response)]
    BY <1>1, <1>6
  <2>2. QED
    BY <1>1, <1>3, <1>6, <1>7, <2>1 DEF TypeOK, Link
<1>9. LinkInv
  BY <1>1, <1>4 DEF LinkInv, HeartbeatEndsAtLogin
<1>10. OnlyTimeouts
  BY <1>1, <1>6 DEF OnlyTimeouts
<1>11. ASSUME NEW r \in Request PROVE Placed(r) /\ Responded(r)
  <2>1. phase[r] = "idle" /\ r \notin known /\ ~Asks(r) /\ ~Calls(r) /\ ~Sends(r)
    BY <1>1, <1>2, <1>4, <1>5 DEF Asks, Calls, Sends
  <2>2. \A s \in Session : answers[s] = <<>> /\ sessionLoop[s] = <<>>
    BY <1>1
  <2>3. Placed(r)
    BY <1>1, <1>4, <1>5, <2>1 DEF Placed
  <2>4. Responded(r)
    BY <1>5, <2>2 DEF Responded, Answered
  <2>5. QED
    BY <2>3, <2>4
<1>12. QED
  BY <1>8, <1>9, <1>10, <1>11 DEF IInv

\* Every step keeps the invariant.
LEMMA NextIInv == IInv /\ [Next]_vars => IInv'
<1> SUFFICES ASSUME IInv, [Next]_vars PROVE IInv'
  OBVIOUS
<1>1. CASE MqStep
  BY <1>1, MqStepIInv
<1>2. CASE TaskStep
  BY <1>2, OnUnknownMsgIInv, RunCallbackIInv DEF TaskStep
<1>3. CASE DoSendAsynMessage
  BY <1>3, DoSendIInv
<1>4. CASE \E r \in Request : OnResponseTimeout(r) \/ Consume(r)
  <2>1. PICK r \in Request : OnResponseTimeout(r) \/ Consume(r)
    BY <1>4
  <2>2. CASE Consume(r)
    <3>1. /\ mqVars' = mqVars /\ taskLoop' = taskLoop /\ asked' = asked /\ known' = known
          /\ phase' = phase /\ sessionLoop' = sessionLoop /\ answers' = answers
          /\ consumed' = consumed + 1 /\ consumed < MaxConsumed
      BY <2>2 DEF Consume, RecvData, players
    <3>2. consumed' \in 0..MaxConsumed
      BY <3>1, Types, ConsumedIsNat
    <3>3. QED
      BY <3>1, <3>2, IdleIInv
  <2>3. QED
    BY <2>1, <2>2, OnResponseTimeoutIInv
<1>5. CASE \E s \in Session : WriteFun(s)
  BY <1>5, WriteFunIInv
<1>6. CASE \E s \in Session : Closes(s)
  <2>1. /\ mqVars' = mqVars /\ taskLoop' = taskLoop /\ asked' = asked /\ known' = known
        /\ phase' = phase /\ sessionLoop' = sessionLoop /\ answers' = answers /\ consumed' = consumed
    BY <1>6 DEF Closes, relayVars
  <2>2. QED
    BY <2>1, Types, IdleIInv
<1>7. CASE \E s \in Session : \E r \in Request : Reads(s, r)
  BY <1>7, ReadsIInv
<1>8. CASE UNCHANGED vars
  <2>1. /\ mqVars' = mqVars /\ taskLoop' = taskLoop /\ asked' = asked /\ known' = known
        /\ phase' = phase /\ sessionLoop' = sessionLoop /\ answers' = answers /\ consumed' = consumed
    BY <1>8 DEF vars, players, relayVars
  <2>2. QED
    BY <2>1, Types, IdleIInv
<1>9. QED
  BY <1>1, <1>2, <1>3, <1>4, <1>5, <1>6, <1>7, <1>8 DEF Next

\* The invariant holds in every state.
THEOREM IInvAlways == Spec => []IInv
<1>1. Spec => Init /\ [][Next]_vars
  BY DEF Spec
<1>2. QED
  BY <1>1, InitIInv, NextIInv, PTL

\* A response of s is one that was written or one that is posted.
LEMMA WrittenOrPosted ==
  ASSUME TypeOK, NEW s \in Session, NEW i \in 1..Len(Responses(s))
  PROVE  /\ Responses(s)[i] \in Response
         /\ \/ i \in 1..Len(answers[s]) /\ Responses(s)[i] = answers[s][i]
            \/ /\ i \in (Len(answers[s]) + 1)..(Len(answers[s]) + Len(sessionLoop[s]))
               /\ i - Len(answers[s]) \in 1..Len(sessionLoop[s])
               /\ Responses(s)[i] = sessionLoop[s][i - Len(answers[s])]
<1> DEFINE p == answers[s]
           q == sessionLoop[s]
<1>1. p \in Seq(Response) /\ q \in Seq(Response) /\ Responses(s) = p \o q
  BY DEF TypeOK, Responses
<1>2. Len(p) \in Nat /\ Len(q) \in Nat
  BY <1>1
<1> HIDE DEF p, q
<1>3. /\ p \o q \in Seq(Response) /\ Len(p \o q) = Len(p) + Len(q)
      /\ \A k \in 1..(Len(p) + Len(q)) : (p \o q)[k] = IF k <= Len(p) THEN p[k] ELSE q[k - Len(p)]
  BY <1>1
<1>4. i \in 1..(Len(p) + Len(q))
  BY <1>1, <1>3
<1>5. Responses(s)[i] \in Response
  BY <1>1, <1>3
<1>6. \/ i \in 1..Len(p) /\ Responses(s)[i] = p[i]
      \/ /\ i \in (Len(p) + 1)..(Len(p) + Len(q)) /\ i - Len(p) \in 1..Len(q)
         /\ Responses(s)[i] = q[i - Len(p)]
  <2>1. CASE i <= Len(p)
    BY <1>1, <1>2, <1>3, <1>4, <2>1
  <2>2. CASE ~(i <= Len(p))
    BY <1>1, <1>2, <1>3, <1>4, <2>2
  <2>3. QED
    BY <2>1, <2>2
<1>7. QED
  BY <1>5, <1>6 DEF p, q

\* A response of s answers a request that s asked, with the result that is due.
LEMMA ResponseIsDue ==
  ASSUME IInv, NEW s \in Session, NEW i \in 1..Len(Responses(s))
  PROVE  LET r == Responses(s)[i].to IN
         /\ r \in Request /\ Responded(r) /\ Placed(r) /\ asked[r] = s /\ phase[r] # "open"
         /\ Responses(s)[i] \in ResponseTo(r) /\ Responses(s)[i].result = Due(r)
<1> DEFINE m == Responses(s)[i]
           r == m.to
<1>1. /\ m \in Response
      /\ \/ \E j \in 1..Len(answers[s]) : m = answers[s][j]
         \/ \E j \in 1..Len(sessionLoop[s]) : m = sessionLoop[s][j]
  BY WrittenOrPosted, Types
<1> HIDE DEF m
<1>2. r \in Request /\ m \in ResponseTo(r) /\ m = [to |-> r, result |-> m.result]
  BY <1>1 DEF Response, ResponseTo
<1>3. Responded(r) /\ Placed(r)
  BY <1>2 DEF IInv
<1>4. \A S : m \in S => Has(answers[s], S) \/ Has(sessionLoop[s], S)
  BY <1>1 DEF Has
<1>5. asked[r] = s /\ phase[r] # "open" /\ m \notin Wrong(r)
  BY <1>2, <1>3, <1>4 DEF Responded, Answered
<1>6. m.result = Due(r)
  BY <1>2, <1>5 DEF Wrong
<1>7. QED
  BY <1>2, <1>3, <1>5, <1>6 DEF m

\* A request gets one response at most, on the session that sent it.
THEOREM AnsweredOnce == Spec => []AnsweredAtMostOnce
<1>1. ASSUME IInv PROVE AnsweredAtMostOnce
  <2> SUFFICES ASSUME NEW s \in Session, NEW i \in 1..Len(Responses(s)), NEW j \in 1..Len(Responses(s))
               PROVE  /\ asked[Responses(s)[i].to] = s
                      /\ Responses(s)[i].to = Responses(s)[j].to => i = j
    BY DEF AnsweredAtMostOnce
  <2>1. asked[Responses(s)[i].to] = s
    BY <1>1, ResponseIsDue
  <2>2. ASSUME Responses(s)[i].to = Responses(s)[j].to PROVE i = j
    <3> DEFINE r == Responses(s)[i].to
               n == Len(answers[s])
               S == ResponseTo(r)
    <3>1. Responded(r) /\ Responses(s)[i] \in S /\ Responses(s)[j] \in S
      BY <1>1, <2>2, ResponseIsDue
    <3>2. /\ Once(answers[s], S) /\ Once(sessionLoop[s], S)
          /\ ~(Has(answers[s], S) /\ Has(sessionLoop[s], S))
      BY <3>1 DEF Responded
    <3>3. /\ \/ i \in 1..n /\ Responses(s)[i] = answers[s][i]
             \/ i - n \in 1..Len(sessionLoop[s]) /\ Responses(s)[i] = sessionLoop[s][i - n]
          /\ \/ j \in 1..n /\ Responses(s)[j] = answers[s][j]
             \/ j - n \in 1..Len(sessionLoop[s]) /\ Responses(s)[j] = sessionLoop[s][j - n]
      BY <1>1, WrittenOrPosted, Types
    <3>4. i \in Nat /\ j \in Nat /\ n \in Nat
      BY <1>1, Types
    <3> HIDE DEF r, S
    <3>5. CASE i \in 1..n /\ Responses(s)[i] = answers[s][i] /\ j \in 1..n /\ Responses(s)[j] = answers[s][j]
      BY <3>1, <3>2, <3>5 DEF Once
    <3>6. CASE /\ i - n \in 1..Len(sessionLoop[s]) /\ Responses(s)[i] = sessionLoop[s][i - n]
               /\ j - n \in 1..Len(sessionLoop[s]) /\ Responses(s)[j] = sessionLoop[s][j - n]
      <4>1. i - n = j - n
        BY <3>1, <3>2, <3>6 DEF Once
      <4>2. QED
        BY <3>4, <4>1
    <3>7. CASE /\ i \in 1..n /\ Responses(s)[i] = answers[s][i]
               /\ j - n \in 1..Len(sessionLoop[s]) /\ Responses(s)[j] = sessionLoop[s][j - n]
      BY <3>1, <3>2, <3>7 DEF Has
    <3>8. CASE /\ j \in 1..n /\ Responses(s)[j] = answers[s][j]
               /\ i - n \in 1..Len(sessionLoop[s]) /\ Responses(s)[i] = sessionLoop[s][i - n]
      BY <3>1, <3>2, <3>8 DEF Has
    <3>9. QED
      BY <3>3, <3>5, <3>6, <3>7, <3>8
  <2>3. QED
    BY <2>1, <2>2
<1>2. QED
  BY <1>1, IInvAlways, PTL

\* What a player is told of a request is so: the result of its response tells whether it
\* was refused or given up; and the heartbeat ends where the login does.
THEOREM RelayInvAlways == Spec => []RelayInv
<1>1. ASSUME IInv PROVE ResultTellsFate
  <2> SUFFICES ASSUME NEW s \in Session, NEW i \in 1..Len(Responses(s))
      PROVE LET r == Responses(s)[i].to
                result == Responses(s)[i].result
            IN CASE phase[r] = "given_up" -> result = "CODE_WAIT_RESP_TIMEOUT" /\ r \in known
                 [] phase[r] = "open" -> FALSE
                 [] OTHER -> result = IF r \in known THEN "CODE_PARAMETER_INVALID" ELSE "CODE_SESSION_HAV_NO_USER"
    BY DEF ResultTellsFate
  <2> DEFINE r == Responses(s)[i].to
             result == Responses(s)[i].result
  <2>1. Placed(r) /\ phase[r] # "open" /\ result = Due(r)
    BY <1>1, ResponseIsDue
  <2>2. phase[r] # "idle" => r \in known
    BY <2>1 DEF Placed
  <2> HIDE DEF r, result
  <2>3. /\ phase[r] = "given_up" => result = "CODE_WAIT_RESP_TIMEOUT" /\ r \in known
        /\ phase[r] # "given_up" =>
             result = IF r \in known THEN "CODE_PARAMETER_INVALID" ELSE "CODE_SESSION_HAV_NO_USER"
    BY <2>1, <2>2 DEF Due
  <2>4. (CASE phase[r] = "given_up" -> result = "CODE_WAIT_RESP_TIMEOUT" /\ r \in known
           [] phase[r] = "open" -> FALSE
           [] OTHER -> result = IF r \in known THEN "CODE_PARAMETER_INVALID" ELSE "CODE_SESSION_HAV_NO_USER")
    BY <2>1, <2>3
  <2>5. QED
    BY <2>4 DEF r, result
<1>2. IInv => RelayInv
  BY <1>1 DEF IInv, LinkInv, RelayInv
<1>3. QED
  BY <1>2, IInvAlways, PTL

\* A connection that has ended is not made again: after do_connect the client is
\* connecting forever, and on_timeout waits for a flag nothing sets.
THEOREM EndedForever == Spec => EndedStaysEnded
<1>1. IInv /\ [Next]_vars => [link = "ended" => link' = "ended"]_link
  <2> SUFFICES ASSUME IInv, [Next]_vars PROVE [link = "ended" => link' = "ended"]_link
    OBVIOUS
  <2>1. CASE MqStep
    BY <2>1, MqStepKeeps DEF MqStep, IInv
  <2>2. CASE TaskStep
    BY <2>2 DEF TaskStep, OnUnknownMsg, RunCallback, mqVars
  <2>3. CASE DoSendAsynMessage
    BY <2>3 DEF DoSendAsynMessage
  <2>4. CASE \E r \in Request : OnResponseTimeout(r) \/ Consume(r)
    BY <2>4 DEF OnResponseTimeout, Consume, mqVars
  <2>5. CASE \E s \in Session : WriteFun(s) \/ Closes(s) \/ \E r \in Request : Reads(s, r)
    BY <2>5 DEF WriteFun, Closes, Reads, mqVars
  <2>6. CASE UNCHANGED vars
    BY <2>6 DEF vars, mqVars
  <2>7. QED
    BY <2>1, <2>2, <2>3, <2>4, <2>5, <2>6 DEF Next
<1>2. Spec => [][Next]_vars
  BY DEF Spec
<1>3. QED
  BY <1>1, <1>2, IInvAlways, PTL DEF EndedStaysEnded
===============================================================================
