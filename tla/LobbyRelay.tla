------------------------------- MODULE LobbyRelay -------------------------------
(***************************************************************************)
(* How the lobby relays the requests of players to other servers over the  *)
(* message broker and answers them (LobbyServer/LobbyTask.cpp,             *)
(* LobbyModule.cpp, libserver/MqSession.cpp).                              *)
(*                                                                         *)
(* Three kinds of loops: each session's own, the lobby's (taskLoop), and   *)
(* the broker session's (mainLoop, shared with MqClient).  Sessions tell   *)
(* the lobby what SessionContract allows, and sending to the broker with a *)
(* callback is what CallbackContract promises, whose timer handler runs on *)
(* mainLoop and posts the callback to taskLoop.                            *)
(***************************************************************************)
EXTENDS MqClient, FiniteSets

CONSTANTS
  Session,       \* sessions of players
  Request,       \* requests of players
  none,          \* no session
  MaxConsumed    \* bound: messages the broker delivers to the lobby's queue

ASSUME NoSession == none \notin Session
ASSUME ConsumedIsNat == MaxConsumed \in Nat

VARIABLES
  notified,      \* notified[s]: what session s told the lobby, in order
  asked,         \* asked[r]: the session that read r, or none
  taskLoop,      \* handlers queued on the lobby's loop
  phase, heard,  \* of CallbackContract: what was sent to the broker
  sessionLoop,   \* sessionLoop[s]: responses posted to the loop of s
  answers,       \* answers[s]: responses written to the socket of s
  known,         \* history: requests for which a user was found
  consumed       \* messages the broker delivered

players == <<notified, asked, known>>
relayVars == <<taskLoop, phase, heard, sessionLoop, answers, consumed>>
vars == <<mqVars, players, relayVars>>

Sessions == INSTANCE SessionContract
Broker == INSTANCE CallbackContract WITH Async <- Request

\* What a player gets: the request it answers and the result in its header.
Result == {"CODE_SESSION_HAV_NO_USER", "CODE_PARAMETER_INVALID", "CODE_WAIT_RESP_TIMEOUT", "of the server"}
Response == [to : Request, result : Result]

Init ==
  /\ MqInit
  /\ Sessions!Init
  /\ asked = [r \in Request |-> none]
  /\ taskLoop = <<>>
  /\ Broker!ContractInit
  /\ sessionLoop = [s \in Session |-> <<>>]
  /\ answers = [s \in Session |-> <<>>]
  /\ known = {}
  /\ consumed = 0

-------------------------------------------------------------------------------
(* The sessions.                                                           *)

\* A session reads a request, whose command has a route or not.
Reads(s, r) ==
  /\ asked[r] = none
  /\ Sessions!MayTell(s, "msg")
  /\ notified' = [notified EXCEPT ![s] = Append(@, "msg")]
  /\ asked' = [asked EXCEPT ![r] = s]
  /\ \E routed \in BOOLEAN :
       taskLoop' = Append(taskLoop, [do |-> "on_unknown_msg", request |-> r, routed |-> routed])
  /\ UNCHANGED <<mqVars, known, phase, heard, sessionLoop, answers, consumed>>

\* The close is reported to the lobby too, which PlayerManager models.  A request with
\* the command of an opening or a close changes nothing here: on_unknown_msg finds a user
\* under the session or not, and the socket stays open.
Closes(s) ==
  /\ Sessions!MayTell(s, "close")
  /\ notified' = [notified EXCEPT ![s] = Append(@, "close")]
  /\ UNCHANGED <<mqVars, asked, known, relayVars>>

\* Session::write_fun: do_write drops the response when the socket is closed.
WriteFun(s) ==
  /\ sessionLoop[s] # <<>>
  /\ sessionLoop' = [sessionLoop EXCEPT ![s] = Tail(@)]
  /\ answers' = IF Sessions!Told(s, "close") THEN answers
                ELSE [answers EXCEPT ![s] = Append(@, Head(sessionLoop[s]))]
  /\ UNCHANGED <<mqVars, players, taskLoop, phase, heard, consumed>>

\* Message::send_response posts to the loop of the session the request came from.
SendResponse(r, result) ==
  sessionLoop' = [sessionLoop EXCEPT ![asked[r]] = Append(@, [to |-> r, result |-> result])]

-------------------------------------------------------------------------------
(* The lobby's loop.                                                       *)

\* MqClient::send_message posts do_send_asyn_message.
SendMessage(r) == mainLoop' = Append(mainLoop, [do |-> "send", request |-> r])

\* Fault: an unrouted request is refused and sent all the same.
DispatchAppMsgNoReturn(r, routed) ==
  /\ SendMessage(r)
  /\ IF routed THEN UNCHANGED sessionLoop
     ELSE SendResponse(r, "CODE_PARAMETER_INVALID")

\* Fault: an unrouted request is logged and not answered.
DispatchAppMsgSilent(r, routed) ==
  /\ UNCHANGED sessionLoop
  /\ IF routed THEN SendMessage(r) ELSE UNCHANGED mainLoop

\* dispatch_app_msg.  send_message always accepts: the session object exists before
\* the client connects.
DispatchAppMsg(r, routed) ==
  IF routed
  THEN SendMessage(r) /\ UNCHANGED sessionLoop
  ELSE SendResponse(r, "CODE_PARAMETER_INVALID") /\ UNCHANGED mainLoop

\* on_unknown_msg; PlayerManager decides whether the session has a user.
OnUnknownMsg ==
  /\ taskLoop # <<>>
  /\ Head(taskLoop).do = "on_unknown_msg"
  /\ taskLoop' = Tail(taskLoop)
  /\ LET r == Head(taskLoop).request IN
       \/ /\ SendResponse(r, "CODE_SESSION_HAV_NO_USER")
          /\ UNCHANGED <<mainLoop, known>>
       \/ /\ DispatchAppMsg(r, Head(taskLoop).routed)
          /\ known' = known \cup {r}
  /\ UNCHANGED <<client, handler, link, attempts, notified, asked, phase, heard, answers, consumed>>

\* The callback that dispatch_app_msg left with the request.
RunCallback ==
  /\ taskLoop # <<>>
  /\ Head(taskLoop).do = "callback"
  /\ taskLoop' = Tail(taskLoop)
  /\ SendResponse(Head(taskLoop).request,
       IF Head(taskLoop).outcome.kind = "timeout" THEN "CODE_WAIT_RESP_TIMEOUT" ELSE "of the server")
  /\ UNCHANGED <<mqVars, players, phase, heard, answers, consumed>>

-------------------------------------------------------------------------------
(* The broker session's loop.                                              *)

\* do_send_asyn_message.  Nothing is published: do_write gives up when the message
\* was encoded (MqSession.cpp:189).
DoSendAsynMessage ==
  /\ mainLoop # <<>>
  /\ Head(mainLoop).do = "send"
  /\ mainLoop' = Tail(mainLoop)
  /\ Broker!Open(Head(mainLoop).request)
  /\ UNCHANGED <<client, handler, link, attempts, players, taskLoop, sessionLoop, answers, consumed>>

PostCallback(r, outcome) ==
  taskLoop' = Append(taskLoop, [do |-> "callback", request |-> r, outcome |-> outcome])

\* on_response_timeout without an error, three seconds after the request.
OnResponseTimeout(r) ==
  /\ Broker!HearTimeout(r)
  /\ PostCallback(r, Broker!TimeOut(r))
  /\ UNCHANGED <<mqVars, players, sessionLoop, answers, consumed>>

\* Fault: a decoded response reaches the table of requests.
RecvDataHandedOver(r) ==
  IF phase[r] = "open"
  THEN Broker!HearAnswer(r) /\ PostCallback(r, Broker!Answer(r))
  ELSE UNCHANGED <<phase, heard, taskLoop>>

\* recv_data decodes a message, which may bear the number of r, and hands it to nobody.
RecvData(r) == UNCHANGED <<phase, heard, taskLoop>>

\* A message on the lobby's queue, once the channel is ready.
Consume(r) ==
  /\ link = "ready"
  /\ consumed < MaxConsumed
  /\ consumed' = consumed + 1
  /\ RecvData(r)
  /\ UNCHANGED <<mqVars, players, sessionLoop, answers>>

-------------------------------------------------------------------------------

MqStep == MqNext /\ UNCHANGED <<players, relayVars>>
TaskStep == OnUnknownMsg \/ RunCallback

Next ==
  \/ MqStep \/ TaskStep \/ DoSendAsynMessage
  \/ \E r \in Request : OnResponseTimeout(r) \/ Consume(r)
  \/ \E s \in Session :
       \/ WriteFun(s) \/ Closes(s)
       \/ \E r \in Request : Reads(s, r)

\* Loops run what is queued and timers expire; players and the broker owe nothing.
Fairness ==
  /\ WF_vars(TaskStep)
  /\ WF_vars(DoSendAsynMessage \/ ((DoConnect \/ OnTimeout) /\ UNCHANGED <<players, relayVars>>))
  /\ \A r \in Request : WF_vars(OnResponseTimeout(r))
  /\ \A s \in Session : WF_vars(WriteFun(s))

Spec == Init /\ [][Next]_vars /\ Fairness

-------------------------------------------------------------------------------
(* Properties.                                                             *)

\* What is queued on the loops.
MainHandler == [do : {"connect", "on_timeout"}] \cup [do : {"send"}, request : Request]
TaskHandler ==
  [do : {"on_unknown_msg"}, request : Request, routed : BOOLEAN]
    \cup [do : {"callback"}, request : Request, outcome : [kind : {"answer", "timeout"}, of : Request]]

\* Type invariant of the relay and the broker's client.
TypeOK ==
  /\ m_auto_reconnect \in BOOLEAN /\ m_is_connecting \in BOOLEAN /\ m_is_connected \in BOOLEAN
  /\ m_timer \in {"idle", "waiting", "queued"}
  /\ heartbeat \in {"none", "unset", "armed"}
  /\ link \in Link
  /\ attempts \in 0..MaxAttempts
  /\ mainLoop \in Seq(MainHandler)
  /\ taskLoop \in Seq(TaskHandler)
  /\ asked \in [Request -> Session \cup {none}]
  /\ known \in SUBSET Request
  /\ phase \in [Request -> {"idle", "open", "given_up"}]
  /\ sessionLoop \in [Session -> Seq(Response)]
  /\ answers \in [Session -> Seq(Response)]
  /\ consumed \in 0..MaxConsumed

\* The responses written to s and those posted to its loop.
Responses(s) == answers[s] \o sessionLoop[s]

\* A request gets one response at most, on the session that sent it: the callback may
\* hear an answer and a timeout (CallbackContract), but no answer ever comes.
AnsweredAtMostOnce ==
  \A s \in Session : \A i, j \in 1..Len(Responses(s)) :
    /\ asked[Responses(s)[i].to] = s
    /\ Responses(s)[i].to = Responses(s)[j].to => i = j

\* The result tells what became of the request: no user, no route, or relayed and
\* given up after three seconds.  A relayed request never gets another result.
ResultTellsFate ==
  \A s \in Session : \A i \in 1..Len(Responses(s)) :
    LET r == Responses(s)[i].to
        result == Responses(s)[i].result
    IN CASE phase[r] = "given_up" -> result = "CODE_WAIT_RESP_TIMEOUT" /\ r \in known
         [] phase[r] = "open" -> FALSE
         [] OTHER -> result = IF r \in known THEN "CODE_PARAMETER_INVALID" ELSE "CODE_SESSION_HAV_NO_USER"

\* What a player is told of a request is so, and the broker's client as its handler
\* leaves it.
RelayInv == TypeOK /\ HeartbeatEndsAtLogin /\ ResultTellsFate

\* A player who stays gets a response, whatever becomes of the broker.
StayersAnswered ==
  \A r \in Request, s \in Session :
    asked[r] = s ~> (Sessions!Told(s, "close") \/ \E i \in 1..Len(answers[s]) : answers[s][i].to = r)
===============================================================================
