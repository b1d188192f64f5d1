--------------------------- MODULE CallbackContract ---------------------------
(***************************************************************************)
(* What Session::send(msg, fun, milliseconds, io_loop) promises to its     *)
(* caller, without timers, sequence numbers or the table they index:       *)
(*   - fun is called only with an answer to this very request or with      *)
(*     CODE_WAIT_RESP_TIMEOUT;                                             *)
(*   - the request is given up only after fun has been called, and a       *)
(*     timeout is the last thing fun hears;                                *)
(*   - an accepted request is given up eventually.                         *)
(* It promises neither that fun is called once only nor that an answer     *)
(* excludes a timeout: the code does not.                                  *)
(***************************************************************************)
EXTENDS Sequences

CONSTANT Async              \* the requests

VARIABLES phase,            \* phase[r]: "idle", "open" or "given_up"
          heard             \* heard[r]: the outcomes bound to fun, in order

contractVars == <<phase, heard>>

\* The outcomes fun may be called with.
Answer(m)  == [kind |-> "answer",  of |-> m]
TimeOut(m) == [kind |-> "timeout", of |-> m]

ContractInit ==
  /\ phase = [r \in Async |-> "idle"]
  /\ heard = [r \in Async |-> <<>>]

\* The request is accepted.
Open(r) ==
  /\ phase[r] = "idle"
  /\ phase' = [phase EXCEPT ![r] = "open"]
  /\ UNCHANGED heard

\* fun hears an answer; the request stays open.
HearAnswer(r) ==
  /\ phase[r] = "open"
  /\ heard' = [heard EXCEPT ![r] = Append(@, Answer(r))]
  /\ UNCHANGED phase

\* The request is given up after an answer.
GiveUp(r) ==
  /\ phase[r] = "open"
  /\ heard[r] # <<>>
  /\ phase' = [phase EXCEPT ![r] = "given_up"]
  /\ UNCHANGED heard

\* The request is given up with a timeout.
HearTimeout(r) ==
  /\ phase[r] = "open"
  /\ phase' = [phase EXCEPT ![r] = "given_up"]
  /\ heard' = [heard EXCEPT ![r] = Append(@, TimeOut(r))]

ContractNext ==
  \E r \in Async : Open(r) \/ HearAnswer(r) \/ GiveUp(r) \/ HearTimeout(r)

\* Only giving a request up is promised: a peer owes no answer.
ContractFairness == \A r \in Async : WF_contractVars(GiveUp(r) \/ HearTimeout(r))

ContractSpec == ContractInit /\ [][ContractNext]_contractVars /\ ContractFairness
===============================================================================
