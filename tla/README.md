# SparkFrame: verification development

SparkFrame is a C++ framework for game servers (`src/common`) with the servers
built on it (`src/server`): a login server, a lobby that relays players'
requests to other servers over a message broker, a robot that plays against
them, and a card game. This directory holds TLA+ models of its concurrent core
and of the rules of the card game, the TLC configurations that check them on
small instances, and proofs checked by TLAPS.

`PROJECT.json` lists components, runs, mutants, the source lines of every
definition, findings, hazards and theorems. This file says how they fit.

## 1. The system

### Parts, state, operations

| Part | Source | State it keeps | Operations | Model |
|---|---|---|---|---|
| Loops | `libtools/IoLoop.h`, `IoLoopPool.cpp` | one queue of handlers per thread | `post`: run at once on the own thread, else queue; round-robin choice of a loop | rule built into every module |
| Request table | `libserver/AsyncRequest.inl`, `Session.inl` | `m_items` by number, a timer each, `m_sequenceid` | send, answer, timeout | `AsyncRequest`, `CallbackContract` |
| Session | `libserver/TcpSession.cpp`, `Session.inl` | socket, read in progress, send queue, alive time, table id | start, read, write, check alive, close | `TcpServer`, `SessionContract` |
| Session table | `libserver/ServerSessionManager.cpp`, `Server.cpp` | `m_session_all`, `m_current_session`, check timer | accept, add, refuse, check alive, remove | `TcpServer` |
| Send queue | `libmessage/MessageQueue.cpp` | a growing ring buffer | push, pop | `TcpServer` |
| Client | `libserver/Client.cpp` | four flags, socket, four timers, session | connect, reconnect, time out, heartbeat, close | `Client` |
| Lobby players | `LobbyServer/PlayerManager.cpp`, `LobbyTask.cpp` | `m_login_user`, `m_online_user` | token login, session open and close, check of a request's user | `PlayerManager` |
| Broker client | `libserver/MqClient.cpp`, `MqSession.cpp`, `MqHandler.h` | connection, heartbeat timer, reconnect timer, flags | connect, time out, the library's reports, send, receive | `MqClient` |
| Lobby relay | `LobbyServer/LobbyModule.cpp`, `LobbyTask.cpp`, `MqSession.cpp` | none of its own: what waits is in the broker session's request table | find the route, ask over the broker, answer the player | `LobbyRelay` |
| Login | `LoginServer/LoginModule.cpp`, `LoginTask.cpp`, `libresource` | session times; users and a counter in a database | login, register, drop session times | `Login` |
| Process supervisor | `libtools/MultiProcess.cpp` | none | start a child again when it ends | `Login` |
| Dealer | `gamesvr/CardDealer.cpp` | a deck | rank, deal | `CardDealer` |
| Card judges | `gamesvr/Combination.cpp`, `CardDealer.h` | none | is it a straight, a pure straight, three of a kind | `Combination` |
| Declarations | `gamesvr/Combination.cpp` | none | does a declaration win, is a loser's lawful, what does it cost | `Declaration` |
| Search | `gamesvr/Combination.cpp` | the wild cards found | declare for a player, post a card for a player | `DefaultDeclare`, `PostCard` |
| Robot | `RobotServer/Robot.cpp` | two clients, a token | log in, connect to the lobby | not modelled: no robot can be constructed |
| Rooms of the card game | `gamesvr/PlayerManager.cpp`, `GameRoom.cpp`, `RoomManager.cpp` | players, rooms | mostly commented out | not modelled |
| Blocking request | `libserver/Synrequest.inl` | a promise | wait, answer | not modelled; nothing calls it |
| Messages, tools, logging, vendored code | `src/message`, `libtools`, `liblog`, `src/3rd` | none | conversions | not modelled |

### How the parts interact

Every session belongs to one loop; nothing about it happens elsewhere. Threads
call each other only by posting handlers, and a post to one's own loop runs at
once, inside the poster: the same call is synchronous or asynchronous depending
on which loops the two parties share. That is the source of most of the
difficult behaviour here, and each model keeps the distinction: the manager and its
sessions (`SameLoop` in TcpServer), a message sent on a session's own loop and one sent from
elsewhere (`ActsHere` and `Send`), a callback on the table's loop and on another
(`AsyncRequest`), the calls inside one handler of the client.

What a session tells its MessageTask is of two kinds that arrive on one path: its own
opening and close, and the requests it has read. The commands of an opening and a close are
messages every server knows (`MessageMaker.cpp:13`, `:20`), a session that reads one
looks at its type only (`Session.inl:76`), and `MessageTask::do_handle_message`
(`MessageTask.inl:67`) dispatches on the command alone. So a task may be told of openings and
closes that its session never reported, with the socket open, and cannot tell the two apart.
The models above a session name them `peer_open` and `peer_close`.

    Server --accept--> ServerSessionManager --start/check/close--> TcpSession
    TcpSession --read: request--> MessageTask (LobbyTask, LoginTask, Robot)
    TcpSession --read: response--> AsyncRequest --callback--> a loop of the caller
    Client --owns--> one TcpSession; a closing session tells the Client first
    LobbyTask --posts--> PlayerManager --CMD_SHUTDOWN_SESSION--> TcpSession
    PlayerManager --checked request--> LobbyModule --request--> MqSession --> broker
    MqSession --timeout--> a loop of the lobby --response--> TcpSession
    MqClient --owns--> one MqSession and its MqHandler, on one loop of their own
    LoginTask --login--> LoginModule --find, counter, insert--> database of all processes
    MultiProcess --starts again--> a process that has ended

What makes it hard: handlers already queued when the operation they belong to is
cancelled (timers, reads, connection attempts); notifications that arrive after
the close of a session; the same close requested from several sides; a session
whose loop is the manager's own; a user who logs in on two sessions, or two users
on one. The complete list, with lines, is `hazards` in `PROJECT.json`.

What each part must do to be correct, in one line each:
the request table never loses or mixes up a callback and always lets go; a
session reports its own end once whatever ended it, never interleaves writes, and
agrees with the table; the client never stops trying while it should, and its
flags tell the truth; the lobby attributes each request to the user who logged in
on its session; the relay answers every request once and truly; whoever is told a
user id has that user; every card of a deck comes out once; a judge accepts a group
exactly if the group is what its name says, judges agree with each other, and what the
server declares or posts for a player is lawful and no worse than the player could do.

## 2. The modules

**CallbackContract** is what `Session::send(msg, fun, ms, loop)` promises:
the callback hears only answers to its own request or one final timeout, and the
request is given up eventually, after the callback has been called. It promises
neither exactly one call nor that an answer excludes a timeout, because the code
does not: between the expiry of a timer and its handler an answer may still be
handled, and a repeated answer finds the entry until the handler has erased it.

**AsyncRequest** is the table. `DoSendMessage` and `DoSendAsynMessage` are the
posted halves of the two `send`s, `OnResponseCome` and `OnResponseTimeout` the two
handlers, `Expire` the clock, `RunForeign` another loop running a callback posted
to it. A timer is unarmed, running, expired or cancelled with its handler queued,
or handled: the middle two are the window in which things go wrong. It implements
CallbackContract under `phase` (idle until numbered, open while in the table) and
`heard` (`bound`).

**SessionContract** is what an upper layer may rely on in what it is told of a
session: the session's own opening and close at most once each, any number of requests
while it is open, and after its close at most one more, read before it. The opening may
come late: `start` runs on the manager's loop and posts reading and announcing separately.
A request is `msg`, or `peer_open` or `peer_close` when it bears the command of an opening
or a close. These two may come any number of times; an upper layer handles them as it
handles `open` and `close`, and the models of the upper layers do.

**TcpServer** is the sessions of a server and their manager, each handler one
action; completions of reads and writes are actions of their own because they may
have been queued at any time since the operation was started. `SameLoop` names
the sessions on the manager's loop, for which every post in either direction is
part of the posting action. The upper layer sends and closes in two ways. From another
thread the call is posted to the session's loop (`Send`, `Shutdown`). On the session's own
loop (`do_heart_beat` while a request is handled, a callback without a loop of its own, a
handler of another session there) it runs at once (`ActsHere`), inside
`OnReadComplete` or as `ActHere`, and is written before messages that are still posted. The
history variable `here` records which messages were sent in that way. An alive check that
erases the entry its iterator stands on (`CheckErasesEntry`) either ends the process or goes
on over freed memory: both are possible results of the build. TcpServer implements
SessionContract with `notified` as it is.

**Client** is the connecting side. Its handlers are compositions of calls that
all run inside one handler, so each call is an operator from a state of the client
to the next, and `RunHandler` applies the handler at the head of the queue. What
can be queued, cancelled too late, or lost is explicit: `waiting`, `attempt`,
`queue`. `told` is the last report the session made itself.

**PlayerManager** is the lobby's two maps, driven by sessions that behave as
SessionContract allows (`Contract!MayTell`) and not by a full TcpServer: the
contract is what links the two. A `peer_close` empties the maps as a close does, while the
socket stays open. Each notification is posted to the lobby's loop and
handled there. Variables named history do not exist in the code; they record what
the properties speak about.

**Combination** puts the judges of the card game beside what the names mean:
`Straight` (fill the gaps, then try the ace as 1) beside `IsRun` (jokers complete
the cards to a run of one colour), and so on. The state is one group of cards on
its way in, sorted as the callers sort it; the sums over neighbours in the code
telescope and appear as one difference.

**MqClient** is the connection to the broker, on one loop: the client with its
reconnect timer, and the handler that the AMQP library reports to. The library is
external and reports in the order of one connection; a connection may end at any time.

**LobbyRelay** follows a player's request from the session to the broker and its
response back. It EXTENDS MqClient, with which it shares the broker session's loop. What
sessions tell is SessionContract again (`Sessions!MayTell`), and the request sent to the
broker behaves as CallbackContract promises (`Broker!Open`, `Broker!HearTimeout`): the
two contracts are where TcpServer, AsyncRequest and this module meet.

**Login** is the login server's processes over one database. A login runs to its end on
the loop of its process and asks the stores one after the other; each question is an
action (`QueryFromRedis`, `QueryFromMongo`, `QueryNewUserid`, `InsertNewUser`), between
which other processes act and its own may end. `Ends` is what an uncaught exception or a
failed assertion does to a process, `Killed` the same from outside, `CreateOneProcess` the
master's answer.

**CardDealer** is ranking and dealing draw by draw; a card is a piece of the deck.
**Declaration** judges several groups, **DefaultDeclare** searches a hand, **PostCard**
chooses the card to post. The code lists choices in an order, several times over; the
models take the sets of them, and keep the order only where it decides (`FirstTried`).

**X_proofs** holds the theorems about module X (**Cards_proofs** those about CardDealer,
Combination and Declaration), and **Queues** the lemmas on sequences of
handlers that the proofs about LobbyRelay and Login share (section 4).

The `MC` modules give constants values that a `.cfg` cannot, and `MCCards` puts the parts
of the card game side by side: they share nothing but the cards, and each of its behaviours
is about one of them. Bounds and model values are in the `.cfg` files. Invariants that
belong together are checked as one conjunction (`TableInv`, `ClientInv`, ...). Operators marked `Fault:` belong to no behaviour. Each stands before the
definition it distorts and is what the mutant of one property puts in its place.

## 3. The runs

| Run | Question | Bounds |
|---|---|---|
| `async_request` | Does the table keep its promise against late, missing and repeated answers? | 2 requests (one with its callback on another loop), 1 plain message drawing numbers from the same counter, 2 answers to each message |
| `tcp_lifecycle` | Does a session report its own end once whatever ended it, is the upper layer told what the contract allows, and do table, limit and sockets agree? | 2 sessions, one on the manager's loop, one or two places, 2 requests read in all, each a message or one with the command of a close |
| `tcp_send` | Is the queue bounded and the wire in order but for what overtakes on the session's own loop, is everything written, are silent sessions closed and closed ones removed? | 1 session on its own loop, queue of 1 growing to 2, 3 messages sent in either way, 1 request read |
| `tcp_check_iterator` | violated: the alive check erases the entry it stands on | 2 sessions |
| `client` | Do flags, timers, socket and upper layer agree, and does no attempt hang for ever? | 2 connects, 2 closes, a queue of 4 handlers |
| `client_closed` | violated: a closed client connects again | 1 connect, 1 close |
| `lobby` | Do the maps agree, do requests carry the right user, and is a displaced session closed? | 2 sessions, 2 users, 3 requests read in all, 2 messages waiting |
| `lobby_forget` | violated: a player whose session has closed stays for ever | 1 session, 2 users |
| `lobby_token` | violated: the issued token lacks a key the lobby reads | 2 sessions |
| `relay` | Does every request of a player who stays get one response that tells its fate, whatever happens to the broker connection? | 2 sessions, 2 requests, 2 connections to the broker, 1 message from it |
| `login` | Does whoever is told a user id have that user, and is every login decided, with processes ending at any step? | 2 processes with a client each, 1 account besides generated ones, 1 kill besides exceptions, requests with the commands of a session on one of 2 sessions, not as the first thing and one at a time |
| `cards` | Do dealer, judges, search, declaration and post do what they are for? | points 2 to ace with the ace at 6, 3 colours, 2 of each card, every joker point; groups of up to 5, declarations of 3 of 5 groups, 3 hands of 9, 10 and 12 cards growing to 10; a deck of 5 pieces |

Why the bounds suffice. A request interacts with others only through the counter
and the table, so two requests and one plain message are every way of meeting, and
two answers are the first repeated one. Two sessions give both kinds of loop, and
with one or two places both sides of the limit. Two requests are one before and one after
a close, or a session told closed that reads on; the command of an opening makes no other
difference to TcpServer than that of a close, and the proofs have all three (`PeerSends`). Three
messages fill a queue that starts at 1 beyond its last doubling: one is accepted, one doubles
the queue, one is refused; and they are two posted and one on the session's own loop that
overtakes them. Two users on two sessions give every displacement, and three
requests a second login on the same session, or a login before and after a `peer_close`. `MaxWaiting` holds back a third message
before the lobby has handled one of two, which leaves both orders of any two. Two requests
on two sessions are either of one session or of two; two connections to the broker are the
first and one made again, and one message it delivers is an answer nobody expects. Two
logins in two processes are every interleaving of two users of one counter; one kill may
come at any step of either. `Timed` follows opening and close of one session, whose
order is what matters to the map; `ReadsOwn` says what requests with their commands are
followed. `MaxQueue` holds back new events of a
client only while four handlers wait, which is room for both calls of a user beside the
handlers of a timer and an attempt. Five cards of a deck to 6 leave room for one gap inside a run and one at
its end with two jokers to fill them, and `MaxGroup < A` is what keeps an ace
from being both ends of one run, as it is in the real deck (13 cards in a hand, ace at
14). The groups laid down (`MCLaid`) are a pure straight, a straight with wild cards, one of
four, a kind and a pair; three of them are a first life, a second and something else, in
every order and with every type, one of them unknown. The hands (`MCHands`) hold two
lives and a pair with a joker that any tenth card joins; four groups of three; and ten
cards with a life of four whose last card is wild under one joker point. Five pieces are
drawn from in every order down to the last.

`CHECK_DEADLOCK FALSE` is set everywhere because all systems may come to rest: calls
and messages are bounded, a group is full, a process can have ended.

### Fairness

Weak fairness of handlers and timers: `io_context::run` serves what is queued
and the steady clock does not stop. Nothing is assumed of peers, users or
callers, with two exceptions, stated where they are used. In TcpServer the peer
takes bytes written to it (`OnWriteComplete`); without that `SentIsWritten` cannot
hold, since the code sets no limit on a write. In PlayerManager a session that was
sent the shutdown closes, which is what TcpServer shows of `CloseFun`; `DisplacedSessionCloses`
asks for the session's own report, which a request cannot stand in for. The fairness
of a connection attempt is deliberately missing in Client: it may hang, and
`HangingAttemptEnds` says the connect timer ends it.

In LobbyRelay the loops of lobby, broker session and players' sessions run what is queued
and the timer of a request fires; nothing is assumed of the broker. In Login a process
works on what its loop holds and the master starts an ended process again (weak fairness);
the timer of the session times is given strong fairness, because it is set anew by every
process that starts and a process may end before it fires.

### What the runs found

- `ServerSessionManager.cpp:40`: for a session on the manager's own loop, checking
  it closes it and erases the entry under the iterator of the loop.
- `Client.cpp:260`: closing a connected client makes it connect again, against the
  comment at line 226, and line 248 then cancels the timer that would end that
  attempt.
- `PlayerManager.cpp:149`: a login handled after the close of its session, or a
  second user on one session, leaves a record that nothing deletes, against the
  comment at `PlayerManager.h:69` (`lobby_forget`). The code disagrees with this comment in
  the other direction too: it says that `m_login_user` includes the players who are offline
  for a short time and deletes them five minutes later, and where no such login intervenes the
  close of its session takes a player out of the map at once (`PlayerManager.cpp:64`). That
  half is what `StayOnlyIfLateOrSwitched` states, checked in `lobby` and proved: a record outlives
  its session in those two cases only, and then for ever. The five minutes exist nowhere.
- `MessageTask.inl:67`: a request with the command of an opening or a close is handled as the
  session's own report. In the lobby a `peer_close` removes a player whose socket stays open,
  who may log in again; if the user logs in elsewhere meanwhile, the first session is not sent
  the shutdown (`DisplacedSessionCloses` excepts it). In the login server a `peer_open` starts
  a session's time anew and a `peer_close` drops it, so the time of a session goes only if
  openings stop being handled (`SessionTimesGo`).
- `Session.inl:106`, `:138`: the order of writing is that of sending for each origin, not over
  both: an answer given on the session's own loop goes before messages other threads have
  posted. `WireInOrder` allows just that.
- `PlayerManager.cpp:230`: the login server's token lacks `user_account`, which the
  lobby reads through an asserting operator. A token that does not parse ends the process
  likewise, by an exception at line 91 that nothing catches, and is not a kind of its own.
- Two judges of the card game accept more than they should. The properties name the
  exact condition instead of excluding the judge: a pure straight is counted where cards
  sort behind an ace that follows a run from 2 (2, ace, joker), and three of a kind
  where a wild card sorts between two ranks (2, 3, 4 with 3 wild). Outside
  `BehindAce` and `WildBetween` both are exact, and neither refuses a group it should
  accept. `DefaultIsBest` therefore compares with lives that are pure by their meaning:
  a player who lays down 2, ace, joker can do better than the server does for others.
- `Combination.cpp:634`: the search adds every wild card to a kind, so it may lay down
  five or more of a kind, which the judge (`:873`) refuses; `SearchFindsAll` and
  `CombinationsPass` hold outside these (`Oversized`).
- `Combination.cpp:1116`: `is_groups_declare` passes a group of a type it does not know,
  which `check_lose_declare` refuses; `DeclarationsAgree` is about the known types.
- `Combination.cpp:116`: a spare natural card may be the one that makes a life pure
  together with a card of the joker point at its end. `PromiseKept` holds all the same,
  because the search tries lives with fewer natural cards first and stops there; with
  any other order it is violated. Hands that split into threes have no spare card, and a
  hand of fourteen never does.
- The broker client never gets anywhere after its first connection ends: no line sets
  `m_is_connected` of MqHandler (`MqHandler.h:586` clears it where the login is complete), so
  `m_is_connecting` never ends and `on_timeout` waits for it for ever, against
  `MqClient.cpp:159` (`EndedStaysEnded`); and `onConnected` destroys the heartbeat timer
  that was negotiated just before (`HeartbeatEndsAtLogin`).
- Nothing is published and nothing received is handed over: `MqSession.cpp:189` gives up
  after a successful encoding, and `recv_data` (`:136`) drops what it decodes. Every routed
  request is answered by its timeout, and by that alone.
- The login server never recognises a user: it looks for `user_account`
  (`LoginModule.cpp:292`) where `account` is stored, against the comment at line 57, and every
  login registers a new user (`EveryLoginRegisters`). A cache that replies with an array ends the
  process (`Redis.cpp`, `pair_array_to_json`), and `json_to_hash` asserts that some cache has
  no name, while `LobbyServer/config.json:84` names its one. `insert_new_user` returns no value
  when it succeeds. No session is closed for staying too long, against `LoginModule.h:95`: the
  timer only drops its time.
- `Robot.cpp:44` calls `shared_from_this` in a constructor, which throws: there are no robots.
- `Client.cpp:203`: an expired reconnect timer cannot be cancelled any more, and its
  handler starts a second attempt beside the one `do_connect` started.
  `NullSocketOnlyIfStale` shows that this is the only way to a null `m_socket`; the
  other properties of Client say `~stale` where they depend on it.

## 4. The proofs

Each component of which the prover can reason has a module of its own, `X_proofs`, that
EXTENDS the component. A theorem there holds for every set of requests, sessions, users,
processes and cards and every bound, from the named assumptions on constants. None of
the invariants the runs check carries itself far enough, so each module strengthens it to
an inductive one; TLC checked every strengthening on the component's run before it was
proved. `Queues` has the facts about handlers on a loop that two of the modules share: what
is posted (`AppendQueue`) and taken (`TailQueue`) changes in what is there, and there once.

`AsyncRequest_proofs`. `IInv` adds that the numbers in use lie below the counter and
are all different, that a request has its entry exactly while its timer is armed and
unhandled, and what was bound to its callback in each state of its timer. From it
follow TypeCorrect, AssertHolds (the `assert` of the timeout handler), RequestsTracked,
OwnAnswersOnly, OutcomesFinal, CancelExcludesTimeout (an action property) and
ImplementsContractSafety (TableInvAlways joins the first, third and fifth): initial states
map to initial states and every step to a step of CallbackContract or a stutter. The reason
they hold is the counter: because plain messages advance it too, a number leads to one
entry or none.

`PlayerManager_proofs`. MapsAgree and LoggedInIsServed carry themselves;
RequestsOfOwner needs MapsAgree, since a login elsewhere removes the old entry only
because the user map leads to it; StayOnlyIfLateOrSwitched needs why a record may have
no entry in the online map (two users on the session) and why a session of which a close was
handled may have one (a login after that). Whether the close was the session's own or a
request does not matter, and the contract of sessions is not needed for safety: the
theorems hold even for sessions that repeat themselves. MapsInvAlways joins the types and
MapsAgree, as the run does.

`TcpServer_proofs` builds one invariant in four layers, each inductive with those below:

- `TypeInv`: the types, and that a write completes only while its message is queued.
- `TableLife`: the table holds exactly the sessions with an id, within the limit
  (`TableFits`); an addition waits on the manager's loop once and only for a session nobody
  has heard of yet, a removal only for a session whose socket has closed (`ManagerQueue`).
  Without the second a removal could take a live session out of the table.
- `NoticeInv`: the session's own close has been told exactly when the socket has closed, its
  opening waits on the session's loop at most once and only if untold, after a request told
  late no read can complete with another. Requests, whatever their command, change nothing of
  this. Every step is then a step of SessionContract, or changes nothing of what was told:
  ImplementsContractAlways proves the whole refinement, since SessionContract promises no
  liveness.
- `SendInv`: call a message due in a sequence if it follows, there, all that was sent before it
  on its way, where one sent on the session's own loop need not wait for posted ones. What is on
  the wire, followed on an open session by what is in the queue, is a sequence of different
  messages each of which is due. The writes still posted on the session's loop are exactly the
  messages that it lacks, in the order they were sent, none of them sent on that loop. The
  outstanding write is that of the head of the queue, never none while the queue has something.
  A posted message is then due when it is taken, because all posted before it have been, and one
  sent on the own loop because no earlier one of its kind is ever missing.

From the second and third follow TableInvAlways (ids are unique, the limit holds, a
session on the manager's own loop opens first), ClosesReported (of the session's own reports)
and TableMatchesSocketsAlways; from the fourth QueueBoundedAlways and WritesInOrderAlways.

`Client_proofs`. `Consistent` says that, as long as no stale reconnect handler has run, an
attempt to connect is pending or has its handler queued, once, and that a reconnect is queued
only before it: the order of the two handlers in the queue is what makes flags, socket and what
the upper layer was told agree. ClientInvAlways, FlagsAlwaysAgree and NullSocketNeedsStale
follow, the last saying that the stale handler is the only way to a null socket. `Tries` and
`Beats` (a client that is to stay connected is connected, is trying or will try again; a
connected one has its heartbeat running) need no such condition and give NeverGivesUpAlways.

`LobbyRelay_proofs`. A request is in one place at a time: asked for on the lobby's loop, to
be sent on the broker's, open, called back, posted to its session, or written (`Placed`,
`Responded`); nothing but its own timeout reaches its callback (`OnlyTimeouts`, because
nothing in the lobby answers one). AnsweredOnce and, in RelayInvAlways, that a response tells
the fate of its request follow. `LinkInv` is the same for the broker's client: `connect` runs
once, and after it the client is connecting forever. RelayInvAlways includes that the
heartbeat runs only until the broker's login; EndedForever is that no timeout ever connects
to a lost broker again. The types need `AttemptsArePositive`: the first connection is made by
`connect`, and the bound is on those after it.

`Login_proofs`. A login is in one place: on the task loop of its process, being worked on, or
decided (`Placed`). `Ids` is the argument about users: the counter gives every id once, so
that an id is with one login that has yet to write its user, or with one user, or was
lost with a process that ended in between. Between two questions to the
stores other processes may take steps, and `Ids` is what those cannot disturb.
ToldUserExistsAlways (whoever is told an id is that user in the database) and, in
LoginInvAlways, that no two logins are told the same id follow, the second also for two
logins with one account: no login ever finds the user of an earlier one.

`Cards_proofs` is about the dealer, the judges of groups and the judges of declarations.

- EveryCardOnceAlways: ranking keeps the deck whole and no card is dealt twice, for a deck of
  any size and whatever is drawn. While cards are dealt, the copy they are drawn from must
  hold the rest of the deck (`RestIsComplement`); the last card of the copy is an exception,
  since it is dealt without being removed. DeckIsWhole: between two deals every card is in
  the deck, by counting, over any number of deals.
- StraightIsRunAlways, PureStraightIsPureRunAlways and KindIsKindAlways are about `GroupSpec`,
  the specification of a group on its way in, for any colours, any highest point and any limit
  below it (`GroupFitsARun`). The invariant is that the group is sorted (`GroupInv`): a card
  that joins moves those above it up by one (`InsertSorts`). The judges compare neighbours and
  the meanings speak of all cards, so each proof passes from one to the other. What neighbours
  have in common all have in common (`AdjacentEqual`). Natural cards whose neighbours share
  the colour and differ in point rise in it (`Rising`), and then there are jokers enough
  exactly when the points from the lowest to the highest are no more than the cards
  (`GapsFit`). Without jokers, cards that rise within as many points as there are cards leave
  no gap (`Squeezed`). A run with the ace as 1 has the ace as its last card and nothing
  else above its length. The named exceptions, `BehindAce` and `WildBetween`, are hypotheses
  of the one direction that needs them and of nothing else.
- DeclarationsSoundAlways is about `DeclarationSpec`, for declarations of any number of groups.
  That the two judges agree is a comparison of their conditions, and no loose groups cost
  nothing (`NothingLost`). That the order is free goes through the mirror: place i of a
  declaration is place n + 1 - i of its reversal, so whatever one judge asks is asked of the
  same groups, and two straights stay two (`TwoOf`).

`LeastOf` and `GreatestOf`, that a set of places has a first and a last one, stand in for
induction here: strict inclusion of finite sets is well-founded, and the places below one
another are such sets. The judges are therefore stated over places (`NaturalPlaces`,
`Adjacent`, `Min`, `Max`), without recursion.

Only model-checked:

- All liveness: EveryRequestCalledBack, SentIsWritten, DeadSessionGoes, HangingAttemptEnds,
  DisplacedSessionCloses, StayersAnswered, LoginsGoOn, SessionTimesGo, and CallbackContract's fairness.
  They rest on fairness of actions, and ENABLED is beyond the prover.
- SearchSound, DefaultIsBest and PromiseKept: the searches are folds over the cards of a hand
  (all choices of cards, cards removed one by one, a sort), and what a fold computes takes an
  induction over data.

## 5. Limits of the models

- Counters have no width: numbers of messages and sessions never wrap.
  `m_current_session + 1 % m_max_session_id` therefore overflows only in the hazard list.
- A handler is one step. Data races inside one (`m_session_ref` of Client) are below
  the grain.
- Bytes, lengths and encodings are reduced to accepted or refused.
- TcpServer: what a callback does with another session than the one whose read it runs in is
  an `ActHere` of that session, and a handler that sends several messages is several of them.
- Client: requests of the server with the command of an opening or a close are not followed;
  `told` is about the reports of the client's own session.
- Client: a session started by a stale reconnect shares the fields of the first; a
  `connect` called by the upper layer from inside the report of a failure is left out.
- LobbyRelay: which exchange and key a route names is reduced to whether there is one.
  A response that is posted to a session whose socket has closed is dropped.
- MqClient: `close_client`, `bind_exchange` and `MqSession::close` have no caller that a running
  server reaches. The sockets of the AMQP library and the declarations of queues are external.
- Login: the version check and the fields of a user are left out; what a cache holds does not
  matter, since no login gets anything out of it. Exceptions of the database library are kills.
- PlayerManager: `make_player`, `destory_player`, `on_kick_out_user`, `on_timeout` and
  `on_session_open` of the class have no caller in the lobby.
- Cards: points 2 to 6 stand for 2 to ace, so scores above 10 do not occur; conversions of
  cards to text and messages are left out. CardDealer assumes nothing of `rand`: every index
  may be drawn, and seeds are left out.
- Not modelled: SynRequest, which nothing calls; Robot, which cannot be constructed; the rooms of
  the card game, which are commented out and not built against the present interface; generated
  protocol code, configuration, conversions, logging and vendored libraries, which keep no
  state of the system.

## 6. Plan

Done: AsyncRequest and its contract; TcpServer, SessionContract and Client; PlayerManager
over SessionContract; MqClient and LobbyRelay over both contracts; Login with its processes;
CardDealer, Combination and Declaration (all checked, their safety proved); the search of
the card game and the posted card (checked).

Open: the theorems about the search. They would need `AllChoices`, `RemoveCards` and `Sort`
restated over places of a hand, as the judges are, with the groups found as sets of places
and a card removed as a place left out. Then what is laid down is what is held
because places are counted once, and the judges' theorems say the rest.
