# A TLA+ verification project for monsys

monsys is a home-automation system.  Clients (Android, web) send requests for a
home *gateway*; a server on the Internet routes them to the connection the
gateway keeps open; the gateway turns them into ZigBee messages on a serial
port and sends the device's answer back the same way.  This directory holds
TLA+ models of the parts of that path that keep state, the TLC configurations
that check them, and TLAPS proofs about them.

All paths below are relative to `src/`; `J/` stands for
`server/java/MonsysServer/src/com/letsmidi/monsys/`.

## 1. Inventory

| Component | State | Operations | Talks to |
|---|---|---|---|
| **Push server** `J/pushserver` | three concurrent maps of `InMemInfo` (account → API connection, device → gateway connection, inner sequence → route record); per connection: login state, a `SequenceGenerator` | login on either port, get-fgw-list, route a request, route an answer, close listeners | API clients and gateways, over TCP; one Netty event-loop thread per connection, many connections per thread pool |
| **Gateway connection** `libframework/zclient` | `state_`, `fd_`, a socket event, a timer | `init`, socket callback, timer callback | the kernel; its handler |
| **Gateway login** `server/fgw_client_handler`, `libframework/ztimer.h` | `state_` (unregistered, waiting, registered), `login_timer_id`, 16 timer slots | `onConnected`, `onRead`, `onTimeout` | `ZClient`, push server |
| **Gateway forward sessions** `server/fgw_client_session.h`, `libframework/zsession*.h` | sessions by inner key, an id generator | forward a request, answer it, 10 s timeout | ZigBee handler, through message queues |
| **Gateway modules** `server/fgw.cc`, `libframework/zmodule.h`, `zdispatcher` | one FIFO per module, the 500 ms routine | `sendDirect`, `checkMsgQueue` | all modules; one thread, one libevent loop |
| **ZigBee handler, serial port** `server/zzigbee_handler`, `zserial` | ZigBee sessions (8 s; unreachable, see 6), descriptor and read buffer | requests, answers, device messages | coordinator on the serial line |
| **ZigBee device table** `server/zbdevice_manager` | devices, looked up by MAC and by short address | add, remove, update | ZigBee handler |
| **Serial framing** `server/zb_stream`, `syn_byte_matcher.h` | synchronisation state, bytes missing | consume a piece of the byte stream | ZigBee handler |
| **Super router** `J/route`, `J/session` | sessions by token; per session two flags and two channels | allocate a token, connect a party, pair, relay, time out | client and gateway; the center server |
| **Exchange** `J/exchange` | peers by id | connect, relay | – |
| **Login, communication servers** `J/login`, `J/commserver` | list of communication servers | register, hand out, leave | each other, clients |
| **SDK connection** `J/sdk`, `J/util/BaseClientConnection` | callbacks by sequence number | request, answer, disconnect | push server; two threads |
| **Center (Java, C++, Python)** | various | unfinished or superseded front ends | – |

What makes these parts hard to get right:

* *Threads in the push server.*  The handlers of an API connection and of a
  gateway connection run on different threads and meet only in the three maps.
  A request reads one map, writes a second and then writes to a channel it found
  before; an answer removes from one map and then reads another.
* *Identity across reconnections.*  A client's account, a gateway's device id and
  an inner sequence outlive the connection they were used on.  Close listeners
  of old connections run after new logins; numbers are reused.
* *Half-finished error paths.*  `ZClient` gives up its descriptor, its event and
  its state in different combinations on refusal, reset, end of stream and
  timeout, and has to recover from each of them.
* *Timers left over.*  The gateway's login timer is not cancelled when its
  connection is lost; it shares 16 slots with those of later logins.
* *Sessions and late answers.*  A forwarded request has one session in the
  client handler and one in the ZigBee handler, with different time limits; its
  number may be in use, its answer may not fit, its connection may be another.
* *Descriptor numbers used again.*  The serial port forgets to remove its read
  event when it closes; the number it closed may be the client's next socket.
* *Boundaries that are not there.*  The client takes what one `recv` returns for
  one message; the serial framing is fed pieces of any length and has a 16-bit
  length, a 4096-byte buffer and a caller with 1024 bytes.
* *Two loops, two pipelines.*  In the router the handler of one connection
  changes the pipeline of another, whose event loop may at that moment run the
  handler that changes the first; a task sent to another loop is waited for.

What would make each part correct:

* push server: a request is answered at most once; an answer reaches the request
  it belongs to, and no other request of the same client; maps never name a dead
  connection; a logged-in gateway or client can be found; a request taken up for
  routing is answered if nobody leaves and its number stays its own;
* gateway connection: no descriptor leaks; a connected socket is watched; a
  disconnected client will dial again; it never falls silent;
* gateway login: registered means admitted on this connection; a waiting login
  always has its timer; a connection that stays up ends in a registration;
* gateway forwarding: an answer goes out on the connection of its request and, if the
  request was read whole and alone, under its number; a request is answered once at
  most and never after it was given up; the two maps of the sessions hold the same
  ones; a request that comes alone is answered;
* device table: the two lookups agree; framing: the messages found are those of
  the byte stream, however it is cut up;
* super router: what a party sends only the other party of its session receives;
  a party that is told of success is joined, and is told once; two parties that
  are both there are joined; the end of one channel ends the other; a session
  that ends removes itself and no other.

`PROJECT.json` lists each component with its files, and under `hazards` each
danger of this kind at its line, with the properties that cover it.

## 2. Modules

| Module | Models |
|---|---|
| `PushServer` | `J/pushserver`: `ApiServerHandler`, `PushServerHandler`, `InMemInfo`, `RouteRecord`, and `J/util/SequenceGenerator` |
| `PushBroker` | abstract specification: what the push server promises an API client |
| `MCPushServer` | instances of `PushServer`, and the refinement mapping to `PushBroker` |
| `PushServerProofs` | theorems about `PushServer` |
| `PushBrokerProofs` | the theorem that `PushServer` implements `PushBroker` |
| `ZClient` | `libframework/zclient.cc`, `zevent_proxy.h`, and the kernel's side of a socket |
| `FgwClient` | composes `ZClient` with `server/fgw_client_handler.cc` (login) and `libframework/ztimer.h` |
| `FgwClientProofs` | theorems about `FgwClient`, the part of `ZClient` included |
| `Gateway` | the process: `server/fgw.cc`'s loop, `zdispatcher`, the serial module (`zserial.cc`, `zzigbee_handler.cc`), the client module (`fgw_client_handler.cc`, `fgw_client_session.h`, `libframework/zsession*.h`), what `protobuf_decode` makes of a read |
| `ZBDevManager` | `server/zbdevice_manager.cc`; `Gateway` extends it |
| `FgwService` | abstract specification: what the gateway promises about requests |
| `GatewayProofs` | theorems about `Gateway` and the table in it |
| `ZBStream` | `server/zb_stream`, `syn_byte_matcher.h`, `zserial.cc`'s reading |
| `ZBFrames` | abstract specification: the frames of a stream, read byte by byte |
| `ZBStreamProofs` | theorems about `ZBStream`, and that it implements `ZBFrames` |
| `SuperRouter` | `J/route`, `J/session`, `J/handler/RelayHandler`: the router's sessions and the joining of channels |
| `MCSuperRouter` | symmetry of its instances |
| `Pairing` | abstract specification: what the router promises the parties of a session |
| `SuperRouterProofs` | theorems about `SuperRouter` |
| `SuperRouterTurnProofs` | the theorem that parties whose handlers do not overlap are joined |
| `PairingProofs` | the theorem that `SuperRouter` implements `Pairing` |

Definitions named `Mut...` are plausible bugs of the code (a guard dropped, a
reset missing); each stands before the definition it would replace and shows
that the property named in `PROJECT.json` can fail.

### PushServer

*State.*  `apiMap`, `pushMap`, `routeMap` are the maps of `InMemInfo`.  `apiAcct`
and `gwDev` record what a connection logged in as (the handlers' state and what
their close listeners captured).  `idGen` is the `SequenceGenerator` each
`ApiServerHandler` owns.  `routing` and `delivering` are program counters: what
the handler of a connection has read and not yet used.  `gwJobs` is what a
gateway holds, in any order: a gateway answers whatever is ready first.
`apiOut` is the sequence of replies written to each client.

*Actions.*  A handler runs on its connection's event loop, so it is split only
where another thread can come between two accesses to shared state.  A request of any type
without its sub-message is read and forgotten (`IgnoreRequest`): its handler returns
without an answer and without a close.  For the others
`convertAndRoute` becomes `Lookup` (or `RefuseRequest`, 404) – `SaveRoute` –
`Forward`; `handleRsp` becomes `TakeRoute` – `Deliver`.  Logins, closes and close
listeners touch one map and are one action each.  A close is two actions, the
close and its listener: the listener is queued on the loop and a login of another
connection may come first.

*Data.*  A message is its sequence field and the request its body belongs to.
`req` in a route record and `origin` in a reply are auxiliary: they name the
request the record was made for, so that a property can compare it with the
body that came back.  Requests are numbered per connection: clients number
their requests from one and do not reuse a number while they wait for it, and a
new connection begins with one again, as the SDK does (`MonsysConnection.java:37`).

*What an answer is the answer to.*  A client knows a reply by its number alone
(`MonsysConnection.java:362`).  `Correlated` says that the body of a reply answers the
request sent on that very connection under that number.  It is proved for one client on
one connection whose numbers suffice (`PushCorrelatedForOne`).  What survives reconnections is less
(`AnswersOwnAccount`): `handleRsp` finds the connection by the account, and so an
answer asked for on the old connection can be written to the new one, under the
old one's number.  That is a defect when the client waits under that number
again (`NoStaleAnswer`, run `push_stale`).

*Left out.*  Idle timeouts (they close the connection, which `ApiClose` and
`GwClose` allow at any moment), passwords (not looked at in the API login), the
telnet console.  The set of devices in the database is the constant `Imported`.

### ZClient and FgwClient

*State.*  `state`, `fd`, `event`, `timer` are the class's members; `hfd` is the
handler's copy of the descriptor.  `sock` is what the kernel knows about each
descriptor, as far as `connect`, `getsockopt(SO_ERROR)` and `recv` can tell.
`reg`, `loginTimer` are the handler's; `slots` are `ZTimer`'s.  A slot is free,
armed by the last login, or armed by an earlier one.  `unanswered` counts the
logins the server has to answer, `admitted` is auxiliary.

*Actions.*  Each callback with each outcome of the system calls in it is an
action: `ConnectFailed` is `onWaitingForConnect` with an error in `SO_ERROR`,
together with `scheduleReconnect`.  `StartX`, `RetryX`, `EofX` are the three ways
to `connect()` – from `init`, from the timer, and from the read event that stays
registered after the peer closed – with its three results.  `FgwClient` joins
each with what the handler does inside the callback; `OnConnected` arms the
first free slot and forgets the slot it had.  `Relogin` keeps `timer_callback`'s
order: the slot that fired is still taken while the new timer is armed, and is
emptied afterwards.

*Assumptions about the system.*  `socket()` returns the lowest free descriptor.
A closed descriptor fires no event (true of epoll and kqueue, the back ends
libevent takes).  A gateway is on one of the `Networks` for good (`network`): on a
calm one a connection attempt is decided within `RETRY_INTERVAL`, on a slow one it
may take longer, and on a rough one a non-blocking `connect` may also return 0.

*Left out.*  `ZClient::close()` and `STATE_FINISHED`: nothing in the gateway calls
it.  The handler's forwarding part is in `Gateway`.  The server is external here, because the
login message the C++ gateway sends predates the one the Java push server reads:
it answers a login with acceptance or refusal, or loses it with the connection.

### Gateway

*State.*  `turn` and `fired` are the place of the main loop: a round serves each
source of events once at most, then empties the serial module's queue
(`serialQ`), then the client module's (`clientQ`).  `session` and `keyMap` are the two
maps of `ZSessionCtrl2Key`, `idGen` its generator.  `wire` holds what the server sent
and the gateway has not read.  `port`, `stale`, `shared` describe the serial port,
the read event it leaves registered when it closes, and whether the client's
socket got the descriptor number of that event.  `addrOf` and `devAt` are the two
maps of the device table.  `sent`, `replies`, `answer` and the `req` of a message are
auxiliary.

*Actions.*  One event callback is one action, with all it does to its module's
state: `Read(k, cut)` is one `recv` that returns the first k messages, or the k-th
in part, and what the handler makes of it; `Tick` the routine timer; `Register`
a device's registration with `ZZBDevManager::add`; `SerialAnswers` and
`ClientAnswers` the treatment of one queued message.  The ends of the events and of
the two queues are actions of their own, because the order matters: an answer
is made and sent in the round its request is read in.

*What is read.*  `protobuf_decode` parses everything behind the first length as
one message, so that of two messages read together the second's length byte is
parsed as the tag of a field.  24, a length as any other, is the tag of `sequence`:
what comes out can have a number neither request had.  `Mixed` therefore allows
any number and any type (0 stands for all numbers the server does not use); the
message is counted for a request if that request's number is what came out.  Of a
message cut by `recv` the first part is no message, or one without its body when
the cut falls between two fields; what the rest parses as can be anything.

*What is sent.*  The result of `send` is not looked at (`fgw_client_session.h:114`):
`SendAnswer` counts the answer as arrived or not, and the session ends in both
cases.  "Answered" in `AloneIsAnswered` means handed to `send`.

*The age limit of sessions* is modelled (`Tick`) but never met: the serial module
answers in the round in which the request was read (`SettledBetweenRounds`), so no
session is older than a tick.  Nothing is claimed about sessions that time out.

*libevent and the kernel.*  Timers are dispatched after descriptors, within a round
an event once.  The new socket may get the number of the closed port, and then
the event left behind is dispatched first, and takes the connection's
readiness for the port's: `StaleReopens`, `StaleReads`.

*Data.*  Requests are of five kinds: the device list, get-dev-info with an answer that
fits in the 1024-byte buffer or not (`getmany`), set-dev-info, and the ones
`push2inner` does not know.  `MaxListed` is how many devices a list may have to fit.

*Left out.*  The timers and states of the login (`FgwClient` has them: here a
connection is up and the login is awaited or answered) and connects that succeed
at once.  Of the frames of the port, one per event: each changes the table alone.
`ZZBDevManager::reset` is never called.

### ZBStream and ZBFrames

`state`, `idx`, `expect`, `buf` and `ready` are the members of `ZBStream` and its matcher,
`piece` what `feed` has not used of its argument; `handed` is what the handler was
given.  `ZSerial::onRead` is one thread's loop: `Receive(p)` begins it, one turn of
`feed`'s loop is one of the actions built on `Feed` (`SynFound`, `SynPart`, `SynLost` for `doInit`;
`Partly` and `HeadComplete`, `FrameComplete` or `NegativeCopy` for the two waiting states), and one
call of `read` is `Read`.  Nothing comes between them: a piece is received when the last
one is used up and all it made is handed over.  `ZBFrames` looks at the bytes one
by one (`Take`): it knows of no states, of no pieces and of no buffer position,
only of the synchronize bytes, the frame so far and what it still lacks.  A step
of the machine is a look at as many bytes as it uses; these are folded with a
recursive function (`Taking`).  A byte has `Base` values, so that a two-byte length is
small enough to wrap.  The refinement is claimed up to the first wrapped length
(`broken`); after one the process may copy a negative length (`crashed`).

### SuperRouter

*State.*  `sessions` is `mSessionMap`; a session object lives on after it has left
the map, and so the objects are numbered and keep their `tokenOf`.  `claimed` holds
the two `xxx_connected` flags (a flag is set when somebody claimed it, which also
says what the channel field holds), `published` whether another thread already
sees the field: `client_channel` and `fgw_channel` are neither volatile nor
guarded.  `loop`, `link`, `pipe`, `relay` describe a connection: its event loop, its
life down to the removal of its handlers, the last handler of its pipeline, the
channel that handler writes to.  `at`, `pc`, `side`, `peer` are a handler's
locals.  `rsp` counts the `CONNECT_RSP`s, `overlapped` is auxiliary.

*Actions.*  `processConnectRequest` is split wherever another thread can come
between: `Connect` (find the session), `Claim` or `ClaimFails` (`compareAndSet`),
`CheckAlone` or `CheckBoth` (the two flags and the two fields), then for each
channel the removal of the access handler and `Hook` (`addLast`), then `Respond`,
`CloseSession`.  `Publish` is the moment a store to a channel field becomes visible;
it happens at the latest when the handler synchronises with another thread or
returns.

*Netty's `remove()`* (external, netty 4.0) decides under the pipeline's lock
whether the handler is there (`UnhookThrows`), and whether the channel belongs to
the calling thread's loop (`UnhookNow`).  Otherwise it submits a task and waits for
it (`UnhookWaits`), and the task runs when that loop is free (`RunRemove`).  The
lock is not held while waiting, so a second `remove()` may find the same handler,
and its task unlinks what has been put in its place.

*Abstract specification.*  `Pairing` has four variables: the part each connection was
given (`Parts`: what it asked for, once the flag is its own), who has left (`Gone`),
where what a connection sends goes (`Wires`), who was told (`Told`).  A part is given
once, to one connection, and kept (`Obtain`); a wire leads to the other party or
nowhere, and changes only before either was told, or when its owner leaves (`Join`,
`Cut`); the two are told in one step, both directions joined, except for one that has
left (`Tell`).  Handlers, tasks, flags, lookups and timers are not in it.  That two
parties *will* be joined is no part of it: `JoinedInTurn` and
`JoinedUnlessOverlap` say when.

*Left out.*  The relayed data.  A CONNECT with an unknown client type, and any
other message in its place, close the connection, which `Close` allows at any
moment.  `MaxSessions` bounds the sessions ever allocated.

## 3. Runs

| Run | Instance | Shows |
|---|---|---|
| `push_two` | 2 accounts, 2 devices, one of which may give requests up, 2 + 2 connections, `MaxSeq` 1, 1 request each; `FairSpec`; 676 232 states | every interleaving of two clients' and two gateways' handlers and closes: at most one answer per request, replies only to the account that asked, registries without dead connections, gateways and accounts reachable until one of their connections closes; records are overwritten, and the server still implements `PushBroker`; in every behaviour whose outstanding requests have distinct numbers a reply answers a request of its number and account, on its own connection unless the account logged in on another; a request taken up for the gateway that gives nothing up is answered, unless somebody leaves or numbers collide, also when its number has a record left over from a request given up |
| `push_key` | 2 clients, 1 gateway | **violation**: `InnerSeqIsKey` fails |
| `push_stale` | 1 account on 2 connections, 1 gateway, `MaxSeq` 2 | **violation**: `NoStaleAnswer` fails |
| `push_relogin` | 1 account and 1 device, each on 2 connections | **violation**: `LoggedInReachable` fails |
| `fgw_login` | 2 descriptors, 4 slots, at most 2 armed when a connection comes up, all three networks; `FairSpec`; 5 298 states | the login survives refusals, closes, resets, lost and refused logins; descriptors, events and timers stay consistent whatever `connect` returns; on a calm network the gateway never falls silent, and where `connect` does not return 0 it registers on a connection that stays up |
| `fgw_stuck` | 2 descriptors, 3 slots, a slow network; `FairSpec` | **violation**: `AbortIsRetried` fails |
| `router_race` | 3 connections on up to 2 loops, 1 token, 2 sessions; symmetric in connections and loops; 442 129 states | however handlers, timer and closes interleave: relays stay inside a session, a party is told once and only when joined, parties whose handlers do not overlap are joined; the router implements `Pairing` |
| `router_pair` | 2 connections on the same loop or on two, 1 session; `FairSpec`; 14 392 states | parties that come one after the other, in particular any two on one loop, are both told unless one leaves; the end of one channel of a joined pair ends the other |
| `router_deadlock` | 2 connections, 2 loops, 1 session; `FairSpec` | **violation**: `JoinedWhenAllConnected` fails |
| `router_remove` | 2 connections, 1 loop, 2 sessions | **violation**: `RemovesItself` fails |
| `gateway` | 2 connections, 2 requests with 2 numbers, of kinds list and set; 2 devices, 2 addresses; `MaxInner` 1, `SessionTicks` 1, `MaxListed` 1; `FairSpec`; 1 049 293 states | whatever connection, port, devices and the division of the messages do: sessions, keys and table stay consistent, nothing is left over between rounds, an answer goes to its request's connection and, of a request read alone, under its number, the gateway implements `FgwService`; a request that comes alone is answered |
| `framing` | 3 byte values, synchronize bytes 2 2, buffer of 6, caller's buffer of 5, pieces of up to 3 bytes; 45 726 states | however the stream is divided into reads, the handler is given the frames a byte-by-byte reader finds; only a length that wraps can end the process; the machine looks for a frame again and again |

*Why the bounds are enough.*  The collisions in the push server need two
requests under one number: `MaxSeq = 1` makes every pair collide, two connections
per side give a replaced connection and its replacement, two devices give an
answer by the wrong gateway.  The gateway that may give a request up leaves its record behind, under the number the
next request gets.  In `push_two` no generator comes round: a wrap takes `MaxSeq + 1`
requests of one client, and the theorems of section 5, which hold for any number of
requests, are what is known of it.  The push runs use no symmetry, because they check
temporal properties.  The
gateway's client has one socket; a second descriptor number distinguishes a leaked or
stale descriptor from the live one.  Four slots with two stale timers give a login
beside two left over, and the free slot a retry needs while its own has not yet
been emptied; on the rough network the slots run out.  In `gateway` the second
connection comes up with requests of the first behind it, two messages are the
fewest that can be read as one, `MaxInner = 1` makes every number a used one, and
`SessionTicks = 1` would let a session left over grow old in two rounds; two devices can ask
for each other's addresses.  In `framing` a frame has up to 8 bytes before
its length wraps (from 3 on, of 8 at most), more than the buffer's 6, and what is
kept of it can be more than the caller's 5.  In the router two connections are the parties
of a session, the third competes for a part or belongs to the session that
replaced the first one under the token; two loops give every constellation of
two handlers, same loop or different ones.  The inductive invariant of section 5
was also checked with four connections and one session.

*What the preconditions mean.*  `HandlerHasSocket`, `TimerOwned` and `LoginUnderWay`
exclude `Immediate`, the rough network.  With a `connect` that succeeds at once the handler is given
the descriptor of the previous socket (`zclient.cc:262` passes the parameter, not
`fd_`), and on the first attempt `init` undoes the login state after the login was
sent; a non-blocking TCP connect to a remote server does not succeed at once on
the systems the gateway runs on.  The other properties hold there too.
`NeverSilent` is about calm networks, `Registers` about those that are not rough.  `LoginUnderWay` is an invariant as long as at most `MaxTimers - 2` timers are armed
when a connection comes up.  In the code that means fewer than 15 lost
connections within ten seconds; beyond it `setTimer` returns -1 and a lost login
is not repeated until the next reconnection.

*Deadlock* is not checked: clients make finitely many requests on finitely many
connections, so a push server whose connections are all closed has stopped; the
gateway stops when its first attempt fails (`init` returns an error and the
program exits) and, on a slow network, as `fgw_stuck` shows.  The gateway process
may end by an assertion of the device table, the framing by a wrapped length.  The router stops when
every connection is closed and the sessions are used up, and as
`router_deadlock` shows.

*Fairness.*  `ServerFairness`: an event loop finishes the handler it is in; nothing
is assumed of clients or logins.  `GatewayFairness`: a gateway answers what it
holds and does not give up, as long as it has a connection it is logged in on; `RoutedIsAnswered` is
about the gateways outside `Impatient`.  `LoopFairness`: the gateway's loop runs callbacks
that are due, timers expire, and the kernel decides a connection attempt one way
or the other.  In `fgw_login` the server is assumed not to refuse a gateway for
ever (strong fairness of `ReadAccept`: refusals may come in between).  The
router's `LoopFairness`: an event loop that is not waiting finishes the handler it
is in, runs the tasks and the closes asked of it, and reports a closed channel;
a store becomes visible some time.  Nothing is assumed of parties, of the
allocation or of the timer.  `Gateway`'s `FairSpec`: the loop goes on, the routine timer
expires, and data that has come is reported by every poll until it is read; a
message that comes whole is, if it comes again and again, read whole at some
time (strong fairness of `Read`).  `ZBStream`: the coordinator does not stop sending.

## 4. What the violations show

* `push_key`.  Every `ApiServerHandler` numbers inner messages from 1 with its own
  generator (`ApiServerHandler.java:31`), but `routeMap` is one map for all.  Two
  clients with a request outstanding each have the same number; the second record
  replaces the first, and the first gateway's answer goes to the second client.
  `design/server.txt:33-35` calls the sequence the session's key.
* `push_stale`.  The gateway's answer to a client's request has been read and its
  record taken; before it is written the client logs in on another connection and
  sends a request there, under the same number as the first, because every
  connection numbers from 1.  `handleRsp` looks the connection up by account
  (`PushServerHandler.java:142`) and writes the old answer to the new connection, where it
  is taken for the answer to the new request.  `PushServerApp.java:32-34` describes the
  case and promises to clean and disconnect the old connection.
* `push_relogin`.  A client logs in on a new connection; then the close listener of the
  old one runs.  It removes the account's entry, which is the new connection's
  (`ApiServerHandler.java:114`), and answers to the client, which is logged in and
  connected, are dropped.  The listener for gateways does the same
  (`PushServerHandler.java:70-71`): the gateway is logged in and requests for it get a 404.
  TLC shows the first.  `PushServerApp.java:30-34` complains of this very thing (nothing
  happens any more after a client has connected again) and promises the same remedy.
* `fgw_stuck`.  A timed-out attempt is abandoned in `STATE_WAITING_FOR_CONNECT`
  with no event and no timer (`zclient.cc:38-44`); the log message in line 42 says
  that a reconnection follows.  The gateway stays silent until it is restarted.
* `router_deadlock`.  Both parties of a session connect at once, on two loops.  Each
  handler sees both flags, and each waits in `remove()` (`RouterAccessServerHandler.java:129`,
  `:132`) for the other's loop: both loops stand still, with every connection they
  serve.  In other orders one handler reads a null channel and ends in an
  exception.  The comments promise to wait until all are connected and then to
  respond (`:123`, `:135`).  The two handlers need not be of one session: with four
  connections, two sessions and two loops the model also reaches a state in
  which the handlers of two sessions wait for each other's loop.
* `router_remove`.  `SessionManager.remove` removes by key.  A session that timed out
  or was joined removes the session allocated for the same token since;
  `RouterAllocateServerHandler.java:58` relies on a session removing itself.

## 5. What is proved

The theorems hold for every value of the constants that satisfies the module's
assumption.  `PushServerAssumption`: the sequence range is not empty and the null
values are not in the sets they extend.  `ZClientAssumption`, `FgwClientAssumption`:
descriptors are natural numbers, there is at least one timer slot, null values
are distinct.  `SuperRouterAssumption`: there is an event loop, `MaxSessions` is a
natural number, null values are distinct.  `GatewayAssumption`, `NullAssumption`,
`ZBDevManagerAssumption`: the bounds are natural numbers, the generator and a session's
life are not empty, null values are outside the sets they extend.
`ZBStreamAssumption`: a byte has two values at least, a head is longer than the
three bytes in which its length ends and these fit in the buffer.

**Push server** (`PushServerProofs`).  The argument has three layers.

1. `TiedInv` = `TypeOK` ∧ `HandlersTied` ∧ `RegistrySound`.  Types are not inductive
   alone: `SaveRoute` makes a record for the account of its connection, which must
   be logged in, and `Forward` sends to the device of a gateway found earlier.
   `HandlersTied` says a handler in the middle of a request is logged in, handles
   its client's last request and has found a logged-in gateway.  This gives
   `PushTypeCorrect` and `PushRegistrySound`.
2. `ReplyInv` = `Provenance` ∧ `OnePlace` ∧ `RepliesSolicited` ∧ `AtMostOneAnswer`.
   A request is in at most one place: being routed, in one route record, on its
   way back in one gateway's handler, or answered.  Every step moves it or loses
   it.  This gives `PushAtMostOneAnswer` and `PushRepliesSolicited`, without any
   assumption on sequence numbers.
3. `KeyInv`: the record under a number and the outstanding request under that
   number are the same request, and the body of every reply (`BodiesOwn`) and of every
   answer under way is the one its record was made for.  It is inductive only relative to `InnerSeqIsKey`
   in the next state, and therefore `PushCorrelated` is
   `[]InnerSeqIsKey => []AnswersOwnAccount`: with unique keys a reply answers a request
   of its own number and account, and of its own connection unless the account
   logged in twice.  More is false: `push_stale` needs no collision of inner sequences.

When inner sequences are keys is proved as well, from two hypotheses.
`EnoughNumbers`: a client makes no more requests than there are numbers (0xFFFFFF in
the code).  Then a generator stays behind the requests it numbered (`Numbered`) and
does not come round, so that wherever a number travels – in a handler, a
record, a gateway's hands, an answer under way – it stands for the one request
of its client that took it (`OwnKeys`, `NumberInv`).  `PushOwnKeys` holds for any number of
clients: a client's own numbers never mix.  `OneClient`: then there are no other
numbers and no other connection, which gives `PushInnerSeqIsKey` and, with
`PushCorrelated`, `PushCorrelatedForOne`: `Correlated` as it stands.  These three are
proved only: no run has a single client.
Without `OneClient` both are false (`push_key`); without `EnoughNumbers` a request that is
never answered meets the next one under its number.

Two more results stand beside the layers.  `PushReachable`, from `LoggedInLater`
(nobody is logged in before the connection is accepted): a gateway or account
none of whose connections ends is found by the maps.  `PushImplementsBroker`
(`PushBrokerProofs`), from `TiedInv` and `ReplyInv`: the phase of a request is a function
of five facts – answered, sent, being routed, recorded, being delivered – and a
step changes them for one request at most (`OneMoves`) or for none (`NoneMoves`);
that one is the request `put()` overwrites, the one a handler takes up or lets go,
or the one an answer is written for.

**Gateway** (`FgwClientProofs`).  `StepIsZStep`: a step of `FgwClient` is a step of
`ZClient`, so an invariant of the connection is proved once.  `ZInv` strengthens
the four properties by `EventIsOurs` (a pending event watches `fd`), without which
`AfterClose` might leave an event on a descriptor that is free.  This gives
`FgwNoDescriptorLeak`, `FgwConnectedIsWatched`, `FgwRetryScheduled`,
`FgwHandlerHasSocket`.  `LoginInv` strengthens `TimerOwned` and `RegisteredHere` by
`TimerWhileWaiting`: a remembered timer means a handler that waits, so an expiring
slot that is the remembered one always starts a login.  This gives
`FgwTypeCorrect`, `FgwTimerOwned`, `FgwRegisteredHere`, for any number of slots and
any pace of reconnections.  `FgwLoginUnderWay` needs the pace: under `EnoughSlots`
(`MaxArmed + 2 <= MaxTimers`) `PaceInv` counts the armed slots, `MaxArmed` at most while
a connection can come up and one more once it has, so that `setTimer` finds
a slot for the login and for the login that repeats it.

**Gateway process** (`GatewayProofs`).

1. `TableInv` = `TableTypeOK` ∧ `LookupsAgree`: `add` moves both maps together, and an
   assertion that fails leaves them alone.  This gives `GatewayLookupsAgree`.
2. `TypeInv`: the types, and that a connection that is up has a number.
3. `LoopInv` = `SessionMapsAgree` ∧ `RoundShape` ∧ `Young`.  A round is idle, or has one question
   in the serial queue and its one session (`Asked`), or one answer in the
   client queue and its one session (`Replied`).  A session cannot meet its
   timeout, because the tick comes once in a round and after the read.  This
   gives `GatewaySessionMapsAgree` and `GatewaySettledBetweenRounds`: with the answers made up
   for debugging there is never a second session, for any bounds.
4. `MatchInv` = `WireMatch` ∧ `SessionMatch` ∧ `KindMatch` ∧ `AnswersMatch`: what the gateway
   would pass on from the wire is a request with its number and kind, of the
   connection there is (`Faithful`); a session made of it keeps the request's
   connection, and number and kind if the message was read whole and by itself
   (`DecodedWhole`); the answer keeps what the session has.  This gives
   `GatewayAnswersMatch`.  For requests read together number and kind are not kept, and
   nothing is proved of them.
5. `OnceInv`: a request that is answered is neither on the wire nor in a session, and
   in one of them at most.  Every step sends one request, answers one, or `Shrinks`
   what is under way (`LosesSome`).  This gives `GatewayImplementsService`.

**Serial framing** (`ZBStreamProofs`).  `StreamInv` = `TypeOK` ∧ `StateMeaning` ∧ `CrashNeedsWrap`.
`StateMeaning` says what each state of the machine means: before a head the
buffer is empty and synchronize bytes are missing; in a head what is kept and
what is expected are three bytes together; in a body something is expected,
unless a length wrapped.  Types alone are not inductive: that `expect` stays above
minus a head needs the head to be whole when the length is read.  This gives
`StreamTypeCorrect` and `StreamCrashNeedsWrap`.

`StreamImplementsFrames` compares a step that uses n bytes with n steps of `Take`.  The
library's induction theorems cannot be instantiated, but a set of naturals that
is not empty has a least member (`LeastNumber`, from the well-foundedness of strict
inclusion on finite sets), and that is induction in the form of sets
(`RangeInduction`).  With it the recursive function `Taking` obeys its equations (`Running`),
and the bytes of a step pass through states that can be written down: so many
synchronize bytes (`SynRun`), the buffer with the first i bytes put into it
(`HeadRun`, `DataRun`).  The lemma under these is `PutByte`: bytes that are put one at a time fill
the buffer as those put together do, full or not.  The last byte of a step decides
(`TakeSyn`, `TakeLength`, `TakeEnd`); each action is then a `Look` at its bytes, one lemma each.

**Super router** (`SuperRouterProofs`).  `SafetyInv` is built in layers, each inductive
relative to those before it.

1. `HandlerTied`: a handler runs on a connection that is up, and alone on its loop.
   `ClaimTied`: who holds a part asked for it and does not run for another.
2. `PeerTied`: the two channels a joining handler has are its own and its rival's,
   or null.  `RivalDone` is the heart: `remove()` on the rival's channel returns only
   when the rival's loop was free, so its handler has ended, and it never starts
   again.  Hence two handlers may both set out to join, but one that gets past its
   rival's pipeline is alone (`Touches`).
3. `HalfJoined`: what a handler has switched over stays so.  `ToldTogether`: both
   parties are told by the same step, or one was closed already.  This gives
   `RouterToldIsJoined` and `RouterAtMostOneRsp`.
4. `RelayTied`: a relay leads to the other party of the session.  With `ClaimTied` this
   gives `RouterExclusive`.
5. `SuperRouterTurnProofs` has what parties that come one after the other need.
   `FreshPipe`: whoever asks for a part has its access handler.  `WaitInv`: the first
   has it still when its handler has ended, and its channel can be seen.  `TurnInv`: of
   two parties whose handlers did not overlap one is the second, whose `Progress`
   says that each pipeline it has yet to switch over is as it was, so it cannot throw
   while both are up (`ProgressSteps`); nobody else touches them (`Undisturbed`, from
   `Touches`).  This gives `RouterJoinedUnlessOverlap`.
6. `PairingProofs` takes the steps of the router to those of `Pairing`, one lemma per kind
   of step, for `RouterImplementsPairing`.  `Claim` is `Obtain`, because who holds a part
   asked for it (`ClaimTied`); `RunRemove` and `Hook` are `Cut` and `Join`, and `Respond` is
   `Tell`, because while a handler joins two channels neither party was told
   (`JoiningUntold`, from `ToldTogether`); the rest is unseen.  One invariant is added: a
   pipeline is emptied only when its channel is down (`GoneIsDown`), so that a party
   told of success has a relay unless it has left.

**Model-checked only.**  Liveness (`RoutedIsAnswered`, `NeverSilent`,
`Registers`, `JoinedInTurn`, `TunnelEnds`, `AloneIsAnswered`, `LooksAgain`), which the
prover does not handle.  Every invariant and every refinement that a passing run
checks is also a theorem.

## 6. What is not modelled

* The **ZigBee sessions** cannot come about: two blocks marked as debugging
  (`zzigbee_handler.cc:404-422`, `467-474`) answer a request before it would be sent to
  the device, so no session waits for an answer of the port.  The model has what is
  compiled.
* **SDK connection**: callers and event loop use one `java.util.HashMap` without
  synchronisation.  What then happens depends on the internals of the map, which a
  model would have to make up.  Its protocol is the client's side of `PushServer`.
* **Login and communication servers**: a list and a counter, one handler each; the
  entry that is never removed is listed as a hazard.
* **Exchange** cannot relay: `mPeerId` is never assigned, so every connect is refused.
* The **C++ center server** does not compile against the present `libframework`, and is not
  a target of the Makefile.  The **Java center** is unfinished, the **Python** programs are
  the prototype of the C++ and Java ones.
* Protocol classes are generated; of the **codecs** only what decides the course of a
  message is in `Gateway`, the rest converts without state; the databases are plain
  accesses; the upload worker prints and sleeps.  Android client, web front end and
  vendored libraries are outside this project.

## 7. Plan

What is left, should the code grow into it:

1. `LoginServer`: registration and leaving of communication servers;
2. the ZigBee sessions, composed with `Gateway`, once the debugging answers are gone: then
   a late answer can meet a session that timed out and a number used again, which
   `SettledBetweenRounds` excludes today;
3. `SdkConnection`, once its map is guarded; composed with `PushServer` through
   `PushBroker`.
