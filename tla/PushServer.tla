------------------------------ MODULE PushServer ------------------------------
(***************************************************************************)
(* The push server (server/java/.../pushserver): API clients send requests *)
(* for home gateways, the server renumbers a request, remembers under the  *)
(* new number who asked, forwards it on the connection the gateway logged  *)
(* in on, and sends the gateway's answer back to the asker.                *)
(*                                                                         *)
(* Every connection has a handler object of its own, run by the one event  *)
(* loop thread the connection belongs to; handlers share only the three    *)
(* concurrent maps of InMemInfo.  A handler is therefore split exactly     *)
(* where another thread can come between two accesses to those maps:       *)
(* Lookup / SaveRoute / Forward for a request, TakeRoute / Deliver for an  *)
(* answer.                                                                 *)
(***************************************************************************)
EXTENDS Naturals, Sequences

CONSTANTS
  Account,    \* accounts API clients log in with
  Device,     \* device ids gateways log in with
  Imported,   \* the devices the database knows
  Impatient,  \* the gateways that may give a request up
  ApiConn,    \* connections accepted on the API port
  GwConn,     \* connections accepted on the push port
  MaxSeq,     \* SequenceGenerator's maximum (0xFFFFFF in the code)
  MaxReq,     \* bound: requests a client sends on one connection
  NoConn, NoAccount, NoDevice, NoRoute, Idle

Link == {"new", "open", "closing", "closed"}
Seqs == 1 .. MaxSeq
Req  == [conn: ApiConn, n: 1 .. MaxReq]

(* A request as it travels to the gateway and back: the sequence field and *)
(* the request its body belongs to.                                        *)
Msg == [inner: Seqs, req: Req]

(* RouteRecord; req is an auxiliary field, it names the request the record *)
(* was made for (its extSeq is req.n).                                     *)
RouteRecord == [ext: 1 .. MaxReq, peer: Account, req: Req]

(* A reply: its sequence field, its code, the request whose answer the     *)
(* body is, and (auxiliary) the request it was made out to.                *)
Reply == [seq: 1 .. MaxReq, code: {0, 404}, body: Req, origin: Req]

Routing  == [step: {"found"}, req: Req, gw: GwConn]
       \cup [step: {"saved"}, req: Req, gw: GwConn, inner: Seqs]
Delivery == [rec: RouteRecord, body: Req]

ASSUME PushServerAssumption ==
  /\ Imported \subseteq Device /\ Impatient \subseteq Device
  /\ NoConn \notin ApiConn \cup GwConn
  /\ NoAccount \notin Account
  /\ NoDevice \notin Device
  /\ MaxSeq \in Nat \ {0}
  /\ MaxReq \in Nat
  /\ Idle \notin Routing

VARIABLES
  apiLink,    \* the state of each API channel
  apiAcct,    \* mId of its handler; NoAccount while it is WAIT_FOR_LOGIN
  lastReq,    \* number of requests the client sent on it so far
  idGen,      \* mIdGenerator.mLast of its handler
  routing,    \* what its handler is in the middle of, or Idle
  apiOut,     \* the replies written to it
  gwLink,     \* the state of each push channel
  gwDev,      \* the device logged in on it; NoDevice while WAITING_FOR_LOGIN
  delivering, \* the answer its handler is in the middle of, or Idle
  gwJobs,     \* per device: the forwarded requests it has yet to answer
  apiMap,     \* InMemInfo.apiClientMap
  pushMap,    \* InMemInfo.pushClientMap
  routeMap    \* InMemInfo.routeMap

apiVars == <<apiLink, apiAcct, lastReq, idGen, routing, apiOut>>
gwVars  == <<gwLink, gwDev, delivering, gwJobs>>
maps    == <<apiMap, pushMap, routeMap>>
vars    == <<apiVars, gwVars, maps>>

TypeOK ==
  /\ apiLink \in [ApiConn -> Link]
  /\ apiAcct \in [ApiConn -> Account \cup {NoAccount}]
  /\ lastReq \in [ApiConn -> 0 .. MaxReq]
  /\ idGen \in [ApiConn -> 1 .. MaxSeq + 1]
  /\ routing \in [ApiConn -> Routing \cup {Idle}]
  /\ apiOut \in [ApiConn -> Seq(Reply)]
  /\ gwLink \in [GwConn -> Link]
  /\ gwDev \in [GwConn -> Device \cup {NoDevice}]
  /\ delivering \in [GwConn -> Delivery \cup {Idle}]
  /\ gwJobs \in [Device -> SUBSET Msg]
  /\ apiMap \in [Account -> ApiConn \cup {NoConn}]
  /\ pushMap \in [Device -> GwConn \cup {NoConn}]
  /\ routeMap \in [Seqs -> RouteRecord \cup {NoRoute}]

Init ==
  /\ apiLink = [c \in ApiConn |-> "new"]
  /\ apiAcct = [c \in ApiConn |-> NoAccount]
  /\ lastReq = [c \in ApiConn |-> 0]
  /\ idGen = [c \in ApiConn |-> 1]
  /\ routing = [c \in ApiConn |-> Idle]
  /\ apiOut = [c \in ApiConn |-> <<>>]
  /\ gwLink = [g \in GwConn |-> "new"]
  /\ gwDev = [g \in GwConn |-> NoDevice]
  /\ delivering = [g \in GwConn |-> Idle]
  /\ gwJobs = [d \in Device |-> {}]
  /\ apiMap = [a \in Account |-> NoConn]
  /\ pushMap = [d \in Device |-> NoConn]
  /\ routeMap = [s \in Seqs |-> NoRoute]

-----------------------------------------------------------------------------
(* API clients: ApiServerHandler                                           *)

ApiConnect(c) ==
  /\ apiLink[c] = "new"
  /\ apiLink' = [apiLink EXCEPT ![c] = "open"]
  /\ UNCHANGED <<apiAcct, lastReq, idGen, routing, apiOut, gwVars, maps>>

(* MUTANT: a second login on the same connection is accepted.              *)
MutRelogin(c, a) ==
  /\ apiLink[c] = "open"
  /\ apiAcct' = [apiAcct EXCEPT ![c] = a]
  /\ apiMap' = [apiMap EXCEPT ![a] = c]
  /\ UNCHANGED <<apiLink, lastReq, idGen, routing, apiOut, gwVars, pushMap, routeMap>>

(* The password is not looked at.  put() replaces whatever connection the  *)
(* account had.                                                            *)
HandleAdminClientLogin(c, a) ==
  /\ apiLink[c] = "open" /\ apiAcct[c] = NoAccount
  /\ apiAcct' = [apiAcct EXCEPT ![c] = a]
  /\ apiMap' = [apiMap EXCEPT ![a] = c]
  /\ UNCHANGED <<apiLink, lastReq, idGen, routing, apiOut, gwVars, pushMap, routeMap>>

(* MUTANT: requests are served before the login.                           *)
MutReadRequest(c) ==
  /\ apiLink[c] = "open" /\ routing[c] = Idle
  /\ lastReq[c] < MaxReq
  /\ lastReq' = [lastReq EXCEPT ![c] = @ + 1]

(* The handler of a logged-in connection reads the client's next request.  *)
ReadRequest(c) ==
  /\ apiLink[c] = "open" /\ apiAcct[c] # NoAccount /\ routing[c] = Idle
  /\ lastReq[c] < MaxReq
  /\ lastReq' = [lastReq EXCEPT ![c] = @ + 1]

NewReq(c) == [conn |-> c, n |-> lastReq[c] + 1]

OwnReply(c, code) ==
  [seq |-> NewReq(c).n, code |-> code, body |-> NewReq(c), origin |-> NewReq(c)]

(* A request without the sub-message of its type is read and forgotten:    *)
(* the handlers of all four types return, with no answer and no close.     *)
IgnoreRequest(c) ==
  /\ ReadRequest(c)
  /\ UNCHANGED <<apiLink, apiAcct, idGen, routing, apiOut, gwVars, maps>>

(* get-fgw-list is answered on the spot, with a fixed list.                *)
HandleFgwListReq(c) ==
  /\ ReadRequest(c)
  /\ apiOut' = [apiOut EXCEPT ![c] = Append(@, OwnReply(c, 0))]
  /\ UNCHANGED <<apiLink, apiAcct, idGen, routing, gwVars, maps>>

(* convertAndRoute, first part: no gateway of that id is logged in.        *)
RefuseRequest(c, d) ==
  /\ ReadRequest(c)
  /\ pushMap[d] = NoConn
  /\ apiOut' = [apiOut EXCEPT ![c] = Append(@, OwnReply(c, 404))]
  /\ UNCHANGED <<apiLink, apiAcct, idGen, routing, gwVars, maps>>

(* convertAndRoute, first part: the gateway's connection is looked up.     *)
Lookup(c, d) ==
  /\ ReadRequest(c)
  /\ pushMap[d] # NoConn
  /\ routing' = [routing EXCEPT ![c] = [step |-> "found", req |-> NewReq(c), gw |-> pushMap[d]]]
  /\ UNCHANGED <<apiLink, apiAcct, idGen, apiOut, gwVars, maps>>

(* SequenceGenerator.next(): the number handed out is compared with the    *)
(* maximum one call late.                                                  *)
NextSeq(last) == IF last > MaxSeq THEN 1 ELSE last

RouteFor(c, req) == [ext |-> req.n, peer |-> apiAcct[c], req |-> req]

(* MUTANT: putIfAbsent in the place of put.                                *)
MutSaveIfAbsent(c) ==
  /\ routing[c] # Idle /\ routing[c].step = "found"
  /\ LET s == NextSeq(idGen[c]) IN
       /\ idGen' = [idGen EXCEPT ![c] = s + 1]
       /\ routeMap' = IF routeMap[s] # NoRoute THEN routeMap
                      ELSE [routeMap EXCEPT ![s] = RouteFor(c, routing[c].req)]
       /\ routing' = [routing EXCEPT ![c] =
            [step |-> "saved", req |-> routing[c].req, gw |-> routing[c].gw, inner |-> s]]
  /\ UNCHANGED <<apiLink, apiAcct, lastReq, apiOut, gwVars, apiMap, pushMap>>

(* convertAndRoute, second part: routeMap.put(mIdGenerator.next(), ...).   *)
SaveRoute(c) ==
  /\ routing[c] # Idle /\ routing[c].step = "found"
  /\ LET s == NextSeq(idGen[c]) IN
       /\ idGen' = [idGen EXCEPT ![c] = s + 1]
       /\ routeMap' = [routeMap EXCEPT ![s] = RouteFor(c, routing[c].req)]
       /\ routing' = [routing EXCEPT ![c] =
            [step |-> "saved", req |-> routing[c].req, gw |-> routing[c].gw, inner |-> s]]
  /\ UNCHANGED <<apiLink, apiAcct, lastReq, apiOut, gwVars, apiMap, pushMap>>

(* convertAndRoute, third part: a write to a closed channel goes nowhere.  *)
Forward(c) ==
  /\ routing[c] # Idle /\ routing[c].step = "saved"
  /\ LET g == routing[c].gw IN
       gwJobs' = IF gwLink[g] = "open"
                 THEN [gwJobs EXCEPT ![gwDev[g]] =
                         @ \cup {[inner |-> routing[c].inner, req |-> routing[c].req]}]
                 ELSE gwJobs
  /\ routing' = [routing EXCEPT ![c] = Idle]
  /\ UNCHANGED <<apiLink, apiAcct, lastReq, idGen, apiOut, gwLink, gwDev, delivering, maps>>

(* The client leaves, or the handler closes the channel on a message it    *)
(* does not know.  Never in the middle of a request: same thread.          *)
ApiClose(c) ==
  /\ apiLink[c] = "open" /\ routing[c] = Idle
  /\ apiLink' = [apiLink EXCEPT ![c] = "closing"]
  /\ UNCHANGED <<apiAcct, lastReq, idGen, routing, apiOut, gwVars, maps>>

(* closeFuture's listener, added at login: it removes the account's entry, *)
(* whichever connection that entry is for.                                 *)
ApiCloseListener(c) ==
  /\ apiLink[c] = "closing"
  /\ apiLink' = [apiLink EXCEPT ![c] = "closed"]
  /\ apiMap' = [a \in Account |-> IF a = apiAcct[c] THEN NoConn ELSE apiMap[a]]
  /\ UNCHANGED <<apiAcct, lastReq, idGen, routing, apiOut, gwVars, pushMap, routeMap>>

-----------------------------------------------------------------------------
(* Gateways: PushServerHandler                                             *)

GwConnect(g) ==
  /\ gwLink[g] = "new"
  /\ gwLink' = [gwLink EXCEPT ![g] = "open"]
  /\ UNCHANGED <<apiVars, gwDev, delivering, gwJobs, maps>>

(* MUTANT: the entry of the connection logged in before is cleaned up      *)
(* after the new one was put.                                              *)
MutLoginCleansEntry(g, d) ==
  /\ gwLink[g] = "open" /\ gwDev[g] = NoDevice
  /\ d \in Imported
  /\ gwDev' = [gwDev EXCEPT ![g] = d]
  /\ pushMap' = [pushMap EXCEPT ![d] = IF @ = NoConn THEN g ELSE NoConn]
  /\ UNCHANGED <<apiVars, gwLink, delivering, gwJobs, apiMap, routeMap>>

(* onWaitingForLogin: auth() asks the database for the device.             *)
PushClientLogin(g, d) ==
  /\ gwLink[g] = "open" /\ gwDev[g] = NoDevice
  /\ d \in Imported
  /\ gwDev' = [gwDev EXCEPT ![g] = d]
  /\ pushMap' = [pushMap EXCEPT ![d] = g]
  /\ UNCHANGED <<apiVars, gwLink, delivering, gwJobs, apiMap, routeMap>>

(* The gateway leaves, or sends something else than a login the database   *)
(* accepts: ctx.close().                                                   *)
GwClose(g) ==
  /\ gwLink[g] = "open" /\ delivering[g] = Idle
  /\ gwLink' = [gwLink EXCEPT ![g] = "closing"]
  /\ UNCHANGED <<apiVars, gwDev, delivering, gwJobs, maps>>

(* MUTANT: the listener was never added.                                   *)
MutNoListener(g) ==
  /\ gwLink[g] = "closing"
  /\ gwLink' = [gwLink EXCEPT ![g] = "closed"]
  /\ UNCHANGED <<apiVars, gwDev, delivering, gwJobs, maps>>

GwCloseListener(g) ==
  /\ gwLink[g] = "closing"
  /\ gwLink' = [gwLink EXCEPT ![g] = "closed"]
  /\ pushMap' = [d \in Device |-> IF d = gwDev[g] THEN NoConn ELSE pushMap[d]]
  /\ UNCHANGED <<apiVars, gwDev, delivering, gwJobs, apiMap, routeMap>>

(* The gateway gives up a request: its own session timed out.              *)
GwForget(d, m) ==
  /\ d \in Impatient /\ m \in gwJobs[d]
  /\ gwJobs' = [gwJobs EXCEPT ![d] = @ \ {m}]
  /\ UNCHANGED <<apiVars, gwLink, gwDev, delivering, maps>>

(* MUTANT: get in the place of remove.                                     *)
MutGetRoute(g, m) ==
  /\ gwLink[g] = "open" /\ gwDev[g] # NoDevice /\ delivering[g] = Idle
  /\ m \in gwJobs[gwDev[g]]
  /\ gwJobs' = [gwJobs EXCEPT ![gwDev[g]] = @ \ {m}]
  /\ delivering' = IF routeMap[m.inner] = NoRoute THEN delivering
                   ELSE [delivering EXCEPT ![g] =
                           [rec |-> routeMap[m.inner], body |-> m.req]]
  /\ UNCHANGED <<apiVars, gwLink, gwDev, maps>>

(* handleRsp, first part: an answer of the gateway, to any request it      *)
(* holds, read from a connection it is logged in on; routeMap.remove().    *)
TakeRoute(g, m) ==
  /\ gwLink[g] = "open" /\ gwDev[g] # NoDevice /\ delivering[g] = Idle
  /\ m \in gwJobs[gwDev[g]]
  /\ gwJobs' = [gwJobs EXCEPT ![gwDev[g]] = @ \ {m}]
  /\ delivering' = IF routeMap[m.inner] = NoRoute THEN delivering
                   ELSE [delivering EXCEPT ![g] =
                           [rec |-> routeMap[m.inner], body |-> m.req]]
  /\ routeMap' = [routeMap EXCEPT ![m.inner] = NoRoute]
  /\ UNCHANGED <<apiVars, gwLink, gwDev, apiMap, pushMap>>

ReplyFor(del) ==
  [seq |-> del.rec.ext, code |-> 0, body |-> del.body, origin |-> del.rec.req]

(* handleRsp, second part: the reply is written to the connection the      *)
(* account of the record is on now, if it is on one.                       *)
Deliver(g) ==
  /\ delivering[g] # Idle
  /\ LET c == apiMap[delivering[g].rec.peer] IN
       apiOut' = IF c # NoConn /\ apiLink[c] = "open"
                 THEN [apiOut EXCEPT ![c] = Append(@, ReplyFor(delivering[g]))]
                 ELSE apiOut
  /\ delivering' = [delivering EXCEPT ![g] = Idle]
  /\ UNCHANGED <<apiLink, apiAcct, lastReq, idGen, routing, gwLink, gwDev, gwJobs, maps>>

-----------------------------------------------------------------------------
ApiNext(c) ==
  \/ ApiConnect(c)
  \/ \E a \in Account : HandleAdminClientLogin(c, a)
  \/ IgnoreRequest(c)
  \/ HandleFgwListReq(c)
  \/ \E d \in Device : RefuseRequest(c, d)
  \/ \E d \in Device : Lookup(c, d)
  \/ SaveRoute(c)
  \/ Forward(c)
  \/ ApiClose(c)
  \/ ApiCloseListener(c)

GwNext(g) ==
  \/ GwConnect(g)
  \/ \E d \in Device : PushClientLogin(g, d)
  \/ GwClose(g)
  \/ GwCloseListener(g)
  \/ \E m \in UNION {gwJobs[d] : d \in Device} : TakeRoute(g, m)
  \/ Deliver(g)

Next ==
  \/ \E c \in ApiConn : ApiNext(c)
  \/ \E g \in GwConn : GwNext(g)
  \/ \E d \in Device : \E m \in gwJobs[d] : GwForget(d, m)

Spec == Init /\ [][Next]_vars

(* An event loop finishes the handler it is in.  Nothing is assumed of     *)
(* clients, of logins or of connections.                                   *)
ServerFairness ==
  /\ \A c \in ApiConn : WF_vars(SaveRoute(c)) /\ WF_vars(Forward(c))
  /\ \A g \in GwConn : WF_vars(Deliver(g))

(* Of the gateways: what they hold and do not give up they answer, on a    *)
(* connection they are logged in on, if they have one.                     *)
GatewayFairness ==
  \A g \in GwConn : WF_vars(\E m \in UNION {gwJobs[d] : d \in Device} : TakeRoute(g, m))

FairSpec == Spec /\ ServerFairness /\ GatewayFairness

-----------------------------------------------------------------------------
(* Properties                                                              *)

(* A request is answered at most once, whatever the handlers of the        *)
(* gateways do concurrently and however often a number is handed out       *)
(* again: handleRsp takes the record out of routeMap in one step.          *)
AtMostOneAnswer ==
  \A c1, c2 \in ApiConn : \A i1 \in DOMAIN apiOut[c1], i2 \in DOMAIN apiOut[c2] :
    apiOut[c1][i1].origin = apiOut[c2][i2].origin => c1 = c2 /\ i1 = i2

(* A reply written to a client carries the sequence of a request that its  *)
(* account sent, on this or an earlier connection: convertAndRoute saves   *)
(* the client's own number, handleRsp puts it back and finds the account   *)
(* by the record.                                                          *)
RepliesSolicited ==
  \A c \in ApiConn : \A i \in DOMAIN apiOut[c] :
    LET r == apiOut[c][i] IN
      /\ r.seq = r.origin.n
      /\ r.origin.n <= lastReq[r.origin.conn]
      /\ apiAcct[c] = apiAcct[r.origin.conn]

(* The requests gateways hold or are about to be sent.                     *)
Held == UNION {gwJobs[d] : d \in Device}

Departing(c) ==
  IF routing[c] # Idle /\ routing[c].step = "saved"
  THEN {[inner |-> routing[c].inner, req |-> routing[c].req]} ELSE {}

Outstanding == Held \cup UNION {Departing(c) : c \in ApiConn}

(* The inner sequence is the key of a request: no two outstanding requests *)
(* travel under the same one.                                              *)
InnerSeqIsKey ==
  \A m1, m2 \in Outstanding : m1.inner = m2.inner => m1 = m2

(* A client gets on a connection, under the sequence of a request it sent  *)
(* on that very connection, the answer to that request: what the SDK, which *)
(* keeps its callbacks by sequence number, takes a reply for.               *)
Correlated ==
  \A c \in ApiConn : \A i \in DOMAIN apiOut[c] :
    apiOut[c][i].body = [conn |-> c, n |-> apiOut[c][i].seq]

(* The account of the connection has logged in on another one as well.     *)
LoggedInTwice(c) == \E d \in ApiConn \ {c} : apiAcct[d] = apiAcct[c]

(* The body of a reply answers a request of its own number, sent by its    *)
(* own account, and on its own connection unless the account logged in on  *)
(* another one: handleRsp finds the connection by the account alone.       *)
AnswersOwnAccount ==
  \A c \in ApiConn : \A i \in DOMAIN apiOut[c] :
    LET r == apiOut[c][i] IN
      /\ r.body.n = r.seq
      /\ apiAcct[r.body.conn] = apiAcct[c]
      /\ r.body.conn = c \/ LoggedInTwice(c)

(* As long as inner sequences are keys, replies carry what their number    *)
(* says, whatever requests are lost and whatever gateways reconnect.  A    *)
(* client that logs in again can still get under a number the answer to    *)
(* what it asked under that number before: NoStaleAnswer does not hold.    *)
CorrelatedWhileKeysUnique == []InnerSeqIsKey => []AnswersOwnAccount

(* The record of the connection's n-th request is in the map: its client   *)
(* waits for the gateway's answer under n.                                 *)
Waiting(c, n) ==
  \E s \in Seqs : routeMap[s] # NoRoute /\ routeMap[s].req = [conn |-> c, n |-> n]

(* Nothing is written to a connection under a number its client waits on   *)
(* but the answer to that request: the connection the account had before,  *)
(* which numbered from 1 too, is "cleaned" when the new one comes.         *)
NoStaleAnswer ==
  [][\A c \in ApiConn : apiOut'[c] # apiOut[c] =>
       LET r == apiOut'[c][Len(apiOut'[c])] IN Waiting(c, r.seq) => r.body.conn = c]_vars

(* The maps name only connections logged in under that very id and whose   *)
(* close listener has not run: none is left behind for a dead connection.  *)
RegistrySound ==
  /\ \A d \in Device : pushMap[d] # NoConn =>
       gwDev[pushMap[d]] = d /\ gwLink[pushMap[d]] \in {"open", "closing"}
  /\ \A a \in Account : apiMap[a] # NoConn =>
       apiAcct[apiMap[a]] = a /\ apiLink[apiMap[a]] \in {"open", "closing"}

(* From its first login until the first of its connections closes, a       *)
(* gateway (an account) that is logged in can be found.                    *)
ReachableUntilOneCloses ==
  /\ \A d \in Device : LET on == {g \in GwConn : gwDev[g] = d} IN
       (on # {} /\ \A g \in on : gwLink[g] = "open") => pushMap[d] \in on
  /\ \A a \in Account : LET on == {c \in ApiConn : apiAcct[c] = a} IN
       (on # {} /\ \A c \in on : apiLink[c] = "open") => apiMap[a] \in on

(* Whoever is connected and logged in can be reached: a gateway is found   *)
(* for requests, an account is sent its answers.  The close listener of    *)
(* the connection a gateway or a client had before breaks this, because it *)
(* removes the new one's entry.                                            *)
LoggedInReachable ==
  /\ \A g \in GwConn : gwLink[g] = "open" /\ gwDev[g] # NoDevice => pushMap[gwDev[g]] # NoConn
  /\ \A c \in ApiConn : apiLink[c] = "open" /\ apiAcct[c] # NoAccount => apiMap[apiAcct[c]] # NoConn

Answered(r) ==
  \E c \in ApiConn : \E i \in DOMAIN apiOut[c] : apiOut[c][i].origin = r

SomeoneLeft ==
  \/ \E c \in ApiConn : apiLink[c] \in {"closing", "closed"}
  \/ \E g \in GwConn : gwLink[g] \in {"closing", "closed"}

(* Every request convertAndRoute takes up for a gateway that gives nothing *)
(* up is answered in the end, unless a connection is closed or inner       *)
(* sequences collide meanwhile: neither the record of an older request nor *)
(* another gateway's answer gets in its way.  A request without its        *)
(* sub-message is not taken up, and never answered (IgnoreRequest).        *)
RoutedIsAnswered ==
  \A r \in Req :
    (/\ routing[r.conn] # Idle /\ routing[r.conn].req = r
     /\ routing[r.conn].step = "found" /\ gwDev[routing[r.conn].gw] \notin Impatient)
      ~> (Answered(r) \/ SomeoneLeft \/ ~InnerSeqIsKey)
=============================================================================
