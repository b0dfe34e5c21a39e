--------------------------- MODULE PushServerProofs ---------------------------
(***************************************************************************)
(* Proofs about the push server, for any number of connections, accounts,  *)
(* devices, requests and sequence numbers.                                 *)
(***************************************************************************)
EXTENDS PushServer, TLAPS

USE PushServerAssumption

(* Every number the generator hands out is one of its range, and the       *)
(* counter it is left with is one that it can start from again.            *)
LEMMA NextSeqRange ==
  ASSUME NEW last \in 1 .. MaxSeq + 1
  PROVE  NextSeq(last) \in Seqs /\ NextSeq(last) + 1 \in 1 .. MaxSeq + 1
BY DEF NextSeq, Seqs

LEMMA NewReqType ==
  ASSUME TypeOK, NEW c \in ApiConn, ReadRequest(c)
  PROVE  /\ NewReq(c) \in Req /\ lastReq[c] + 1 \in 0 .. MaxReq
         /\ \A code \in {0, 404} : OwnReply(c, code) \in Reply
BY DEF TypeOK, ReadRequest, NewReq, OwnReply, Req, Reply

(* A handler in the middle of a request is logged in, the request is the   *)
(* last one its client sent and the gateway it found is logged in.         *)
HandlersTied ==
  \A c \in ApiConn : routing[c] # Idle =>
    /\ apiAcct[c] # NoAccount
    /\ routing[c].req = [conn |-> c, n |-> lastReq[c]]
    /\ gwDev[routing[c].gw] # NoDevice

(* The variables keep their types.                                         *)
LEMMA TypeInductive == TypeOK /\ HandlersTied /\ [Next]_vars => TypeOK'
<1> SUFFICES ASSUME TypeOK, HandlersTied, [Next]_vars PROVE TypeOK'
  OBVIOUS
<1> USE DEF TypeOK
<1>1. ASSUME NEW c \in ApiConn, ApiConnect(c) PROVE TypeOK'
  BY <1>1 DEF ApiConnect, gwVars, maps, Link
<1>2. ASSUME NEW c \in ApiConn, NEW a \in Account, HandleAdminClientLogin(c, a) PROVE TypeOK'
  BY <1>2 DEF HandleAdminClientLogin, gwVars
<1>3. ASSUME NEW c \in ApiConn, HandleFgwListReq(c) PROVE TypeOK'
  <2>1. OwnReply(c, 0) \in Reply /\ lastReq[c] + 1 \in 0 .. MaxReq
    BY <1>3, NewReqType DEF HandleFgwListReq
  <2>2. Append(apiOut[c], OwnReply(c, 0)) \in Seq(Reply)
    BY <2>1
  <2>3. QED
    BY <1>3, <2>1, <2>2 DEF HandleFgwListReq, ReadRequest, gwVars, maps
<1>4. ASSUME NEW c \in ApiConn, NEW d \in Device, RefuseRequest(c, d) PROVE TypeOK'
  <2>1. OwnReply(c, 404) \in Reply /\ lastReq[c] + 1 \in 0 .. MaxReq
    BY <1>4, NewReqType DEF RefuseRequest
  <2>2. Append(apiOut[c], OwnReply(c, 404)) \in Seq(Reply)
    BY <2>1
  <2>3. QED
    BY <1>4, <2>1, <2>2 DEF RefuseRequest, ReadRequest, gwVars, maps
<1>5. ASSUME NEW c \in ApiConn, NEW d \in Device, Lookup(c, d) PROVE TypeOK'
  <2>1. [step |-> "found", req |-> NewReq(c), gw |-> pushMap[d]] \in Routing
    BY <1>5, NewReqType DEF Lookup, Routing
  <2>2. QED
    BY <1>5, <2>1, NewReqType DEF Lookup, ReadRequest, gwVars, maps
<1>6. ASSUME NEW c \in ApiConn, SaveRoute(c) PROVE TypeOK'
  <2>1. NextSeq(idGen[c]) \in Seqs /\ NextSeq(idGen[c]) + 1 \in 1 .. MaxSeq + 1
    BY NextSeqRange
  <2>2. routing[c].req \in Req /\ routing[c].gw \in GwConn
    BY <1>6 DEF SaveRoute, Routing
  <2>3. RouteFor(c, routing[c].req) \in RouteRecord
    BY <1>6, <2>2 DEF SaveRoute, HandlersTied, RouteFor, RouteRecord, Req
  <2>4. [step |-> "saved", req |-> routing[c].req, gw |-> routing[c].gw,
         inner |-> NextSeq(idGen[c])] \in Routing
    BY <2>1, <2>2 DEF Routing
  <2>5. QED
    BY <1>6, <2>1, <2>3, <2>4 DEF SaveRoute, gwVars
<1>7. ASSUME NEW c \in ApiConn, Forward(c) PROVE TypeOK'
  <2>1. /\ [inner |-> routing[c].inner, req |-> routing[c].req] \in Msg
        /\ gwDev[routing[c].gw] \in Device
    BY <1>7 DEF Forward, Routing, Msg, HandlersTied
  <2>2. gwJobs' \in [Device -> SUBSET Msg]
    BY <1>7, <2>1 DEF Forward
  <2>3. QED
    BY <1>7, <2>2 DEF Forward, maps
<1>8. ASSUME NEW c \in ApiConn, ApiClose(c) PROVE TypeOK'
  BY <1>8 DEF ApiClose, gwVars, maps, Link
<1>9. ASSUME NEW c \in ApiConn, ApiCloseListener(c) PROVE TypeOK'
  BY <1>9 DEF ApiCloseListener, gwVars, Link
<1>10. ASSUME NEW g \in GwConn, GwConnect(g) PROVE TypeOK'
  BY <1>10 DEF GwConnect, apiVars, maps, Link
<1>11. ASSUME NEW g \in GwConn, NEW d \in Device, PushClientLogin(g, d) PROVE TypeOK'
  BY <1>11 DEF PushClientLogin, apiVars
<1>12. ASSUME NEW g \in GwConn, GwClose(g) PROVE TypeOK'
  BY <1>12 DEF GwClose, apiVars, maps, Link
<1>13. ASSUME NEW g \in GwConn, GwCloseListener(g) PROVE TypeOK'
  BY <1>13 DEF GwCloseListener, apiVars, Link
<1>14. ASSUME NEW g \in GwConn, NEW m, TakeRoute(g, m) PROVE TypeOK'
  BY <1>14 DEF TakeRoute, apiVars, Msg, Delivery
<1>15. ASSUME NEW g \in GwConn, Deliver(g) PROVE TypeOK'
  <2>1. ReplyFor(delivering[g]) \in Reply /\ delivering[g].rec.peer \in Account
    BY <1>15 DEF Deliver, Delivery, ReplyFor, RouteRecord, Reply
  <2>2. \A c \in ApiConn : Append(apiOut[c], ReplyFor(delivering[g])) \in Seq(Reply)
    BY <2>1
  <2>3. apiOut' \in [ApiConn -> Seq(Reply)]
    BY <1>15, <2>1, <2>2 DEF Deliver
  <2>4. QED
    BY <1>15, <2>3 DEF Deliver, maps
<1>16. ASSUME NEW d \in Device, NEW m \in gwJobs[d], GwForget(d, m) PROVE TypeOK'
  BY <1>16 DEF GwForget, apiVars, maps
<1>17. CASE UNCHANGED vars
  BY <1>17 DEF vars, apiVars, gwVars, maps
<1>18. ASSUME NEW c \in ApiConn, IgnoreRequest(c) PROVE TypeOK'
  BY <1>18, NewReqType DEF IgnoreRequest, ReadRequest, gwVars, maps
<1> HIDE DEF TypeOK
<1> QED
  BY <1>1, <1>2, <1>3, <1>4, <1>5, <1>6, <1>7, <1>8, <1>9, <1>10, <1>11, <1>12,
     <1>13, <1>14, <1>15, <1>16, <1>17, <1>18 DEF Next, ApiNext, GwNext

(* The close listeners and logins keep the registries sound, and with them *)
(* the handlers' view of the connections.                                  *)
LEMMA RegistryInductive ==
  TypeOK /\ HandlersTied /\ RegistrySound /\ [Next]_vars => HandlersTied' /\ RegistrySound'
<1> SUFFICES ASSUME TypeOK, HandlersTied, RegistrySound, [Next]_vars
             PROVE  HandlersTied' /\ RegistrySound'
  OBVIOUS
<1> USE DEF TypeOK, HandlersTied, RegistrySound
<1>1. ASSUME NEW c \in ApiConn, ApiConnect(c) PROVE HandlersTied' /\ RegistrySound'
  BY <1>1 DEF ApiConnect, gwVars, maps
<1>2. ASSUME NEW c \in ApiConn, NEW a \in Account, HandleAdminClientLogin(c, a)
      PROVE HandlersTied' /\ RegistrySound'
  BY <1>2 DEF HandleAdminClientLogin, gwVars
<1>3. ASSUME NEW c \in ApiConn, HandleFgwListReq(c) PROVE HandlersTied' /\ RegistrySound'
  BY <1>3 DEF HandleFgwListReq, ReadRequest, gwVars, maps
<1>4. ASSUME NEW c \in ApiConn, NEW d \in Device, RefuseRequest(c, d)
      PROVE HandlersTied' /\ RegistrySound'
  BY <1>4 DEF RefuseRequest, ReadRequest, gwVars, maps
<1>5. ASSUME NEW c \in ApiConn, NEW d \in Device, Lookup(c, d)
      PROVE HandlersTied' /\ RegistrySound'
  BY <1>5 DEF Lookup, ReadRequest, NewReq, gwVars, maps
<1>6. ASSUME NEW c \in ApiConn, SaveRoute(c) PROVE HandlersTied' /\ RegistrySound'
  BY <1>6 DEF SaveRoute, gwVars
<1>7. ASSUME NEW c \in ApiConn, Forward(c) PROVE HandlersTied' /\ RegistrySound'
  BY <1>7 DEF Forward, maps
<1>8. ASSUME NEW c \in ApiConn, ApiClose(c) PROVE HandlersTied' /\ RegistrySound'
  BY <1>8 DEF ApiClose, gwVars, maps
<1>9. ASSUME NEW c \in ApiConn, ApiCloseListener(c) PROVE HandlersTied' /\ RegistrySound'
  BY <1>9 DEF ApiCloseListener, gwVars
<1>10. ASSUME NEW g \in GwConn, GwConnect(g) PROVE HandlersTied' /\ RegistrySound'
  BY <1>10 DEF GwConnect, apiVars, maps
<1>11. ASSUME NEW g \in GwConn, NEW d \in Device, PushClientLogin(g, d)
       PROVE HandlersTied' /\ RegistrySound'
  BY <1>11 DEF PushClientLogin, apiVars, Routing
<1>12. ASSUME NEW g \in GwConn, GwClose(g) PROVE HandlersTied' /\ RegistrySound'
  BY <1>12 DEF GwClose, apiVars, maps
<1>13. ASSUME NEW g \in GwConn, GwCloseListener(g) PROVE HandlersTied' /\ RegistrySound'
  BY <1>13 DEF GwCloseListener, apiVars
<1>14. ASSUME NEW g \in GwConn, NEW m, TakeRoute(g, m) PROVE HandlersTied' /\ RegistrySound'
  BY <1>14 DEF TakeRoute, apiVars
<1>15. ASSUME NEW g \in GwConn, Deliver(g) PROVE HandlersTied' /\ RegistrySound'
  BY <1>15 DEF Deliver, maps
<1>16. ASSUME NEW d \in Device, NEW m \in gwJobs[d], GwForget(d, m)
       PROVE HandlersTied' /\ RegistrySound'
  BY <1>16 DEF GwForget, apiVars, maps
<1>17. CASE UNCHANGED vars
  BY <1>17 DEF vars, apiVars, gwVars, maps
<1>18. ASSUME NEW c \in ApiConn, IgnoreRequest(c) PROVE HandlersTied' /\ RegistrySound'
  BY <1>18 DEF IgnoreRequest, ReadRequest, gwVars, maps
<1> HIDE DEF TypeOK, HandlersTied, RegistrySound
<1> QED
  BY <1>1, <1>2, <1>3, <1>4, <1>5, <1>6, <1>7, <1>8, <1>9, <1>10, <1>11, <1>12,
     <1>13, <1>14, <1>15, <1>16, <1>17, <1>18 DEF Next, ApiNext, GwNext

(* What holds of every state of the push server: types, sound registries   *)
(* and handlers that agree with them.                                      *)
TiedInv == TypeOK /\ HandlersTied /\ RegistrySound

LEMMA TiedCorrect == Spec => []TiedInv
<1>1. Init => TiedInv
  BY DEF Init, TiedInv, TypeOK, Link, HandlersTied, RegistrySound
<1>2. TiedInv /\ [Next]_vars => TiedInv'
  BY TypeInductive, RegistryInductive DEF TiedInv
<1>3. QED
  BY <1>1, <1>2, PTL DEF Spec

(* The variables of the push server have their types in every state: the   *)
(* generators never leave their range, what is routed is well formed.      *)
THEOREM PushTypeCorrect == Spec => []TypeOK
BY TiedCorrect, PTL DEF TiedInv

(* The registries never name a dead connection or one of another device or *)
(* account, whatever order logins and close listeners run in.              *)
THEOREM PushRegistrySound == Spec => []RegistrySound
BY TiedCorrect, PTL DEF TiedInv

(* A connection logs in once it is accepted.                               *)
LoggedInLater ==
  /\ \A c \in ApiConn : apiLink[c] = "new" => apiAcct[c] = NoAccount
  /\ \A g \in GwConn : gwLink[g] = "new" => gwDev[g] = NoDevice

(* What a step leaves alone of the three variables of one side.            *)
LEMMA QuietStepsKeepReachable ==
  ASSUME LoggedInLater, ReachableUntilOneCloses,
         UNCHANGED <<apiLink, apiAcct, apiMap, gwLink, gwDev, pushMap>>
  PROVE  LoggedInLater' /\ ReachableUntilOneCloses'
BY DEF LoggedInLater, ReachableUntilOneCloses

LEMMA ReachableInductive ==
  TypeOK /\ LoggedInLater /\ ReachableUntilOneCloses /\ [Next]_vars
    => LoggedInLater' /\ ReachableUntilOneCloses'
<1> SUFFICES ASSUME TypeOK, LoggedInLater, ReachableUntilOneCloses, [Next]_vars
             PROVE  LoggedInLater' /\ ReachableUntilOneCloses'
  OBVIOUS
<1> DEFINE Goal == LoggedInLater /\ ReachableUntilOneCloses
<1> DEFINE ApiTyped == /\ apiLink \in [ApiConn -> Link]
                       /\ apiAcct \in [ApiConn -> Account \cup {NoAccount}]
                       /\ apiMap \in [Account -> ApiConn \cup {NoConn}]
<1> DEFINE GwTyped == /\ gwLink \in [GwConn -> Link]
                      /\ gwDev \in [GwConn -> Device \cup {NoDevice}]
                      /\ pushMap \in [Device -> GwConn \cup {NoConn}]
<1>0. ApiTyped /\ GwTyped
  BY DEF TypeOK
<1>1. ASSUME NEW c \in ApiConn, ApiConnect(c) PROVE Goal'
  BY <1>0, <1>1 DEF ApiConnect, gwVars, maps, LoggedInLater, ReachableUntilOneCloses
<1>2. ASSUME NEW c \in ApiConn, NEW a \in Account, HandleAdminClientLogin(c, a) PROVE Goal'
  BY <1>0, <1>2 DEF HandleAdminClientLogin, gwVars, LoggedInLater, ReachableUntilOneCloses
<1>3. ASSUME NEW c \in ApiConn, ApiClose(c) PROVE Goal'
  BY <1>0, <1>3 DEF ApiClose, gwVars, maps, LoggedInLater, ReachableUntilOneCloses
<1>4. ASSUME NEW c \in ApiConn, ApiCloseListener(c) PROVE Goal'
  BY <1>0, <1>4 DEF ApiCloseListener, gwVars, LoggedInLater, ReachableUntilOneCloses
<1>5. ASSUME NEW g \in GwConn, GwConnect(g) PROVE Goal'
  BY <1>0, <1>5 DEF GwConnect, apiVars, maps, LoggedInLater, ReachableUntilOneCloses
<1>6. ASSUME NEW g \in GwConn, NEW d \in Device, PushClientLogin(g, d) PROVE Goal'
  BY <1>0, <1>6 DEF PushClientLogin, apiVars, LoggedInLater, ReachableUntilOneCloses
<1>7. ASSUME NEW g \in GwConn, GwClose(g) PROVE Goal'
  BY <1>0, <1>7 DEF GwClose, apiVars, maps, LoggedInLater, ReachableUntilOneCloses
<1>8. ASSUME NEW g \in GwConn, GwCloseListener(g) PROVE Goal'
  BY <1>0, <1>8 DEF GwCloseListener, apiVars, LoggedInLater, ReachableUntilOneCloses
<1>9. ASSUME NEW c \in ApiConn, IgnoreRequest(c) \/ HandleFgwListReq(c) \/ SaveRoute(c) \/ Forward(c)
      PROVE  Goal'
  BY <1>9, QuietStepsKeepReachable DEF IgnoreRequest, HandleFgwListReq, SaveRoute, Forward, gwVars, maps
<1>10. ASSUME NEW c \in ApiConn, NEW d \in Device, RefuseRequest(c, d) \/ Lookup(c, d) PROVE Goal'
  BY <1>10, QuietStepsKeepReachable DEF RefuseRequest, Lookup, gwVars, maps
<1>11. ASSUME NEW g \in GwConn, Deliver(g) PROVE Goal'
  BY <1>11, QuietStepsKeepReachable DEF Deliver, maps
<1>12. ASSUME NEW g \in GwConn, NEW m, TakeRoute(g, m) PROVE Goal'
  BY <1>12, QuietStepsKeepReachable DEF TakeRoute, apiVars
<1>13. ASSUME NEW d \in Device, NEW m \in gwJobs[d], GwForget(d, m) PROVE Goal'
  BY <1>13, QuietStepsKeepReachable DEF GwForget, apiVars, maps
<1>14. ASSUME UNCHANGED vars PROVE Goal'
  BY <1>14, QuietStepsKeepReachable DEF vars, apiVars, gwVars, maps
<1> HIDE DEF Goal
<1>15. Goal'
  BY <1>1, <1>2, <1>3, <1>4, <1>5, <1>6, <1>7, <1>8, <1>9, <1>10, <1>11, <1>12, <1>13, <1>14
     DEF Next, ApiNext, GwNext
<1> QED
  BY <1>15 DEF Goal

(* Close listeners of old connections are the only way in which a gateway  *)
(* or an account that is logged in can get lost to the registries.         *)
THEOREM PushReachable == Spec => []ReachableUntilOneCloses
<1>1. Init => LoggedInLater /\ ReachableUntilOneCloses
  BY DEF Init, LoggedInLater, ReachableUntilOneCloses
<1> QED
  BY <1>1, ReachableInductive, PushTypeCorrect, PTL DEF Spec

-----------------------------------------------------------------------------
(* Replies                                                                 *)

(* A record in the map or on its way out is the one its request's handler  *)
(* made, and only logged-in connections have been written to.              *)
RecordOK(rec) ==
  /\ rec.ext = rec.req.n
  /\ rec.req.n <= lastReq[rec.req.conn]
  /\ rec.peer = apiAcct[rec.req.conn]

Provenance ==
  /\ \A s \in Seqs : routeMap[s] # NoRoute => RecordOK(routeMap[s])
  /\ \A g \in GwConn : delivering[g] # Idle => RecordOK(delivering[g].rec)
  /\ \A c \in ApiConn : \A i \in DOMAIN apiOut[c] : apiAcct[c] # NoAccount

(* A request is in one place: waiting to be saved, in the route map, being *)
(* delivered, or answered.                                                 *)
OnePlace ==
  /\ \A s1, s2 \in Seqs :
       routeMap[s1] # NoRoute /\ routeMap[s2] # NoRoute /\ routeMap[s1].req = routeMap[s2].req
         => s1 = s2
  /\ \A g1, g2 \in GwConn :
       delivering[g1] # Idle /\ delivering[g2] # Idle /\ delivering[g1].rec.req = delivering[g2].rec.req
         => g1 = g2
  /\ \A s \in Seqs, g \in GwConn :
       routeMap[s] # NoRoute /\ delivering[g] # Idle => routeMap[s].req # delivering[g].rec.req
  /\ \A c \in ApiConn : \A i \in DOMAIN apiOut[c] :
       /\ \A s \in Seqs : routeMap[s] # NoRoute => routeMap[s].req # apiOut[c][i].origin
       /\ \A g \in GwConn : delivering[g] # Idle => delivering[g].rec.req # apiOut[c][i].origin
  /\ \A k \in ApiConn : routing[k] # Idle /\ routing[k].step = "found" =>
       /\ \A s \in Seqs : routeMap[s] # NoRoute => routeMap[s].req # routing[k].req
       /\ \A g \in GwConn : delivering[g] # Idle => delivering[g].rec.req # routing[k].req
       /\ \A c \in ApiConn : \A i \in DOMAIN apiOut[c] : apiOut[c][i].origin # routing[k].req

ReplyInv == Provenance /\ OnePlace /\ RepliesSolicited /\ AtMostOneAnswer

(* The positions of a sequence after an Append: the old ones, with what    *)
(* was there, and one new one.                                             *)
LEMMA AppendPositions ==
  ASSUME NEW S, NEW q \in Seq(S), NEW x \in S
  PROVE  \A i \in DOMAIN Append(q, x) :
           \/ i \in DOMAIN q /\ Append(q, x)[i] = q[i]
           \/ i = Len(q) + 1 /\ i \notin DOMAIN q /\ Append(q, x)[i] = x
OBVIOUS

LEMMA RepliesTyped ==
  ASSUME TypeOK, NEW k \in ApiConn, NEW i \in DOMAIN apiOut[k]
  PROVE  /\ apiOut[k][i] \in Reply
         /\ apiOut[k][i].origin \in Req
<1>1. apiOut[k] \in Seq(Reply)
  BY DEF TypeOK
<1>2. apiOut[k][i] \in Reply
  BY <1>1
<1> QED
  BY <1>2 DEF Reply

(* What a write to connection c leaves in the output of every connection.  *)
LEMMA WritePositions ==
  ASSUME TypeOK, NEW c \in ApiConn, NEW x \in Reply,
         apiOut' = [apiOut EXCEPT ![c] = Append(@, x)]
  PROVE  \A k \in ApiConn : \A i \in DOMAIN apiOut'[k] :
           \/ i \in DOMAIN apiOut[k] /\ apiOut'[k][i] = apiOut[k][i]
           \/ k = c /\ i = Len(apiOut[c]) + 1 /\ apiOut'[k][i] = x
<1> SUFFICES ASSUME NEW k \in ApiConn, NEW i \in DOMAIN apiOut'[k]
             PROVE  \/ i \in DOMAIN apiOut[k] /\ apiOut'[k][i] = apiOut[k][i]
                    \/ k = c /\ i = Len(apiOut[c]) + 1 /\ apiOut'[k][i] = x
  OBVIOUS
<1>1. CASE k = c
  <2>1. apiOut[c] \in Seq(Reply) /\ apiOut'[c] = Append(apiOut[c], x)
    BY DEF TypeOK
  <2>2. QED
    BY <1>1, <2>1, AppendPositions
<1>2. CASE k # c
  BY <1>2 DEF TypeOK
<1> QED
  BY <1>1, <1>2

(* A reply made on the spot is to a request nothing is known of yet.       *)
LEMMA OwnReplyKeeps ==
  ASSUME TiedInv, ReplyInv, NEW c \in ApiConn, NEW code \in {0, 404}, ReadRequest(c),
         apiOut' = [apiOut EXCEPT ![c] = Append(@, OwnReply(c, code))],
         UNCHANGED <<apiAcct, routing, delivering, routeMap>>
  PROVE  ReplyInv'
<1> DEFINE x == OwnReply(c, code)
<1> USE DEF TiedInv, ReplyInv
<1>1. x \in Reply /\ x.origin = NewReq(c) /\ x.seq = x.origin.n /\ NewReq(c) \in Req
  <2>1. NewReq(c) \in Req
    BY NewReqType
  <2>2. x.origin = NewReq(c) /\ x.seq = NewReq(c).n
    BY DEF OwnReply
  <2>3. x \in Reply
    BY NewReqType
  <2> QED
    BY <2>1, <2>2, <2>3
<1>2. \A k \in ApiConn : \A i \in DOMAIN apiOut'[k] :
        \/ i \in DOMAIN apiOut[k] /\ apiOut'[k][i] = apiOut[k][i]
        \/ k = c /\ i = Len(apiOut[c]) + 1 /\ apiOut'[k][i] = x
  BY <1>1, WritePositions
<1>3. lastReq[c] \in Nat /\ lastReq' = [lastReq EXCEPT ![c] = lastReq[c] + 1]
      /\ lastReq \in [ApiConn -> 0 .. MaxReq] /\ apiAcct[c] # NoAccount
  BY DEF TypeOK, ReadRequest
<1>4. NewReq(c).conn = c /\ NewReq(c).n = lastReq[c] + 1
  BY DEF NewReq
<1>5. \A s \in Seqs : routeMap[s] # NoRoute => routeMap[s] \in RouteRecord /\ routeMap[s].req # NewReq(c)
  BY <1>3, <1>4 DEF TypeOK, Provenance, RecordOK, RouteRecord, Req
<1>6. \A g \in GwConn : delivering[g] # Idle =>
        delivering[g].rec \in RouteRecord /\ delivering[g].rec.req # NewReq(c)
  BY <1>3, <1>4 DEF TypeOK, Provenance, RecordOK, Delivery, RouteRecord, Req
<1>7. \A k \in ApiConn : \A i \in DOMAIN apiOut[k] :
        apiOut[k][i] \in Reply /\ apiOut[k][i].origin # NewReq(c)
  BY <1>3, <1>4, RepliesTyped DEF RepliesSolicited
<1>8. \A k \in ApiConn : routing[k] # Idle => routing[k].req # NewReq(c)
  <2>1. ASSUME NEW k \in ApiConn, routing[k] # Idle
        PROVE  routing[k].req.conn = k /\ routing[k].req.n = lastReq[k]
    <3>1. routing[k].req = [conn |-> k, n |-> lastReq[k]]
      BY <2>1 DEF HandlersTied
    <3>2. QED
      BY <3>1
  <2>2. QED
    BY <2>1, <1>3, <1>4
<1>9. Provenance'
  <2>1. \A rec \in RouteRecord : RecordOK(rec) => RecordOK(rec)'
    BY <1>3 DEF RecordOK, RouteRecord, Req
  <2>2. \A s \in Seqs : routeMap'[s] # NoRoute => RecordOK(routeMap[s])'
    BY <1>5, <2>1 DEF Provenance
  <2>3. \A g \in GwConn : delivering'[g] # Idle => RecordOK(delivering[g].rec)'
    BY <1>6, <2>1 DEF Provenance
  <2>4. QED
    BY <1>2, <1>3, <2>2, <2>3 DEF Provenance
<1>10. RepliesSolicited'
  <2> DEFINE Fine(k, r) == /\ r.seq = r.origin.n
                           /\ r.origin.n <= lastReq'[r.origin.conn]
                           /\ apiAcct'[k] = apiAcct'[r.origin.conn]
  <2>1. ASSUME NEW k \in ApiConn, NEW i \in DOMAIN apiOut[k]
        PROVE  Fine(k, apiOut[k][i])
    <3>1. apiOut[k][i].origin.conn \in ApiConn /\ apiOut[k][i].origin.n \in Nat
      BY RepliesTyped DEF Req
    <3>2. \A j \in ApiConn : \A n \in Nat : n <= lastReq[j] => n <= lastReq'[j]
      BY <1>3
    <3> QED
      BY <3>1, <3>2 DEF RepliesSolicited
  <2>2. Fine(c, x)
    BY <1>1, <1>3, <1>4
  <2> HIDE DEF Fine, x
  <2>3. \A k \in ApiConn : \A i \in DOMAIN apiOut'[k] : Fine(k, apiOut'[k][i])
    BY <1>2, <2>1, <2>2
  <2> QED
    BY <2>3 DEF RepliesSolicited, Fine
<1>11. AtMostOneAnswer'
  <2> SUFFICES ASSUME NEW k1 \in ApiConn, NEW k2 \in ApiConn,
                      NEW i1 \in DOMAIN apiOut'[k1], NEW i2 \in DOMAIN apiOut'[k2],
                      apiOut'[k1][i1].origin = apiOut'[k2][i2].origin
               PROVE  k1 = k2 /\ i1 = i2
    BY DEF AtMostOneAnswer
  <2>1. CASE i1 \in DOMAIN apiOut[k1] /\ apiOut'[k1][i1] = apiOut[k1][i1]
    <3>1. i2 \in DOMAIN apiOut[k2] /\ apiOut'[k2][i2] = apiOut[k2][i2]
      BY <2>1, <1>1, <1>2, <1>7
    <3>2. QED
      BY <2>1, <3>1 DEF AtMostOneAnswer
  <2>2. CASE k1 = c /\ i1 = Len(apiOut[c]) + 1 /\ apiOut'[k1][i1] = x
    BY <2>2, <1>1, <1>2, <1>7
  <2>3. QED
    BY <1>2, <2>1, <2>2
<1>12. OnePlace'
  BY <1>1, <1>2, <1>5, <1>6, <1>8 DEF OnePlace
<1> QED
  BY <1>9, <1>10, <1>11, <1>12

(* A request that is ignored leaves no trace but its number.               *)
LEMMA IgnoreKeeps ==
  ASSUME TiedInv, ReplyInv, NEW c \in ApiConn, IgnoreRequest(c)
  PROVE  ReplyInv'
<1> USE DEF TiedInv, ReplyInv
<1>1. /\ \A k \in ApiConn : \A n \in Nat : n <= lastReq[k] => n <= lastReq'[k]
      /\ UNCHANGED <<apiAcct, apiOut, routing, delivering, routeMap>>
  BY DEF IgnoreRequest, ReadRequest, TypeOK, gwVars, maps
<1>2. \A rec \in RouteRecord : RecordOK(rec) => RecordOK(rec)'
  BY <1>1 DEF RecordOK, RouteRecord, Req
<1>3. /\ \A s \in Seqs : routeMap[s] # NoRoute => routeMap[s] \in RouteRecord
      /\ \A g \in GwConn : delivering[g] # Idle => delivering[g].rec \in RouteRecord
  BY DEF TypeOK, Delivery
<1>4. Provenance'
  BY <1>1, <1>2, <1>3 DEF Provenance
<1>5. RepliesSolicited'
  <2>1. \A k \in ApiConn : \A i \in DOMAIN apiOut[k] :
          apiOut[k][i].origin.conn \in ApiConn /\ apiOut[k][i].origin.n \in Nat
    BY RepliesTyped DEF Req
  <2> QED
    BY <1>1, <2>1 DEF RepliesSolicited
<1>6. AtMostOneAnswer' /\ OnePlace'
  BY <1>1 DEF AtMostOneAnswer, OnePlace
<1> QED
  BY <1>4, <1>5, <1>6

(* Looking a gateway up puts a request in hand nothing is known of yet.    *)
LEMMA LookupKeeps ==
  ASSUME TiedInv, ReplyInv, NEW c \in ApiConn, NEW d \in Device, Lookup(c, d)
  PROVE  ReplyInv'
<1> USE DEF TiedInv, ReplyInv
<1>1. /\ lastReq[c] \in Nat /\ lastReq' = [lastReq EXCEPT ![c] = lastReq[c] + 1]
      /\ lastReq \in [ApiConn -> 0 .. MaxReq]
      /\ UNCHANGED <<apiAcct, apiOut, delivering, routeMap>>
  BY DEF Lookup, ReadRequest, TypeOK, gwVars, maps
<1>2. NewReq(c).conn = c /\ NewReq(c).n = lastReq[c] + 1
  BY DEF NewReq
<1>3. \A s \in Seqs : routeMap[s] # NoRoute => routeMap[s] \in RouteRecord /\ routeMap[s].req # NewReq(c)
  BY <1>1, <1>2 DEF TypeOK, Provenance, RecordOK, RouteRecord, Req
<1>4. \A g \in GwConn : delivering[g] # Idle =>
        delivering[g].rec \in RouteRecord /\ delivering[g].rec.req # NewReq(c)
  BY <1>1, <1>2 DEF TypeOK, Provenance, RecordOK, Delivery, RouteRecord, Req
<1>5. \A k \in ApiConn : \A i \in DOMAIN apiOut[k] :
        apiOut[k][i].origin \in Req /\ apiOut[k][i].origin # NewReq(c)
  BY <1>1, <1>2, RepliesTyped DEF RepliesSolicited
<1>6. Provenance'
  <2>1. \A rec \in RouteRecord : RecordOK(rec) => RecordOK(rec)'
    BY <1>1 DEF RecordOK, RouteRecord, Req
  <2>2. \A s \in Seqs : routeMap'[s] # NoRoute => RecordOK(routeMap[s])'
    BY <1>1, <1>3, <2>1 DEF Provenance
  <2>3. \A g \in GwConn : delivering'[g] # Idle => RecordOK(delivering[g].rec)'
    BY <1>1, <1>4, <2>1 DEF Provenance
  <2>4. QED
    BY <1>1, <2>2, <2>3 DEF Provenance
<1>7. RepliesSolicited'
  BY <1>1, <1>5 DEF RepliesSolicited, Req
<1>8. AtMostOneAnswer'
  BY <1>1 DEF AtMostOneAnswer
<1>9. OnePlace'
  <2>1. \A k \in ApiConn : \/ k = c /\ routing'[k].req = NewReq(c)
                           \/ routing'[k] = routing[k]
    BY DEF Lookup, TypeOK
  <2>2. QED
    BY <1>1, <1>3, <1>4, <1>5, <2>1 DEF OnePlace
<1> QED
  BY <1>6, <1>7, <1>8, <1>9

(* put() moves the request from its handler to the map, in the place of    *)
(* the record that was there.                                              *)
LEMMA SaveRouteKeeps ==
  ASSUME TiedInv, ReplyInv, NEW c \in ApiConn, SaveRoute(c)
  PROVE  ReplyInv'
<1> DEFINE r == routing[c].req
           s == NextSeq(idGen[c])
<1> USE DEF TiedInv, ReplyInv
<1>1. UNCHANGED <<lastReq, apiAcct, apiOut, delivering>>
  BY DEF SaveRoute, gwVars
<1>2. s \in Seqs /\ routeMap' = [routeMap EXCEPT ![s] = RouteFor(c, r)]
  BY NextSeqRange DEF SaveRoute, TypeOK
<1>3. routing[c] # Idle /\ routing[c].step = "found"
  BY DEF SaveRoute
<1>4. \A k \in ApiConn : routing'[k] # Idle /\ routing'[k].step = "found" =>
        k # c /\ routing'[k] = routing[k]
  BY DEF SaveRoute, TypeOK
<1>5. r = [conn |-> c, n |-> lastReq[c]]
  BY <1>3 DEF HandlersTied
<1>6. r.conn = c /\ r.n = lastReq[c] /\ lastReq[c] \in Nat
  BY <1>5 DEF TypeOK
<1>7. RouteFor(c, r).req = r /\ RecordOK(RouteFor(c, r))
  BY <1>6 DEF RouteFor, RecordOK
<1>8. Provenance'
  <2>1. \A rec : RecordOK(rec)' <=> RecordOK(rec)
    BY <1>1 DEF RecordOK
  <2>2. \A t \in Seqs : routeMap'[t] # NoRoute => RecordOK(routeMap'[t])
    BY <1>2, <1>7 DEF Provenance, TypeOK
  <2>3. QED
    BY <1>1, <2>1, <2>2 DEF Provenance
<1>9. RepliesSolicited' /\ AtMostOneAnswer'
  BY <1>1 DEF RepliesSolicited, AtMostOneAnswer
<1>10. OnePlace'
  <2>1. \A t \in Seqs : routeMap'[t] # NoRoute =>
          \/ t # s /\ routeMap'[t] = routeMap[t]
          \/ t = s /\ routeMap'[t].req = r
    BY <1>2, <1>7 DEF TypeOK
  <2>2. \A k \in ApiConn : routing[k] # Idle /\ k # c => routing[k].req # r
    <3>1. ASSUME NEW k \in ApiConn, routing[k] # Idle, k # c
          PROVE  routing[k].req # r
      <4>1. routing[k].req = [conn |-> k, n |-> lastReq[k]]
        BY <3>1 DEF HandlersTied
      <4>2. QED
        BY <4>1, <3>1, <1>5
    <3>2. QED
      BY <3>1
  <2>3. QED
    BY <1>1, <1>3, <1>4, <2>1, <2>2 DEF OnePlace
<1> QED
  BY <1>8, <1>9, <1>10

(* remove() moves the record from the map to the handler that took it.     *)
LEMMA TakeRouteKeeps ==
  ASSUME TiedInv, ReplyInv, NEW g \in GwConn, NEW m, TakeRoute(g, m)
  PROVE  ReplyInv'
<1> USE DEF TiedInv, ReplyInv
<1>1. UNCHANGED <<lastReq, apiAcct, apiOut, routing>>
  BY DEF TakeRoute, apiVars
<1>2. m.inner \in Seqs /\ routeMap' = [routeMap EXCEPT ![m.inner] = NoRoute]
  BY DEF TakeRoute, TypeOK, Msg
<1>3. \A s \in Seqs : routeMap'[s] # NoRoute => s # m.inner /\ routeMap'[s] = routeMap[s]
  BY <1>2 DEF TypeOK
<1>4. \A h \in GwConn : delivering'[h] # Idle =>
        \/ delivering'[h] = delivering[h]
        \/ h = g /\ delivering[g] = Idle /\ routeMap[m.inner] # NoRoute
             /\ delivering'[h].rec = routeMap[m.inner]
  BY DEF TakeRoute, TypeOK
<1>5. \A rec : RecordOK(rec)' <=> RecordOK(rec)
  BY <1>1 DEF RecordOK
<1>6. Provenance'
  BY <1>1, <1>2, <1>3, <1>4, <1>5 DEF Provenance
<1>7. RepliesSolicited' /\ AtMostOneAnswer'
  BY <1>1 DEF RepliesSolicited, AtMostOneAnswer
<1>8. OnePlace'
  BY <1>1, <1>2, <1>3, <1>4 DEF OnePlace
<1> QED
  BY <1>6, <1>7, <1>8

(* The reply is written to the account the record names, or is dropped.    *)
LEMMA DeliverKeeps ==
  ASSUME TiedInv, ReplyInv, NEW g \in GwConn, Deliver(g)
  PROVE  ReplyInv'
<1> DEFINE del == delivering[g]
           x == ReplyFor(del)
           c == apiMap[del.rec.peer]
<1> USE DEF TiedInv, ReplyInv
<1>1. UNCHANGED <<lastReq, apiAcct, routing, routeMap>>
  BY DEF Deliver, maps
<1>2. \A h \in GwConn : delivering'[h] # Idle => h # g /\ delivering'[h] = delivering[h]
  BY DEF Deliver, TypeOK
<1>3. del # Idle /\ del \in Delivery
  BY DEF Deliver, TypeOK
<1>4. /\ del.rec \in RouteRecord /\ del.rec.req \in Req /\ RecordOK(del.rec)
      /\ x \in Reply /\ x.origin = del.rec.req /\ x.seq = del.rec.ext
  BY <1>3 DEF Delivery, RouteRecord, ReplyFor, Reply, Provenance
<1>5. \A rec : RecordOK(rec)' <=> RecordOK(rec)
  BY <1>1 DEF RecordOK
<1>6. CASE ~(c # NoConn /\ apiLink[c] = "open")
  <2>1. UNCHANGED apiOut
    BY <1>6 DEF Deliver
  <2>2. QED
    BY <1>1, <1>2, <1>5, <2>1 DEF Provenance, OnePlace, RepliesSolicited, AtMostOneAnswer
<1>7. CASE c # NoConn /\ apiLink[c] = "open"
  <2>1. c \in ApiConn /\ apiAcct[c] = del.rec.peer /\ apiAcct[c] # NoAccount
    BY <1>4, <1>7 DEF RegistrySound, TypeOK, RouteRecord
  <2>2. apiOut' = [apiOut EXCEPT ![c] = Append(apiOut[c], x)]
    BY <1>7 DEF Deliver
  <2>3. \A k \in ApiConn : \A i \in DOMAIN apiOut'[k] :
          \/ i \in DOMAIN apiOut[k] /\ apiOut'[k][i] = apiOut[k][i]
          \/ k = c /\ i = Len(apiOut[c]) + 1 /\ apiOut'[k][i] = x
    <3> HIDE DEF c, x
    <3> QED
      BY <1>4, <2>1, <2>2, WritePositions
  <2>4. \A k \in ApiConn : \A i \in DOMAIN apiOut[k] : apiOut[k][i].origin # x.origin
    BY <1>3, <1>4 DEF OnePlace
  <2>5. Provenance'
    BY <1>1, <1>2, <1>5, <2>1, <2>3 DEF Provenance
  <2>6. RepliesSolicited'
    <3>1. /\ x.seq = x.origin.n
          /\ x.origin.n <= lastReq[x.origin.conn]
          /\ apiAcct[c] = apiAcct[x.origin.conn]
      BY <1>4, <2>1 DEF RecordOK
    <3> HIDE DEF c, x
    <3>2. QED
      BY <1>1, <2>3, <3>1 DEF RepliesSolicited
  <2>7. AtMostOneAnswer'
    <3> SUFFICES ASSUME NEW k1 \in ApiConn, NEW k2 \in ApiConn,
                        NEW i1 \in DOMAIN apiOut'[k1], NEW i2 \in DOMAIN apiOut'[k2],
                        apiOut'[k1][i1].origin = apiOut'[k2][i2].origin
                 PROVE  k1 = k2 /\ i1 = i2
      BY DEF AtMostOneAnswer
    <3>1. CASE i1 \in DOMAIN apiOut[k1] /\ apiOut'[k1][i1] = apiOut[k1][i1]
      <4>1. i2 \in DOMAIN apiOut[k2] /\ apiOut'[k2][i2] = apiOut[k2][i2]
        BY <3>1, <2>3, <2>4
      <4>2. QED
        BY <3>1, <4>1 DEF AtMostOneAnswer
    <3>2. CASE k1 = c /\ i1 = Len(apiOut[c]) + 1 /\ apiOut'[k1][i1] = x
      <4> HIDE DEF c, x
      <4>1. \/ i2 \in DOMAIN apiOut[k2] /\ apiOut'[k2][i2] = apiOut[k2][i2]
            \/ k2 = c /\ i2 = Len(apiOut[c]) + 1
        BY <2>3
      <4>2. ~(i2 \in DOMAIN apiOut[k2] /\ apiOut'[k2][i2] = apiOut[k2][i2])
        BY <2>4, <3>2
      <4> QED
        BY <3>2, <4>1, <4>2
    <3>3. QED
      BY <2>3, <3>1, <3>2
  <2>8. OnePlace'
    BY <1>1, <1>2, <1>3, <1>4, <2>3, <2>4 DEF OnePlace
  <2>9. QED
    BY <2>5, <2>6, <2>7, <2>8
<1> QED
  BY <1>6, <1>7

(* A login changes the account of a connection nothing is recorded of.     *)
LEMMA LoginKeeps ==
  ASSUME TiedInv, ReplyInv, NEW c \in ApiConn, NEW a \in Account, HandleAdminClientLogin(c, a)
  PROVE  ReplyInv'
<1> USE DEF TiedInv, ReplyInv
<1>1. /\ UNCHANGED <<lastReq, apiOut, routing, delivering, routeMap>>
      /\ apiAcct[c] = NoAccount /\ apiAcct' = [apiAcct EXCEPT ![c] = a]
      /\ apiAcct \in [ApiConn -> Account \cup {NoAccount}]
  BY DEF HandleAdminClientLogin, gwVars, TypeOK
<1>2. \A rec \in RouteRecord : RecordOK(rec) => RecordOK(rec)'
  BY <1>1 DEF RecordOK, RouteRecord, Req
<1>3. Provenance'
  <2>1. \A s \in Seqs : routeMap[s] # NoRoute => RecordOK(routeMap[s])'
    <3>1. \A s \in Seqs : routeMap[s] # NoRoute => routeMap[s] \in RouteRecord
      BY DEF TypeOK
    <3>2. QED
      BY <1>1, <1>2, <3>1 DEF Provenance
  <2>2. \A g \in GwConn : delivering[g] # Idle => RecordOK(delivering[g].rec)'
    <3>1. \A g \in GwConn : delivering[g] # Idle => delivering[g].rec \in RouteRecord
      BY DEF TypeOK, Delivery
    <3>2. QED
      BY <1>1, <1>2, <3>1 DEF Provenance
  <2>3. QED
    BY <1>1, <2>1, <2>2 DEF Provenance
<1>4. RepliesSolicited'
  <2>1. \A k \in ApiConn : \A i \in DOMAIN apiOut[k] :
          apiAcct[k] # NoAccount /\ apiOut[k][i].origin.conn \in ApiConn
    BY RepliesTyped DEF Provenance, Req
  <2>2. \A k \in ApiConn : apiAcct[k] # NoAccount => apiAcct'[k] = apiAcct[k]
    BY <1>1
  <2>3. QED
    BY <1>1, <2>1, <2>2 DEF RepliesSolicited
<1>5. AtMostOneAnswer' /\ OnePlace'
  BY <1>1 DEF AtMostOneAnswer, OnePlace
<1> QED
  BY <1>3, <1>4, <1>5

(* Every other step leaves records, answers and requests in hand alone.    *)
LEMMA OtherStepsKeep ==
  ASSUME ReplyInv, UNCHANGED <<apiAcct, lastReq, apiOut, delivering, routeMap>>,
         TypeOK, \A k \in ApiConn : routing'[k] # Idle => routing'[k] = routing[k]
  PROVE  ReplyInv'
<1>1. Provenance' /\ RepliesSolicited' /\ AtMostOneAnswer'
  BY DEF ReplyInv, Provenance, RecordOK, RepliesSolicited, AtMostOneAnswer
<1>2. OnePlace'
  BY DEF ReplyInv, OnePlace
<1> QED
  BY <1>1, <1>2 DEF ReplyInv

LEMMA ReplyInductive == TiedInv /\ ReplyInv /\ [Next]_vars => ReplyInv'
<1> SUFFICES ASSUME TiedInv, ReplyInv, [Next]_vars PROVE ReplyInv'
  OBVIOUS
<1> USE DEF gwVars, apiVars, maps
<1>0. TypeOK
  BY DEF TiedInv
<1>1. ASSUME NEW c \in ApiConn, ApiConnect(c) PROVE ReplyInv'
  BY <1>0, <1>1, OtherStepsKeep DEF ApiConnect
<1>2. ASSUME NEW c \in ApiConn, NEW a \in Account, HandleAdminClientLogin(c, a) PROVE ReplyInv'
  BY <1>2, LoginKeeps
<1>3. ASSUME NEW c \in ApiConn, HandleFgwListReq(c) PROVE ReplyInv'
  BY <1>3, OwnReplyKeeps DEF HandleFgwListReq
<1>4. ASSUME NEW c \in ApiConn, NEW d \in Device, RefuseRequest(c, d) PROVE ReplyInv'
  BY <1>4, OwnReplyKeeps DEF RefuseRequest
<1>5. ASSUME NEW c \in ApiConn, NEW d \in Device, Lookup(c, d) PROVE ReplyInv'
  BY <1>5, LookupKeeps
<1>6. ASSUME NEW c \in ApiConn, SaveRoute(c) PROVE ReplyInv'
  BY <1>6, SaveRouteKeeps
<1>7. ASSUME NEW c \in ApiConn, Forward(c) PROVE ReplyInv'
  <2>1. \A k \in ApiConn : routing'[k] # Idle => routing'[k] = routing[k]
    BY <1>0, <1>7 DEF Forward, TypeOK
  <2>2. QED
    BY <1>0, <1>7, <2>1, OtherStepsKeep DEF Forward
<1>8. ASSUME NEW c \in ApiConn, ApiClose(c) PROVE ReplyInv'
  BY <1>0, <1>8, OtherStepsKeep DEF ApiClose
<1>9. ASSUME NEW c \in ApiConn, ApiCloseListener(c) PROVE ReplyInv'
  BY <1>0, <1>9, OtherStepsKeep DEF ApiCloseListener
<1>10. ASSUME NEW g \in GwConn, GwConnect(g) PROVE ReplyInv'
  BY <1>0, <1>10, OtherStepsKeep DEF GwConnect
<1>11. ASSUME NEW g \in GwConn, NEW d \in Device, PushClientLogin(g, d) PROVE ReplyInv'
  BY <1>0, <1>11, OtherStepsKeep DEF PushClientLogin
<1>12. ASSUME NEW g \in GwConn, GwClose(g) PROVE ReplyInv'
  BY <1>0, <1>12, OtherStepsKeep DEF GwClose
<1>13. ASSUME NEW g \in GwConn, GwCloseListener(g) PROVE ReplyInv'
  BY <1>0, <1>13, OtherStepsKeep DEF GwCloseListener
<1>14. ASSUME NEW g \in GwConn, NEW m, TakeRoute(g, m) PROVE ReplyInv'
  BY <1>14, TakeRouteKeeps
<1>15. ASSUME NEW g \in GwConn, Deliver(g) PROVE ReplyInv'
  BY <1>15, DeliverKeeps
<1>16. ASSUME NEW d \in Device, NEW m \in gwJobs[d], GwForget(d, m) PROVE ReplyInv'
  BY <1>0, <1>16, OtherStepsKeep DEF GwForget
<1>17. CASE UNCHANGED vars
  BY <1>0, <1>17, OtherStepsKeep DEF vars
<1>18. ASSUME NEW c \in ApiConn, IgnoreRequest(c) PROVE ReplyInv'
  BY <1>18, IgnoreKeeps
<1> QED
  BY <1>1, <1>2, <1>3, <1>4, <1>5, <1>6, <1>7, <1>8, <1>9, <1>10, <1>11, <1>12,
     <1>13, <1>14, <1>15, <1>16, <1>17, <1>18 DEF Next, ApiNext, GwNext

LEMMA ReplyInvCorrect == Spec => []ReplyInv
<1>1. Init => ReplyInv
  BY DEF Init, ReplyInv, Provenance, OnePlace, RepliesSolicited, AtMostOneAnswer
<1>2. QED
  BY <1>1, ReplyInductive, TiedCorrect, PTL DEF Spec

(* No request is ever answered twice, even when its inner sequence is      *)
(* handed out again and its record replaced.                               *)
THEOREM PushAtMostOneAnswer == Spec => []AtMostOneAnswer
BY ReplyInvCorrect, PTL DEF ReplyInv

(* Every reply goes to the account that sent the request it is made out    *)
(* to, under the number that account gave it.                              *)
THEOREM PushRepliesSolicited == Spec => []RepliesSolicited
BY ReplyInvCorrect, PTL DEF ReplyInv

-----------------------------------------------------------------------------
(* Correlation                                                             *)

(* The body of a reply answers the request the reply is made out to.       *)
BodiesOwn ==
  \A c \in ApiConn : \A i \in DOMAIN apiOut[c] : apiOut[c][i].body = apiOut[c][i].origin

(* The record under the inner sequence of an outstanding request, if there *)
(* is one, is that request's.                                              *)
KeyInv ==
  /\ BodiesOwn
  /\ \A m \in Outstanding : routeMap[m.inner] # NoRoute => routeMap[m.inner].req = m.req
  /\ \A g \in GwConn : delivering[g] # Idle => delivering[g].body = delivering[g].rec.req

(* A step that neither writes a reply, nor touches a record, nor sends a   *)
(* request out keeps the correlation.                                      *)
LEMMA QuietStepsKeepKeys ==
  ASSUME KeyInv, UNCHANGED <<apiOut, delivering, routeMap>>, Outstanding' \subseteq Outstanding
  PROVE  KeyInv'
BY DEF KeyInv, BodiesOwn

LEMMA OutstandingIs ==
  \A m : m \in Outstanding <=> \/ \E d \in Device : m \in gwJobs[d]
                               \/ \E c \in ApiConn : m \in Departing(c)
BY DEF Outstanding, Held

(* A reply whose body is its own request's keeps bodies own.              *)
LEMMA WriteKeepsBodies ==
  ASSUME TypeOK, BodiesOwn, NEW c \in ApiConn, NEW x \in Reply, x.body = x.origin,
         apiOut' = [apiOut EXCEPT ![c] = Append(@, x)]
  PROVE  BodiesOwn'
BY WritePositions DEF BodiesOwn

LEMMA OutstandingTyped ==
  ASSUME TypeOK, NEW m \in Outstanding
  PROVE  m.inner \in Seqs /\ m.req \in Req
<1>1. ASSUME NEW d \in Device, m \in gwJobs[d] PROVE m.inner \in Seqs /\ m.req \in Req
  BY <1>1 DEF TypeOK, Msg
<1>2. ASSUME NEW c \in ApiConn, m \in Departing(c) PROVE m.inner \in Seqs /\ m.req \in Req
  BY <1>2 DEF TypeOK, Routing, Departing
<1> QED
  BY <1>1, <1>2, OutstandingIs

(* With the keys unique after the put, no other outstanding request is     *)
(* under the sequence whose record it writes.                              *)
LEMMA SaveRouteKeepsKeys ==
  ASSUME TypeOK, KeyInv, InnerSeqIsKey', NEW c \in ApiConn, SaveRoute(c)
  PROVE  KeyInv'
<1> DEFINE r == routing[c].req
           s == NextSeq(idGen[c])
           n == [inner |-> s, req |-> r]
<1>1. UNCHANGED <<apiOut, delivering, gwJobs>>
  BY DEF SaveRoute, gwVars
<1>2. s \in Seqs /\ routeMap' = [routeMap EXCEPT ![s] = RouteFor(c, r)] /\ RouteFor(c, r).req = r
  BY NextSeqRange DEF SaveRoute, TypeOK, RouteFor
<1>3. Departing(c)' = {n}
  <2>1. /\ c \in DOMAIN routing
        /\ routing' = [routing EXCEPT ![c] =
             [step |-> "saved", req |-> r, gw |-> routing[c].gw, inner |-> s]]
    BY DEF SaveRoute, TypeOK
  <2>2. routing'[c] = [step |-> "saved", req |-> r, gw |-> routing[c].gw, inner |-> s]
    BY <2>1
  <2>3. r \in Req /\ routing[c].gw \in GwConn
    BY DEF SaveRoute, TypeOK, Routing
  <2>4. routing'[c] \in Routing
    BY <1>2, <2>2, <2>3 DEF Routing
  <2>5. routing'[c] # Idle
    BY <2>4, PushServerAssumption
  <2>6. QED
    BY <2>2, <2>5 DEF Departing
<1>4. \A k \in ApiConn : k # c => Departing(k)' = Departing(k)
  BY DEF SaveRoute, TypeOK, Departing
<1>5. n \in Outstanding'
  BY <1>3 DEF Outstanding
<1>6. ASSUME NEW m \in Outstanding', routeMap'[m.inner] # NoRoute
      PROVE  routeMap'[m.inner].req = m.req
  <2>1. CASE m = n
    BY <2>1, <1>2 DEF TypeOK
  <2>2. CASE m # n
    <3>1. m \in Outstanding
      BY <2>2, <1>1, <1>3, <1>4 DEF Outstanding, Held
    <3>2. m.inner # s
      BY <2>2, <1>5 DEF InnerSeqIsKey
    <3>3. m.inner \in Seqs
      BY <3>1, OutstandingTyped
    <3>4. routeMap'[m.inner] = routeMap[m.inner]
      BY <1>2, <3>2, <3>3 DEF TypeOK
    <3>5. QED
      BY <1>6, <3>1, <3>4 DEF KeyInv
  <2>3. QED
    BY <2>1, <2>2
<1> QED
  BY <1>1, <1>6 DEF KeyInv, BodiesOwn

LEMMA ForwardKeepsKeys ==
  ASSUME TypeOK, KeyInv, NEW c \in ApiConn, Forward(c)
  PROVE  KeyInv'
<1>1. \A k \in ApiConn : Departing(k)' \subseteq Departing(k)
  BY DEF Forward, TypeOK, Departing
<1>2. \A d \in Device : \A m \in gwJobs'[d] : m \in gwJobs[d] \/ m \in Departing(c)
  BY DEF Forward, TypeOK, Departing
<1>3. Outstanding' \subseteq Outstanding
  BY <1>1, <1>2 DEF Outstanding, Held
<1> QED
  BY <1>3, QuietStepsKeepKeys DEF Forward, maps

LEMMA TakeRouteKeepsKeys ==
  ASSUME TypeOK, KeyInv, NEW g \in GwConn, NEW m, TakeRoute(g, m)
  PROVE  KeyInv'
<1>1. UNCHANGED <<apiOut, routing>>
  BY DEF TakeRoute, apiVars
<1>2. m \in Outstanding /\ m.inner \in Seqs
  BY DEF TakeRoute, TypeOK, Outstanding, Held, Msg
<1>3. \A k \in ApiConn : Departing(k)' = Departing(k)
  BY <1>1 DEF Departing
<1>4. Outstanding' \subseteq Outstanding
  BY <1>3 DEF TakeRoute, TypeOK, Outstanding, Held
<1>5. \A s \in Seqs : routeMap'[s] # NoRoute => routeMap'[s] = routeMap[s]
  BY <1>2 DEF TakeRoute, TypeOK
<1>6. \A h \in GwConn : delivering'[h] # Idle => delivering'[h].body = delivering'[h].rec.req
  BY <1>2 DEF TakeRoute, TypeOK, KeyInv
<1>7. \A k \in Outstanding' : routeMap'[k.inner] # NoRoute => routeMap'[k.inner].req = k.req
  BY <1>4, <1>5, OutstandingTyped DEF KeyInv
<1> QED
  BY <1>1, <1>6, <1>7 DEF KeyInv, BodiesOwn

LEMMA DeliverKeepsKeys ==
  ASSUME TypeOK, KeyInv, NEW g \in GwConn, Deliver(g)
  PROVE  KeyInv'
<1> DEFINE x == ReplyFor(delivering[g])
           c == apiMap[delivering[g].rec.peer]
<1>1. UNCHANGED <<gwJobs, routing, routeMap>>
  BY DEF Deliver, maps
<1>2. Outstanding' = Outstanding
  BY <1>1 DEF Outstanding, Held, Departing
<1>3. x \in Reply /\ x.body = x.origin /\ c \in ApiConn \cup {NoConn}
  <2>1. /\ delivering[g] \in Delivery /\ delivering[g].rec \in RouteRecord
        /\ delivering[g].body = delivering[g].rec.req
    BY DEF Deliver, TypeOK, KeyInv, Delivery
  <2>2. /\ delivering[g].rec.ext \in 1 .. MaxReq /\ delivering[g].rec.req \in Req
        /\ delivering[g].rec.peer \in Account
    BY <2>1 DEF RouteRecord
  <2>3. x \in Reply /\ x.body = x.origin
    BY <2>1, <2>2 DEF ReplyFor, Reply
  <2> QED
    BY <2>2, <2>3 DEF TypeOK
<1>4. \A h \in GwConn : delivering'[h] # Idle => delivering'[h] = delivering[h]
  BY DEF Deliver, TypeOK
<1>5. BodiesOwn'
  <2>1. CASE UNCHANGED apiOut
    BY <2>1 DEF KeyInv, BodiesOwn
  <2>2. CASE c # NoConn /\ apiOut' = [apiOut EXCEPT ![c] = Append(@, x)]
    <3> HIDE DEF x, c
    <3> QED
      BY <1>3, <2>2, WriteKeepsBodies DEF KeyInv
  <2>3. QED
    BY <2>1, <2>2 DEF Deliver
<1> QED
  BY <1>1, <1>2, <1>4, <1>5 DEF KeyInv

LEMMA OwnReplyKeepsKeys ==
  ASSUME TypeOK, KeyInv, NEW c \in ApiConn, NEW code \in {0, 404}, ReadRequest(c),
         apiOut' = [apiOut EXCEPT ![c] = Append(@, OwnReply(c, code))],
         UNCHANGED <<routing, delivering, gwJobs, routeMap>>
  PROVE  KeyInv'
<1>1. OwnReply(c, code) \in Reply
  BY NewReqType
<1>2. OwnReply(c, code).body = OwnReply(c, code).origin
  BY DEF OwnReply
<1>3. BodiesOwn'
  <2> DEFINE x == OwnReply(c, code)
  <2>1. x \in Reply /\ x.body = x.origin /\ apiOut' = [apiOut EXCEPT ![c] = Append(@, x)]
    BY <1>1, <1>2
  <2>2. BodiesOwn
    BY DEF KeyInv
  <2> HIDE DEF x
  <2>3. QED
    BY <2>1, <2>2, WriteKeepsBodies
<1>4. Outstanding' = Outstanding
  BY DEF Outstanding, Held, Departing
<1> QED
  BY <1>3, <1>4 DEF KeyInv

LEMMA FramedStepsKeepKeys ==
  ASSUME KeyInv, UNCHANGED <<apiOut, delivering, routeMap, routing, gwJobs>>
  PROVE  KeyInv'
<1>1. Outstanding' = Outstanding
  BY DEF Outstanding, Held, Departing
<1> QED
  BY <1>1 DEF KeyInv, BodiesOwn

LEMMA KeyInductive == TypeOK /\ KeyInv /\ InnerSeqIsKey' /\ [Next]_vars => KeyInv'
<1> SUFFICES ASSUME TypeOK, KeyInv, InnerSeqIsKey', [Next]_vars PROVE KeyInv'
  OBVIOUS
<1> USE DEF gwVars, apiVars, maps
<1>1. ASSUME NEW c \in ApiConn, ApiConnect(c) PROVE KeyInv'
  BY <1>1, FramedStepsKeepKeys DEF ApiConnect
<1>2. ASSUME NEW c \in ApiConn, NEW a \in Account, HandleAdminClientLogin(c, a) PROVE KeyInv'
  BY <1>2, FramedStepsKeepKeys DEF HandleAdminClientLogin
<1>3. ASSUME NEW c \in ApiConn, HandleFgwListReq(c) PROVE KeyInv'
  BY <1>3, OwnReplyKeepsKeys DEF HandleFgwListReq
<1>4. ASSUME NEW c \in ApiConn, NEW d \in Device, RefuseRequest(c, d) PROVE KeyInv'
  BY <1>4, OwnReplyKeepsKeys DEF RefuseRequest
<1>5. ASSUME NEW c \in ApiConn, NEW d \in Device, Lookup(c, d) PROVE KeyInv'
  <2>1. \A k \in ApiConn : Departing(k)' \subseteq Departing(k)
    BY <1>5 DEF Lookup, ReadRequest, TypeOK, Departing
  <2>2. Outstanding' \subseteq Outstanding
    BY <1>5, <2>1 DEF Lookup, Outstanding, Held
  <2>3. QED
    BY <1>5, <2>2, QuietStepsKeepKeys DEF Lookup
<1>6. ASSUME NEW c \in ApiConn, SaveRoute(c) PROVE KeyInv'
  BY <1>6, SaveRouteKeepsKeys
<1>7. ASSUME NEW c \in ApiConn, Forward(c) PROVE KeyInv'
  BY <1>7, ForwardKeepsKeys
<1>8. ASSUME NEW c \in ApiConn, ApiClose(c) PROVE KeyInv'
  BY <1>8, FramedStepsKeepKeys DEF ApiClose
<1>9. ASSUME NEW c \in ApiConn, ApiCloseListener(c) PROVE KeyInv'
  BY <1>9, FramedStepsKeepKeys DEF ApiCloseListener
<1>10. ASSUME NEW g \in GwConn, GwConnect(g) PROVE KeyInv'
  BY <1>10, FramedStepsKeepKeys DEF GwConnect
<1>11. ASSUME NEW g \in GwConn, NEW d \in Device, PushClientLogin(g, d) PROVE KeyInv'
  BY <1>11, FramedStepsKeepKeys DEF PushClientLogin
<1>12. ASSUME NEW g \in GwConn, GwClose(g) PROVE KeyInv'
  BY <1>12, FramedStepsKeepKeys DEF GwClose
<1>13. ASSUME NEW g \in GwConn, GwCloseListener(g) PROVE KeyInv'
  BY <1>13, FramedStepsKeepKeys DEF GwCloseListener
<1>14. ASSUME NEW g \in GwConn, NEW m, TakeRoute(g, m) PROVE KeyInv'
  BY <1>14, TakeRouteKeepsKeys
<1>15. ASSUME NEW g \in GwConn, Deliver(g) PROVE KeyInv'
  BY <1>15, DeliverKeepsKeys
<1>16. ASSUME NEW d \in Device, NEW m \in gwJobs[d], GwForget(d, m) PROVE KeyInv'
  <2>1. Outstanding' \subseteq Outstanding
    BY <1>16 DEF GwForget, TypeOK, Outstanding, Held, Departing
  <2>2. QED
    BY <1>16, <2>1, QuietStepsKeepKeys DEF GwForget
<1>17. CASE UNCHANGED vars
  BY <1>17, FramedStepsKeepKeys DEF vars
<1>18. ASSUME NEW c \in ApiConn, IgnoreRequest(c) PROVE KeyInv'
  BY <1>18, FramedStepsKeepKeys DEF IgnoreRequest
<1> QED
  BY <1>1, <1>2, <1>3, <1>4, <1>5, <1>6, <1>7, <1>8, <1>9, <1>10, <1>11, <1>12,
     <1>13, <1>14, <1>15, <1>16, <1>17, <1>18 DEF Next, ApiNext, GwNext

(* With the account and the number a reply is made out to, the request its *)
(* body answers is fixed but for the connection of an account with two.    *)
LEMMA BodiesOwnAnswersOwn ==
  ASSUME TypeOK, RepliesSolicited, BodiesOwn
  PROVE  AnswersOwnAccount
<1> SUFFICES ASSUME NEW c \in ApiConn, NEW i \in DOMAIN apiOut[c]
             PROVE  /\ apiOut[c][i].body.n = apiOut[c][i].seq
                    /\ apiAcct[apiOut[c][i].body.conn] = apiAcct[c]
                    /\ apiOut[c][i].body.conn = c \/ LoggedInTwice(c)
  BY DEF AnswersOwnAccount
<1>1. apiOut[c][i].body = apiOut[c][i].origin /\ apiOut[c][i].body.conn \in ApiConn
  BY RepliesTyped DEF BodiesOwn, Req
<1>2. /\ apiOut[c][i].body.n = apiOut[c][i].seq
      /\ apiAcct[apiOut[c][i].body.conn] = apiAcct[c]
  BY <1>1 DEF RepliesSolicited
<1> QED
  BY <1>1, <1>2 DEF LoggedInTwice

(* As long as no two outstanding requests travel under one inner sequence, *)
(* a reply's body is the answer to a request of its number and of its      *)
(* account, and of its connection too if the account logged in on no other.*)
THEOREM PushCorrelated == Spec => CorrelatedWhileKeysUnique
<1>1. Init => KeyInv
  <2> SUFFICES ASSUME Init PROVE KeyInv
    OBVIOUS
  <2>1. \A c \in ApiConn : DOMAIN apiOut[c] = {}
    BY DEF Init
  <2>2. Outstanding = {}
    BY OutstandingIs DEF Init, Departing
  <2>3. \A g \in GwConn : delivering[g] = Idle
    BY DEF Init
  <2>4. QED
    BY <2>1, <2>2, <2>3 DEF KeyInv, BodiesOwn
<1>2. TypeOK /\ ReplyInv /\ KeyInv => AnswersOwnAccount
  BY BodiesOwnAnswersOwn DEF KeyInv, ReplyInv
<1>3. QED
  BY <1>1, <1>2, KeyInductive, PushTypeCorrect, ReplyInvCorrect, PTL
     DEF Spec, CorrelatedWhileKeysUnique
-----------------------------------------------------------------------------
(* Numbers of one connection                                               *)

(* A connection sends no more requests than its generator has numbers.     *)
EnoughNumbers == MaxReq <= MaxSeq

(* There is one client, on one connection.                                 *)
OneClient == \A c1, c2 \in ApiConn : c1 = c2

(* A generator stays behind the requests it numbered, and what travels     *)
(* under a connection's number was numbered before, once.                  *)
Numbered ==
  /\ \A c \in ApiConn : idGen[c] <= lastReq[c] + 1
  /\ \A c \in ApiConn : routing[c] # Idle /\ routing[c].step = "found" => idGen[c] <= lastReq[c]
  /\ \A m \in Outstanding : m.inner < idGen[m.req.conn]

OwnKeys ==
  \A m1, m2 \in Outstanding : m1.inner = m2.inner /\ m1.req.conn = m2.req.conn => m1 = m2

NumberInv == Numbered /\ OwnKeys

(* A step that numbers nothing and sends nothing new out.                  *)
LEMMA UnnumberedKeeps ==
  ASSUME TypeOK, NumberInv, UNCHANGED idGen, Outstanding' \subseteq Outstanding,
         \A c \in ApiConn : lastReq'[c] \in {lastReq[c], lastReq[c] + 1},
         \A c \in ApiConn : routing'[c] # Idle /\ routing'[c].step = "found" =>
           routing'[c] = routing[c] \/ lastReq'[c] = lastReq[c] + 1
  PROVE  NumberInv'
<1>1. \A c \in ApiConn : idGen[c] \in Nat /\ lastReq[c] \in Nat
  BY DEF TypeOK
<1>2. \A c \in ApiConn : lastReq[c] <= lastReq'[c] /\ idGen'[c] = idGen[c]
  BY <1>1
<1>3. \A c \in ApiConn : idGen'[c] <= lastReq'[c] + 1
  BY <1>1 DEF NumberInv, Numbered
<1>4. ASSUME NEW c \in ApiConn, routing'[c] # Idle, routing'[c].step = "found"
      PROVE  idGen'[c] <= lastReq'[c]
  <2>1. CASE routing'[c] = routing[c]
    BY <1>1, <1>4, <2>1 DEF NumberInv, Numbered
  <2>2. CASE lastReq'[c] = lastReq[c] + 1
    BY <2>2 DEF NumberInv, Numbered
  <2> QED
    BY <1>4, <2>1, <2>2
<1>5. \A m \in Outstanding' : m.inner < idGen'[m.req.conn]
  BY DEF NumberInv, Numbered
<1>6. OwnKeys'
  BY DEF NumberInv, OwnKeys
<1> QED
  BY <1>3, <1>4, <1>5, <1>6 DEF NumberInv, Numbered

(* The number handed out is above every number of the connection.          *)
LEMMA SaveRouteNumbers ==
  ASSUME EnoughNumbers, TypeOK, HandlersTied, NumberInv, NEW c \in ApiConn, SaveRoute(c)
  PROVE  NumberInv'
<1> PICK r \in Req : r = routing[c].req
  BY DEF SaveRoute, TypeOK, Routing
<1> DEFINE n == [inner |-> idGen[c], req |-> r]
<1>1. r.conn = c /\ routing[c] # Idle /\ routing[c].step = "found"
  <2>1. routing[c] # Idle /\ routing[c].step = "found"
    BY DEF SaveRoute
  <2>2. r = [conn |-> c, n |-> lastReq[c]]
    BY <2>1 DEF HandlersTied
  <2> QED
    BY <2>1, <2>2
<1>2. /\ idGen[c] \in Nat /\ lastReq[c] \in 0 .. MaxReq /\ MaxSeq \in Nat /\ MaxReq \in Nat
      /\ idGen[c] <= lastReq[c]
  BY <1>1, PushServerAssumption DEF TypeOK, NumberInv, Numbered
<1>3. NextSeq(idGen[c]) = idGen[c]
  BY <1>2 DEF NextSeq, EnoughNumbers
<1>4. /\ idGen' = [idGen EXCEPT ![c] = idGen[c] + 1]
      /\ routing' = [routing EXCEPT ![c] =
           [step |-> "saved", req |-> r, gw |-> routing[c].gw, inner |-> idGen[c]]]
      /\ UNCHANGED <<lastReq, gwJobs>>
  BY <1>3 DEF SaveRoute, gwVars
<1>5. routing'[c].step = "saved" /\ routing'[c].req = r /\ routing'[c].inner = idGen[c]
  BY <1>4 DEF TypeOK
<1>6. Departing(c)' \subseteq {n}
  BY <1>5 DEF Departing
<1>7. \A k \in ApiConn : k # c => routing'[k] = routing[k] /\ Departing(k)' = Departing(k)
  BY <1>4 DEF TypeOK, Departing
<1>8. \A m \in Outstanding' : m \in Outstanding \/ m = n
  <2> HIDE DEF n
  <2>1. \A d \in Device : gwJobs'[d] = gwJobs[d]
    BY <1>4
  <2>2. \A k \in ApiConn : \A m \in Departing(k)' : m \in Departing(k) \/ m = n
    BY <1>6, <1>7
  <2> QED
    BY <2>1, <2>2 DEF Outstanding, Held
<1>9. n.inner = idGen[c] /\ n.req = r /\ n.req.conn = c
  BY <1>1
<1>10. \A k \in ApiConn : idGen'[k] = (IF k = c THEN idGen[c] + 1 ELSE idGen[k])
  BY <1>4 DEF TypeOK
<1>11. \A k \in ApiConn : idGen[k] \in Nat /\ lastReq[k] \in Nat
  BY DEF TypeOK
<1> HIDE DEF n
<1>12. \A m \in Outstanding : m.inner \in Nat /\ m.req.conn \in ApiConn /\ m.inner < idGen[m.req.conn]
  BY OutstandingTyped DEF NumberInv, Numbered, Seqs, Req
<1>13. \A m \in Outstanding' : m.inner < idGen'[m.req.conn]
  <2> SUFFICES ASSUME NEW m \in Outstanding' PROVE m.inner < idGen'[m.req.conn]
    OBVIOUS
  <2>1. CASE m = n
    BY <1>2, <1>9, <1>10, <2>1
  <2>2. CASE m \in Outstanding
    BY <1>10, <1>11, <1>12, <2>2
  <2> QED
    BY <1>8, <2>1, <2>2
<1>14. OwnKeys'
  <2> SUFFICES ASSUME NEW m1 \in Outstanding', NEW m2 \in Outstanding',
                      m1.inner = m2.inner, m1.req.conn = m2.req.conn
               PROVE  m1 = m2
    BY DEF OwnKeys
  <2>1. \A m \in Outstanding : ~(m.inner = n.inner /\ m.req.conn = n.req.conn)
    BY <1>2, <1>9, <1>12
  <2> QED
    BY <1>8, <2>1 DEF NumberInv, OwnKeys
<1>15. \A k \in ApiConn : idGen'[k] <= lastReq'[k] + 1
  BY <1>2, <1>4, <1>10 DEF NumberInv, Numbered
<1>16. \A k \in ApiConn : routing'[k] # Idle /\ routing'[k].step = "found" => idGen'[k] <= lastReq'[k]
  BY <1>4, <1>5, <1>7, <1>10 DEF NumberInv, Numbered
<1> QED
  BY <1>13, <1>14, <1>15, <1>16 DEF NumberInv, Numbered

LEMMA NumberInductive ==
  ASSUME EnoughNumbers, TiedInv, NumberInv, [Next]_vars
  PROVE  NumberInv'
<1> USE DEF TiedInv
<1> DEFINE Kept == /\ UNCHANGED idGen /\ Outstanding' \subseteq Outstanding
                   /\ UNCHANGED <<lastReq, routing>>
<1>1. Kept => NumberInv'
  BY UnnumberedKeeps
<1>2. ASSUME UNCHANGED <<idGen, lastReq, routing, gwJobs>> PROVE NumberInv'
  <2>1. Outstanding' = Outstanding
    BY <1>2 DEF Outstanding, Held, Departing
  <2> QED
    BY <1>1, <1>2, <2>1
<1>3. ASSUME NEW c \in ApiConn, ReadRequest(c), UNCHANGED <<idGen, gwJobs>>,
             \A k \in ApiConn : k # c => routing'[k] = routing[k],
             routing'[c] # Idle => routing'[c].step = "found"
      PROVE  NumberInv'
  <2>1. routing[c] = Idle /\ lastReq' = [lastReq EXCEPT ![c] = lastReq[c] + 1]
    BY <1>3 DEF ReadRequest
  <2>2. \A k \in ApiConn : Departing(k)' \subseteq Departing(k)
    BY <1>3, <2>1 DEF Departing
  <2>3. Outstanding' \subseteq Outstanding
    BY <1>3, <2>2 DEF Outstanding, Held
  <2>4. \A k \in ApiConn : lastReq'[k] = (IF k = c THEN lastReq[c] + 1 ELSE lastReq[k])
    BY <2>1 DEF TypeOK
  <2> QED
    BY <1>3, <2>3, <2>4, UnnumberedKeeps
<1>4. ASSUME NEW c \in ApiConn, ApiNext(c) PROVE NumberInv'
  <2>1. CASE ApiConnect(c) \/ ApiClose(c) \/ ApiCloseListener(c)
              \/ \E a \in Account : HandleAdminClientLogin(c, a)
    BY <1>2, <2>1 DEF ApiConnect, ApiClose, ApiCloseListener, HandleAdminClientLogin, gwVars
  <2>2. CASE IgnoreRequest(c) \/ HandleFgwListReq(c) \/ \E d \in Device : RefuseRequest(c, d)
    <3>1. ReadRequest(c) /\ UNCHANGED <<idGen, gwJobs, routing>>
      BY <2>2 DEF IgnoreRequest, HandleFgwListReq, RefuseRequest, gwVars
    <3>2. routing[c] = Idle
      BY <3>1 DEF ReadRequest
    <3> QED
      BY <1>3, <3>1, <3>2
  <2>3. CASE \E d \in Device : Lookup(c, d)
    <3>1. PICK d \in Device : Lookup(c, d)
      BY <2>3
    <3>2. /\ ReadRequest(c) /\ UNCHANGED <<idGen, gwJobs>>
          /\ \A k \in ApiConn : k # c => routing'[k] = routing[k]
          /\ routing'[c].step = "found"
      BY <3>1 DEF Lookup, gwVars, TypeOK
    <3> QED
      BY <1>3, <3>2
  <2>4. CASE SaveRoute(c)
    BY <2>4, SaveRouteNumbers
  <2>5. CASE Forward(c)
    <3>1. /\ UNCHANGED <<idGen, lastReq>>
          /\ \A k \in ApiConn : routing'[k] # Idle => routing'[k] = routing[k]
      BY <2>5 DEF Forward, TypeOK
    <3>2. \A k \in ApiConn : Departing(k)' \subseteq Departing(k)
      BY <3>1 DEF Departing
    <3>3. \A d \in Device : \A m \in gwJobs'[d] : m \in gwJobs[d] \/ m \in Departing(c)
      BY <2>5 DEF Forward, TypeOK, Departing
    <3>4. Outstanding' \subseteq Outstanding
      BY <3>2, <3>3 DEF Outstanding, Held
    <3> QED
      BY <3>1, <3>4, UnnumberedKeeps
  <2> QED
    BY <1>4, <2>1, <2>2, <2>3, <2>4, <2>5 DEF ApiNext
<1>5. ASSUME NEW g \in GwConn, NEW m, TakeRoute(g, m) PROVE NumberInv'
  <2>1. UNCHANGED <<idGen, lastReq, routing>> /\ \A d \in Device : gwJobs'[d] \subseteq gwJobs[d]
    BY <1>5 DEF TakeRoute, apiVars, TypeOK
  <2> QED
    BY <1>1, <2>1 DEF Outstanding, Held, Departing
<1>6. ASSUME NEW d \in Device, NEW m \in gwJobs[d], GwForget(d, m) PROVE NumberInv'
  <2>1. UNCHANGED <<idGen, lastReq, routing>> /\ \A e \in Device : gwJobs'[e] \subseteq gwJobs[e]
    BY <1>6 DEF GwForget, apiVars, TypeOK
  <2> QED
    BY <1>1, <2>1 DEF Outstanding, Held, Departing
<1>7. ASSUME NEW g \in GwConn, GwNext(g) PROVE NumberInv'
  <2>1. CASE \/ GwConnect(g) \/ GwClose(g) \/ GwCloseListener(g) \/ Deliver(g)
             \/ \E d \in Device : PushClientLogin(g, d)
    BY <1>2, <2>1 DEF GwConnect, GwClose, GwCloseListener, Deliver, PushClientLogin, apiVars
  <2> QED
    BY <1>5, <1>7, <2>1 DEF GwNext
<1>8. CASE UNCHANGED vars
  BY <1>2, <1>8 DEF vars, apiVars, gwVars
<1> QED
  BY <1>4, <1>6, <1>7, <1>8 DEF Next

LEMMA NumberCorrect ==
  ASSUME EnoughNumbers
  PROVE  Spec => []NumberInv
<1>1. Init => NumberInv
  <2> SUFFICES ASSUME Init PROVE NumberInv
    OBVIOUS
  <2>1. Outstanding = {}
    BY OutstandingIs DEF Init, Departing
  <2> QED
    BY <2>1 DEF Init, NumberInv, Numbered, OwnKeys
<1>2. TiedInv /\ NumberInv /\ [Next]_vars => NumberInv'
  BY NumberInductive
<1> QED
  BY <1>1, <1>2, TiedCorrect, PTL DEF Spec

(* On every connection that sends no more requests than there are numbers, *)
(* whatever the others do, no two requests are under way under one inner   *)
(* sequence: it takes two connections for their answers to be mixed up.    *)
THEOREM PushOwnKeys ==
  ASSUME EnoughNumbers
  PROVE  Spec => []OwnKeys
BY NumberCorrect, PTL DEF NumberInv

(* So if there is one connection, the inner sequence is the key of a       *)
(* request: convertAndRoute takes its generator's next for each.           *)
THEOREM PushInnerSeqIsKey ==
  ASSUME EnoughNumbers, OneClient
  PROVE  Spec => []InnerSeqIsKey
<1>1. TypeOK /\ NumberInv => InnerSeqIsKey
  <2> SUFFICES ASSUME TypeOK, NumberInv, NEW m1 \in Outstanding, NEW m2 \in Outstanding,
                      m1.inner = m2.inner
               PROVE  m1 = m2
    BY DEF InnerSeqIsKey
  <2>1. m1.req.conn \in ApiConn /\ m2.req.conn \in ApiConn
    BY OutstandingTyped DEF Req
  <2> QED
    BY <2>1 DEF OneClient, NumberInv, OwnKeys
<1> QED
  BY <1>1, NumberCorrect, PushTypeCorrect, PTL

(* and that client is given under each of its numbers the answer to the    *)
(* request it sent under it, in whatever order its gateways answer.        *)
THEOREM PushCorrelatedForOne ==
  ASSUME EnoughNumbers, OneClient
  PROVE  Spec => []Correlated
<1>1. TypeOK /\ AnswersOwnAccount => Correlated
  <2> SUFFICES ASSUME TypeOK, AnswersOwnAccount, NEW c \in ApiConn, NEW i \in DOMAIN apiOut[c]
               PROVE  apiOut[c][i].body = [conn |-> c, n |-> apiOut[c][i].seq]
    BY DEF Correlated
  <2>1. PICK b \in Req : b = apiOut[c][i].body
    BY RepliesTyped DEF Reply
  <2>2. b = [conn |-> b.conn, n |-> b.n] /\ b.conn \in ApiConn
    BY DEF Req
  <2>3. b.n = apiOut[c][i].seq
    BY <2>1 DEF AnswersOwnAccount
  <2> QED
    BY <2>1, <2>2, <2>3 DEF OneClient
<1> QED
  BY <1>1, PushInnerSeqIsKey, PushCorrelated, PushTypeCorrect, PTL DEF CorrelatedWhileKeysUnique
=============================================================================
