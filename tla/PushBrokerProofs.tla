--------------------------- MODULE PushBrokerProofs ---------------------------
(***************************************************************************)
(* The push server implements PushBroker, for any number of connections,   *)
(* requests and sequence numbers: every step moves at most one request,    *)
(* and in a way the broker allows, whatever else a replaced record or a    *)
(* lost connection does to it.                                             *)
(***************************************************************************)
EXTENDS MCPushServer, PushServerProofs, FiniteSetTheorems

BrokerStep == [Broker!Next]_(Broker!vars)

Unsent(r) == r.n > lastReq[r.conn]

(* The three places in which the server has a request in hand.             *)
Routed(r) == routing[r.conn] # Idle /\ routing[r.conn].req = r
Recorded(r) == \E s \in Seqs : routeMap[s] # NoRoute /\ routeMap[s].req = r
InDelivery(r) == \E g \in GwConn : delivering[g] # Idle /\ delivering[g].rec.req = r

LEMMA InHandIs == ASSUME NEW r PROVE InHand(r) <=> Routed(r) \/ Recorded(r) \/ InDelivery(r)
BY DEF InHand, Routed, Recorded, InDelivery


(* With at most one answer, the answers to a request are one or none.      *)
LEMMA CountIs ==
  ASSUME AtMostOneAnswer, NEW r
  PROVE  /\ RepliesTo(r) # {} <=> Answered(r)
         /\ Cardinality(RepliesTo(r)) = IF Answered(r) THEN 1 ELSE 0
<1>1. \A p : p \in RepliesTo(r) <=>
        \E c \in ApiConn : \E i \in DOMAIN apiOut[c] : apiOut[c][i].origin = r /\ p = <<c, i>>
  BY DEF RepliesTo
<1>2. RepliesTo(r) # {} <=> Answered(r)
  BY <1>1 DEF Answered
<1>3. CASE Answered(r)
  <2>1. PICK p : p \in RepliesTo(r)
    BY <1>2, <1>3
  <2>2. \A q \in RepliesTo(r) : q = p
    BY <1>1, <2>1 DEF AtMostOneAnswer
  <2>3. RepliesTo(r) = {p}
    BY <2>1, <2>2
  <2> QED
    BY <1>2, <1>3, <2>3, FS_Singleton
<1>4. CASE ~Answered(r)
  <2>1. RepliesTo(r) = {}
    BY <1>2, <1>4
  <2> QED
    BY <1>2, <1>4, <2>1, FS_EmptySet
<1> QED
  BY <1>3, <1>4

Phase(r) == IF Answered(r) THEN "answered"
            ELSE IF Unsent(r) THEN "unsent"
            ELSE IF Routed(r) \/ Recorded(r) \/ InDelivery(r) THEN "pending"
            ELSE "lost"

LEMMA PhaseIs == ASSUME AtMostOneAnswer, NEW r PROVE PhaseOf(r) = Phase(r)
BY CountIs, InHandIs DEF PhaseOf, Phase, Unsent

(* What the broker sees of a state.                                        *)
Seen ==
  /\ [r \in Req |-> PhaseOf(r)] = [r \in Req |-> Phase(r)]
  /\ [r \in Req |-> Cardinality(RepliesTo(r))] =
       [r \in Req |-> IF Phase(r) = "answered" THEN 1 ELSE 0]

LEMMA BrokerSees == AtMostOneAnswer => Seen
BY PhaseIs, CountIs DEF Phase, Seen

LEMMA BrokerSeesNext == AtMostOneAnswer' => Seen'
BY BrokerSees, PTL

(* How a request may move.                                                 *)
Moves(r) ==
  \/ Phase(r)' = Phase(r)
  \/ Phase(r) = "unsent" /\ Phase(r)' \in {"pending", "answered"}
  \/ Phase(r) = "pending" /\ Phase(r)' = "answered"
  \/ Phase(r) \in {"unsent", "pending"} /\ Phase(r)' = "lost"

(* A step that moves one request alone is one of the broker.               *)
LEMMA OneMoves ==
  ASSUME AtMostOneAnswer, AtMostOneAnswer', NEW x \in Req, Moves(x),
         \A r \in Req : r # x => Phase(r)' = Phase(r)
  PROVE  BrokerStep
<1> DEFINE phase == [r \in Req |-> Phase(r)]
           next == [r \in Req |-> Phase(r)']
           answers == [r \in Req |-> IF Phase(r) = "answered" THEN 1 ELSE 0]
           nextAnswers == [r \in Req |-> IF Phase(r)' = "answered" THEN 1 ELSE 0]
<1>1. /\ [r \in Req |-> PhaseOf(r)] = phase /\ [r \in Req |-> PhaseOf(r)]' = next
      /\ [r \in Req |-> Cardinality(RepliesTo(r))] = answers
      /\ [r \in Req |-> Cardinality(RepliesTo(r))]' = nextAnswers
  BY BrokerSees, BrokerSeesNext DEF Seen
<1>2. next = [phase EXCEPT ![x] = Phase(x)'] /\ phase[x] = Phase(x)
  OBVIOUS
<1>3. CASE Phase(x)' = Phase(x)
  <2>1. next = phase /\ nextAnswers = answers
    BY <1>3
  <2> HIDE DEF phase, next, answers, nextAnswers
  <2> QED
    BY <2>1, <1>1 DEF BrokerStep, Broker!vars
<1>4. CASE Phase(x) = "unsent" /\ Phase(x)' = "pending"
  <2>1. nextAnswers = answers
    BY <1>4
  <2> HIDE DEF phase, next, answers, nextAnswers
  <2> QED
    BY <1>1, <1>2, <1>4, <2>1 DEF BrokerStep, Broker!Next, Broker!Accept
<1>5. CASE Phase(x) \in {"unsent", "pending"} /\ Phase(x)' = "answered"
  <2>1. answers[x] = 0
    BY <1>5
  <2>2. answers[x] + 1 = 1
    BY <2>1
  <2>3. nextAnswers = [answers EXCEPT ![x] = 1]
    BY <1>5
  <2> HIDE DEF phase, next, answers, nextAnswers
  <2>4. nextAnswers = [answers EXCEPT ![x] = answers[x] + 1]
    BY <2>2, <2>3
  <2> QED
    BY <1>1, <1>2, <1>5, <2>4 DEF BrokerStep, Broker!Next, Broker!Answer
<1>6. CASE Phase(x) \in {"unsent", "pending"} /\ Phase(x)' = "lost"
  <2>1. nextAnswers = answers
    BY <1>6
  <2> HIDE DEF phase, next, answers, nextAnswers
  <2> QED
    BY <1>1, <1>2, <1>6, <2>1 DEF BrokerStep, Broker!Next, Broker!Lose
<1> QED
  BY <1>3, <1>4, <1>5, <1>6 DEF Moves

LEMMA NoneMoves ==
  ASSUME AtMostOneAnswer, AtMostOneAnswer', \A r \in Req : Phase(r)' = Phase(r)
  PROVE  BrokerStep
<1>1. [r \in Req |-> Phase(r)'] = [r \in Req |-> Phase(r)]
  OBVIOUS
<1>2. [r \in Req |-> IF Phase(r)' = "answered" THEN 1 ELSE 0] =
        [r \in Req |-> IF Phase(r) = "answered" THEN 1 ELSE 0]
  OBVIOUS
<1> QED
  BY <1>1, <1>2, BrokerSees, BrokerSeesNext DEF Seen, BrokerStep, Broker!vars

-----------------------------------------------------------------------------
(* What a step does to the parts a request's phase is made of.             *)

SameParts(r) ==
  /\ Answered(r)' <=> Answered(r)
  /\ Unsent(r)' <=> Unsent(r)
  /\ (Routed(r) \/ Recorded(r) \/ InDelivery(r))' <=> Routed(r) \/ Recorded(r) \/ InDelivery(r)

LEMMA SamePartsSamePhase == ASSUME NEW r, SameParts(r) PROVE Phase(r)' = Phase(r)
BY DEF SameParts, Phase

(* What the server has in hand it can only lose, if nothing is read and    *)
(* nothing is written.                                                     *)
LEMMA InHandKeptOrLost ==
  ASSUME NEW r, Routed(r) \/ Recorded(r) \/ InDelivery(r), UNCHANGED <<apiOut, lastReq>>
  PROVE  Moves(r)
<1>1. (Answered(r)' <=> Answered(r)) /\ (Unsent(r)' <=> Unsent(r))
  BY DEF Answered, Unsent
<1> QED
  BY <1>1 DEF Moves, Phase

(* A write answers the request its reply is made out to, and no other.     *)
LEMMA WriteAnswers ==
  ASSUME TypeOK, NEW c \in ApiConn, NEW x \in Reply,
         apiOut' = [apiOut EXCEPT ![c] = Append(@, x)]
  PROVE  \A r : Answered(r)' <=> Answered(r) \/ r = x.origin
<1>1. \A k \in ApiConn : \A i \in DOMAIN apiOut'[k] :
        \/ i \in DOMAIN apiOut[k] /\ apiOut'[k][i] = apiOut[k][i]
        \/ k = c /\ i = Len(apiOut[c]) + 1 /\ apiOut'[k][i] = x
  BY WritePositions
<1>2. apiOut[c] \in Seq(Reply) /\ apiOut'[c] = Append(apiOut[c], x)
  BY DEF TypeOK
<1>3. \A i \in DOMAIN apiOut[c] : i \in DOMAIN apiOut'[c] /\ apiOut'[c][i] = apiOut[c][i]
  BY <1>2
<1>4. \A k \in ApiConn : k # c => apiOut'[k] = apiOut[k]
  BY DEF TypeOK
<1>5. Len(apiOut[c]) + 1 \in DOMAIN apiOut'[c] /\ apiOut'[c][Len(apiOut[c]) + 1] = x
  BY <1>2
<1> SUFFICES ASSUME NEW r PROVE Answered(r)' <=> Answered(r) \/ r = x.origin
  OBVIOUS
<1>6. Answered(r)' => Answered(r) \/ r = x.origin
  BY <1>1 DEF Answered
<1>7. Answered(r) => Answered(r)'
  BY <1>3, <1>4 DEF Answered
<1>8. r = x.origin => Answered(r)'
  BY <1>5 DEF Answered
<1> QED
  BY <1>6, <1>7, <1>8

(* Reading a request makes it known, and no other.                         *)
LEMMA ReadingSends ==
  ASSUME TypeOK, NEW c \in ApiConn, ReadRequest(c), NEW r \in Req
  PROVE  /\ r = NewReq(c) => Unsent(r) /\ ~Unsent(r)'
         /\ r # NewReq(c) => (Unsent(r)' <=> Unsent(r))
<1>1. lastReq[c] \in Nat /\ lastReq' = [lastReq EXCEPT ![c] = lastReq[c] + 1]
      /\ lastReq \in [ApiConn -> 0 .. MaxReq]
  BY DEF TypeOK, ReadRequest
<1>2. r.conn \in ApiConn /\ r.n \in Nat /\ r = [conn |-> r.conn, n |-> r.n]
  BY DEF Req
<1>3. CASE r = NewReq(c)
  <2>1. r.conn = c /\ r.n = lastReq[c] + 1
    BY <1>3 DEF NewReq
  <2> QED
    BY <1>1, <1>3, <2>1 DEF Unsent
<1>4. CASE r # NewReq(c) /\ r.conn # c
  BY <1>1, <1>2, <1>4 DEF Unsent
<1>5. CASE r # NewReq(c) /\ r.conn = c
  <2>1. r.n # lastReq[c] + 1
    BY <1>2, <1>5 DEF NewReq
  <2> QED
    BY <1>1, <1>2, <1>5, <2>1 DEF Unsent
<1> QED
  BY <1>3, <1>4, <1>5

(* Nothing is known of a request that was not read: in no place.           *)
LEMMA UnsentNowhere ==
  ASSUME TiedInv, ReplyInv, NEW r \in Req, Unsent(r)
  PROVE  ~Answered(r) /\ ~Routed(r) /\ ~Recorded(r) /\ ~InDelivery(r)
<1> USE DEF TiedInv, ReplyInv
<1>1. lastReq[r.conn] \in Nat /\ r.n \in Nat /\ r.conn \in ApiConn
  BY DEF TypeOK, Req
<1>2. ~Answered(r)
  BY <1>1 DEF Answered, RepliesSolicited, Unsent
<1>3. ~Routed(r)
  <2>1. ASSUME Routed(r) PROVE r.n = lastReq[r.conn]
    <3>1. r = [conn |-> r.conn, n |-> lastReq[r.conn]]
      BY <1>1, <2>1 DEF Routed, HandlersTied
    <3> QED
      BY <3>1
  <2> QED
    BY <1>1, <2>1 DEF Unsent
<1>4. ~Recorded(r)
  BY <1>1 DEF Recorded, Provenance, RecordOK, Unsent
<1>5. ~InDelivery(r)
  BY <1>1 DEF InDelivery, Provenance, RecordOK, Unsent
<1> QED
  BY <1>2, <1>3, <1>4, <1>5

-----------------------------------------------------------------------------
(* The steps of the server                                                 *)

LEMMA QuietStep ==
  ASSUME ReplyInv, ReplyInv', UNCHANGED <<apiOut, lastReq, routing, routeMap, delivering>>
  PROVE  BrokerStep
<1>1. \A r \in Req : SameParts(r)
  BY DEF SameParts, Answered, Unsent, Routed, Recorded, InDelivery
<1> QED
  BY <1>1, SamePartsSamePhase, NoneMoves DEF ReplyInv

LEMMA OwnReplyAnswers ==
  ASSUME TypeOK, NEW c \in ApiConn, NEW code, OwnReply(c, code) \in Reply,
         apiOut' = [apiOut EXCEPT ![c] = Append(@, OwnReply(c, code))]
  PROVE  \A r : Answered(r)' <=> Answered(r) \/ r = OwnReply(c, code).origin
BY WriteAnswers

(* A reply on the spot.                                                    *)
LEMMA OwnReplyStep ==
  ASSUME TiedInv, ReplyInv, ReplyInv', NEW c \in ApiConn, NEW code, ReadRequest(c), OwnReply(c, code) \in Reply,
         apiOut' = [apiOut EXCEPT ![c] = Append(@, OwnReply(c, code))],
         UNCHANGED <<routing, delivering, routeMap>>
  PROVE  BrokerStep
<1> USE DEF TiedInv
<1>1. PICK x \in Req : x = NewReq(c)
  BY NewReqType
<1>2. OwnReply(c, code) \in Reply /\ OwnReply(c, code).origin = x
  BY <1>1, NewReqType DEF OwnReply
<1>3. \A r : Answered(r)' <=> Answered(r) \/ r = x
  BY <1>2, OwnReplyAnswers
<1>4. Moves(x)
  BY <1>1, <1>3, ReadingSends, UnsentNowhere DEF Moves, Phase
<1>5. \A r \in Req : r # x => SameParts(r)
  BY <1>1, <1>3, ReadingSends DEF SameParts, Routed, Recorded, InDelivery
<1> QED
  BY <1>4, <1>5, SamePartsSamePhase, OneMoves DEF ReplyInv

(* A request without its sub-message is lost as soon as it is read.        *)
LEMMA IgnoreStep ==
  ASSUME TiedInv, ReplyInv, ReplyInv', NEW c \in ApiConn, IgnoreRequest(c)
  PROVE  BrokerStep
<1> USE DEF TiedInv
<1>1. ReadRequest(c) /\ UNCHANGED <<apiOut, routing, delivering, routeMap>>
  BY DEF IgnoreRequest, gwVars, maps
<1>2. PICK x \in Req : x = NewReq(c)
  BY <1>1, NewReqType
<1>3. \A r : Answered(r)' <=> Answered(r)
  BY <1>1 DEF Answered
<1>4. ~Routed(x)' /\ ~Recorded(x)' /\ ~InDelivery(x)'
  BY <1>1, <1>2, ReadingSends, UnsentNowhere DEF Routed, Recorded, InDelivery
<1>5. Moves(x)
  BY <1>1, <1>2, <1>3, <1>4, ReadingSends, UnsentNowhere DEF Moves, Phase
<1>6. \A r \in Req : r # x => SameParts(r)
  BY <1>1, <1>2, <1>3, ReadingSends DEF SameParts, Routed, Recorded, InDelivery
<1> QED
  BY <1>5, <1>6, SamePartsSamePhase, OneMoves DEF ReplyInv

(* The handler takes a request in hand.                                    *)
LEMMA LookupStep ==
  ASSUME TiedInv, ReplyInv, ReplyInv', NEW c \in ApiConn, NEW d \in Device, Lookup(c, d)
  PROVE  BrokerStep
<1> USE DEF TiedInv
<1>1. ReadRequest(c) /\ UNCHANGED <<apiOut, delivering, routeMap>>
  BY DEF Lookup, gwVars, maps
<1>2. PICK x \in Req : x = NewReq(c)
  BY <1>1, NewReqType
<1>3. routing[c] = Idle
  BY <1>1 DEF ReadRequest
<1>4. /\ routing'[c].req = x
      /\ \A k \in ApiConn : k # c => routing'[k] = routing[k]
  BY <1>2 DEF Lookup, TypeOK
<1>5. \A r : Answered(r)' <=> Answered(r)
  BY <1>1 DEF Answered
<1>6. x.conn = c
  BY <1>2 DEF NewReq
<1>7. Routed(x)'
  <2>1. routing'[c] \in Routing
    BY <1>1, <1>2, NewReqType DEF Lookup, Routing, TypeOK
  <2> QED
    BY <2>1, <1>4, <1>6, PushServerAssumption DEF Routed
<1>8. Moves(x)
  BY <1>1, <1>2, <1>5, <1>7, ReadingSends, UnsentNowhere DEF Moves, Phase
<1>9. ASSUME NEW r \in Req, r # x PROVE SameParts(r)
  <2>1. r.conn \in ApiConn
    BY DEF Req
  <2>2. Routed(r)' <=> Routed(r)
    BY <1>3, <1>4, <1>9, <2>1 DEF Routed
  <2> QED
    BY <1>1, <1>2, <1>5, <1>9, <2>2, ReadingSends DEF SameParts, Recorded, InDelivery
<1> QED
  BY <1>8, <1>9, SamePartsSamePhase, OneMoves DEF ReplyInv

(* put() can only lose the request whose record it replaces.               *)
LEMMA SaveRouteStep ==
  ASSUME TiedInv, ReplyInv, ReplyInv', NEW c \in ApiConn, SaveRoute(c)
  PROVE  BrokerStep
<1> DEFINE s == NextSeq(idGen[c])
<1> USE DEF TiedInv
<1>1. UNCHANGED <<apiOut, lastReq, delivering>>
  BY DEF SaveRoute, gwVars
<1>2. s \in Seqs /\ routeMap' = [routeMap EXCEPT ![s] = RouteFor(c, routing[c].req)]
  BY NextSeqRange DEF SaveRoute, TypeOK
<1>3. routing'[c] # Idle /\ routing'[c].req = routing[c].req /\ routing[c] # Idle
  <2>1. s \in Seqs /\ routing[c] \in Routing
    BY <1>2 DEF SaveRoute, TypeOK
  <2>2. routing'[c] = [step |-> "saved", req |-> routing[c].req, gw |-> routing[c].gw, inner |-> s]
    BY DEF SaveRoute, TypeOK
  <2>3. routing'[c] \in Routing
    BY <2>1, <2>2 DEF Routing
  <2> QED
    BY <2>2, <2>3, PushServerAssumption DEF SaveRoute
<1>4. \A k \in ApiConn : k # c => routing'[k] = routing[k]
  BY DEF SaveRoute, TypeOK
<1>5. \A r \in Req : Routed(r)' <=> Routed(r)
  BY <1>3, <1>4 DEF Routed, Req
<1>6. routing[c].req.conn = c
  <2>1. routing[c].req = [conn |-> c, n |-> lastReq[c]]
    BY <1>3 DEF HandlersTied
  <2> QED
    BY <2>1
<1>7. Routed(routing[c].req)
  BY <1>3, <1>6 DEF Routed
<1>8. RouteFor(c, routing[c].req).req = routing[c].req
  BY DEF RouteFor
<1>9. ASSUME NEW r \in Req, routeMap[s] = NoRoute \/ routeMap[s].req # r
      PROVE  SameParts(r)
  <2>1. Recorded(r) => Recorded(r)'
    BY <1>2, <1>9 DEF Recorded, TypeOK
  <2>2. Recorded(r)' => Recorded(r) \/ r = routing[c].req
    BY <1>2, <1>8 DEF Recorded, TypeOK
  <2> QED
    BY <1>1, <1>5, <1>7, <2>1, <2>2 DEF SameParts, Answered, Unsent, InDelivery
<1>10. CASE routeMap[s] = NoRoute
  BY <1>9, <1>10, SamePartsSamePhase, NoneMoves DEF ReplyInv
<1>11. CASE routeMap[s] # NoRoute
  <2>1. PICK x \in Req : x = routeMap[s].req
    BY <1>2, <1>11 DEF TypeOK, RouteRecord
  <2>2. Recorded(x)
    BY <1>2, <1>11, <2>1 DEF Recorded
  <2>3. Moves(x)
    BY <1>1, <2>2, InHandKeptOrLost
  <2> QED
    BY <1>9, <2>1, <2>3, SamePartsSamePhase, OneMoves DEF ReplyInv
<1> QED
  BY <1>10, <1>11

(* The handler lets go of the request.                                     *)
LEMMA ForwardStep ==
  ASSUME TiedInv, ReplyInv, ReplyInv', NEW c \in ApiConn, Forward(c)
  PROVE  BrokerStep
<1> USE DEF TiedInv
<1>1. UNCHANGED <<apiOut, lastReq, delivering, routeMap>>
  BY DEF Forward, maps
<1>2. routing[c] # Idle /\ routing' = [routing EXCEPT ![c] = Idle]
  BY DEF Forward
<1>3. PICK x \in Req : x = routing[c].req
  BY <1>2 DEF TypeOK, Routing
<1>4. x.conn = c
  <2>1. x = [conn |-> c, n |-> lastReq[c]]
    BY <1>2, <1>3 DEF HandlersTied
  <2> QED
    BY <2>1
<1>5. Moves(x)
  BY <1>1, <1>2, <1>3, <1>4, InHandKeptOrLost DEF Routed
<1>6. ASSUME NEW r \in Req, r # x PROVE SameParts(r)
  <2>1. Routed(r)' <=> Routed(r)
    BY <1>2, <1>3, <1>6 DEF Routed, Req, TypeOK
  <2> QED
    BY <1>1, <2>1 DEF SameParts, Answered, Unsent, Recorded, InDelivery
<1> QED
  BY <1>5, <1>6, SamePartsSamePhase, OneMoves DEF ReplyInv

(* remove() passes the record on.                                          *)
LEMMA TakeRouteStep ==
  ASSUME TiedInv, ReplyInv, ReplyInv', NEW g \in GwConn, NEW m, TakeRoute(g, m)
  PROVE  BrokerStep
<1> USE DEF TiedInv
<1>1. UNCHANGED <<apiOut, lastReq, routing>>
  BY DEF TakeRoute, apiVars
<1>2. m.inner \in Seqs /\ routeMap' = [routeMap EXCEPT ![m.inner] = NoRoute]
  BY DEF TakeRoute, TypeOK, Msg
<1>3. delivering[g] = Idle
  BY DEF TakeRoute
<1>4. CASE routeMap[m.inner] = NoRoute
  <2>1. UNCHANGED <<routeMap, delivering>>
    BY <1>2, <1>4 DEF TakeRoute, TypeOK
  <2> QED
    BY <1>1, <2>1, QuietStep
<1>5. CASE routeMap[m.inner] # NoRoute
  <2>1. PICK x \in Req : x = routeMap[m.inner].req
    BY <1>2, <1>5 DEF TypeOK, RouteRecord
  <2>2. Moves(x)
    BY <1>1, <1>2, <1>5, <2>1, InHandKeptOrLost DEF Recorded
  <2>3. delivering' = [delivering EXCEPT ![g] = [rec |-> routeMap[m.inner], body |-> m.req]]
    BY <1>5 DEF TakeRoute
  <2>4. ASSUME NEW r \in Req, r # x PROVE SameParts(r)
    <3>1. Recorded(r)' <=> Recorded(r)
      BY <1>2, <2>1, <2>4 DEF Recorded, TypeOK
    <3>2. InDelivery(r)' <=> InDelivery(r)
      BY <1>3, <2>1, <2>3, <2>4 DEF InDelivery, TypeOK
    <3> QED
      BY <1>1, <3>1, <3>2 DEF SameParts, Answered, Unsent, Routed
  <2> QED
    BY <2>2, <2>4, SamePartsSamePhase, OneMoves DEF ReplyInv
<1> QED
  BY <1>4, <1>5

(* The answer is written, or dropped.                                      *)
LEMMA DeliverStep ==
  ASSUME TiedInv, ReplyInv, ReplyInv', NEW g \in GwConn, Deliver(g)
  PROVE  BrokerStep
<1> DEFINE del == delivering[g]
           c == apiMap[del.rec.peer]
<1> USE DEF TiedInv
<1>1. UNCHANGED <<lastReq, routing, routeMap>>
  BY DEF Deliver, maps
<1>2. del # Idle /\ del \in Delivery /\ delivering' = [delivering EXCEPT ![g] = Idle]
  BY DEF Deliver, TypeOK
<1>3. PICK x \in Req : x = del.rec.req
  BY <1>2 DEF Delivery, RouteRecord
<1>4. InDelivery(x)
  BY <1>2, <1>3 DEF InDelivery
<1>5. \A r \in Req : r # x => (InDelivery(r)' <=> InDelivery(r))
  BY <1>2, <1>3 DEF InDelivery, TypeOK
<1>6. CASE ~(c # NoConn /\ apiLink[c] = "open")
  <2>1. UNCHANGED apiOut
    BY <1>6 DEF Deliver
  <2>2. Moves(x)
    BY <1>1, <1>4, <2>1, InHandKeptOrLost
  <2>3. \A r \in Req : r # x => SameParts(r)
    BY <1>1, <1>5, <2>1 DEF SameParts, Answered, Unsent, Routed, Recorded
  <2> QED
    BY <2>2, <2>3, SamePartsSamePhase, OneMoves DEF ReplyInv
<1>7. CASE c # NoConn /\ apiLink[c] = "open"
  <2>1. ReplyFor(del) \in Reply /\ ReplyFor(del).origin = x /\ del.rec.peer \in Account
    BY <1>2, <1>3 DEF Delivery, RouteRecord, ReplyFor, Reply
  <2>2. c \in ApiConn
    BY <1>7, <2>1 DEF TypeOK
  <2>3. apiOut' = [apiOut EXCEPT ![c] = Append(apiOut[c], ReplyFor(del))]
    BY <1>7 DEF Deliver
  <2>4. \A r : Answered(r)' <=> Answered(r) \/ r = x
    <3> HIDE DEF c, del
    <3> QED
      BY <2>1, <2>2, <2>3, WriteAnswers
  <2>5. ~Answered(x)
    BY <1>2, <1>3 DEF Answered, ReplyInv, OnePlace
  <2>6. ~Unsent(x)
    BY <1>4, UnsentNowhere
  <2>7. Moves(x)
    BY <1>4, <2>4, <2>5, <2>6 DEF Moves, Phase
  <2>8. \A r \in Req : r # x => SameParts(r)
    BY <1>1, <1>5, <2>4 DEF SameParts, Unsent, Routed, Recorded
  <2> QED
    BY <2>7, <2>8, SamePartsSamePhase, OneMoves DEF ReplyInv
<1> QED
  BY <1>6, <1>7

LEMMA ServerStep ==
  ASSUME TiedInv, ReplyInv, ReplyInv', [Next]_vars
  PROVE  BrokerStep
<1>1. ASSUME NEW c \in ApiConn, ApiConnect(c) PROVE BrokerStep
  BY <1>1, QuietStep DEF ApiConnect, gwVars, maps
<1>2. ASSUME NEW c \in ApiConn, NEW a \in Account, HandleAdminClientLogin(c, a) PROVE BrokerStep
  BY <1>2, QuietStep DEF HandleAdminClientLogin, gwVars
<1>3. ASSUME NEW c \in ApiConn, HandleFgwListReq(c) PROVE BrokerStep
  BY <1>3, NewReqType, OwnReplyStep DEF TiedInv, HandleFgwListReq, gwVars, maps
<1>4. ASSUME NEW c \in ApiConn, NEW d \in Device, RefuseRequest(c, d) PROVE BrokerStep
  <2>1. /\ ReadRequest(c) /\ apiOut' = [apiOut EXCEPT ![c] = Append(@, OwnReply(c, 404))]
        /\ UNCHANGED <<routing, delivering, routeMap>>
    BY <1>4 DEF RefuseRequest, gwVars, maps
  <2>2. OwnReply(c, 404) \in Reply
    BY <2>1, NewReqType DEF TiedInv
  <2> QED
    BY <2>1, <2>2, OwnReplyStep
<1>5. ASSUME NEW c \in ApiConn, NEW d \in Device, Lookup(c, d) PROVE BrokerStep
  BY <1>5, LookupStep
<1>6. ASSUME NEW c \in ApiConn, SaveRoute(c) PROVE BrokerStep
  BY <1>6, SaveRouteStep
<1>7. ASSUME NEW c \in ApiConn, Forward(c) PROVE BrokerStep
  BY <1>7, ForwardStep
<1>8. ASSUME NEW c \in ApiConn, ApiClose(c) PROVE BrokerStep
  BY <1>8, QuietStep DEF ApiClose, gwVars, maps
<1>9. ASSUME NEW c \in ApiConn, ApiCloseListener(c) PROVE BrokerStep
  BY <1>9, QuietStep DEF ApiCloseListener, gwVars
<1>10. ASSUME NEW g \in GwConn, GwConnect(g) PROVE BrokerStep
  BY <1>10, QuietStep DEF GwConnect, apiVars, maps
<1>11. ASSUME NEW g \in GwConn, NEW d \in Device, PushClientLogin(g, d) PROVE BrokerStep
  BY <1>11, QuietStep DEF PushClientLogin, apiVars
<1>12. ASSUME NEW g \in GwConn, GwClose(g) PROVE BrokerStep
  BY <1>12, QuietStep DEF GwClose, apiVars, maps
<1>13. ASSUME NEW g \in GwConn, GwCloseListener(g) PROVE BrokerStep
  BY <1>13, QuietStep DEF GwCloseListener, apiVars
<1>14. ASSUME NEW g \in GwConn, NEW m, TakeRoute(g, m) PROVE BrokerStep
  BY <1>14, TakeRouteStep
<1>15. ASSUME NEW g \in GwConn, Deliver(g) PROVE BrokerStep
  BY <1>15, DeliverStep
<1>16. ASSUME NEW d \in Device, NEW m \in gwJobs[d], GwForget(d, m) PROVE BrokerStep
  BY <1>16, QuietStep DEF GwForget, apiVars, maps
<1>17. CASE UNCHANGED vars
  BY <1>17, QuietStep DEF vars, apiVars, gwVars, maps
<1>18. ASSUME NEW c \in ApiConn, IgnoreRequest(c) PROVE BrokerStep
  BY <1>18, IgnoreStep
<1> HIDE DEF BrokerStep
<1> QED
  BY <1>1, <1>2, <1>3, <1>4, <1>5, <1>6, <1>7, <1>8, <1>9, <1>10, <1>11, <1>12,
     <1>13, <1>14, <1>15, <1>16, <1>17, <1>18 DEF Next, ApiNext, GwNext

LEMMA ServerStart == Init /\ TiedInv /\ ReplyInv => Broker!Init
<1> SUFFICES ASSUME Init, TiedInv, ReplyInv PROVE Broker!Init
  OBVIOUS
<1>1. \A r \in Req : Unsent(r)
  BY DEF Init, Unsent, Req
<1>2. \A r \in Req : Phase(r) = "unsent"
  BY <1>1, UnsentNowhere DEF Phase
<1>3. /\ [r \in Req |-> Phase(r)] = [r \in Req |-> "unsent"]
      /\ [r \in Req |-> IF Phase(r) = "answered" THEN 1 ELSE 0] = [r \in Req |-> 0]
  BY <1>2
<1> QED
  BY <1>3, BrokerSees DEF Broker!Init, Seen, ReplyInv

(* The push server keeps the broker's promise whatever the number of       *)
(* clients, gateways and sequence numbers: every request is answered at    *)
(* most once, and what was answered or lost does not come back, although   *)
(* convertAndRoute's put() replaces records and handlers run concurrently. *)
THEOREM PushImplementsBroker == Spec => ImplementsBroker
<1>1. TiedInv /\ ReplyInv /\ ReplyInv' /\ [Next]_vars => [Broker!Next]_(Broker!vars)
  BY ServerStep DEF BrokerStep
<1> QED
  BY <1>1, ServerStart, TiedCorrect, ReplyInvCorrect, PTL DEF Spec, ImplementsBroker, Broker!Spec
=============================================================================
