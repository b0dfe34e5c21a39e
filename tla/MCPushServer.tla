----------------------------- MODULE MCPushServer -----------------------------
(* Instances of PushServer for TLC, and its refinement of PushBroker.        *)
EXTENDS PushServer, FiniteSets

RepliesTo(r) ==
  UNION {{<<c, i>> : i \in {j \in DOMAIN apiOut[c] : apiOut[c][j].origin = r}} : c \in ApiConn}

(* The server still has the request in hand: its handler is routing it,    *)
(* its record is in the map or an answer to it is on the way.              *)
InHand(r) ==
  \/ routing[r.conn] # Idle /\ routing[r.conn].req = r
  \/ \E s \in Seqs : routeMap[s] # NoRoute /\ routeMap[s].req = r
  \/ \E g \in GwConn : delivering[g] # Idle /\ delivering[g].rec.req = r

PhaseOf(r) ==
  IF RepliesTo(r) # {} THEN "answered"
  ELSE IF r.n > lastReq[r.conn] THEN "unsent"
  ELSE IF InHand(r) THEN "pending"
  ELSE "lost"

Broker == INSTANCE PushBroker WITH
  Request <- Req,
  phase   <- [r \in Req |-> PhaseOf(r)],
  answers <- [r \in Req |-> Cardinality(RepliesTo(r))]

(* The push server keeps the broker's promise: a request is answered at    *)
(* most once, and none comes back after its record was overwritten, its    *)
(* answer dropped or its gateway lost.                                     *)
ImplementsBroker == Broker!Spec

=============================================================================
