----------------------------- MODULE PairingProofs -----------------------------
(***************************************************************************)
(* The super router implements Pairing, for any number of connections,     *)
(* tokens, sessions and event loops: every step of a handler, a task, a    *)
(* timer or a channel is one of Pairing's or changes nothing it speaks of. *)
(***************************************************************************)
EXTENDS SuperRouterProofs

(* A pipeline is emptied only when its channel is down.                    *)
GoneIsDown == \A c \in Conn : pipe[c] = "gone" => link[c] = "down"

(* A channel that is down stays down.                                      *)
LEMMA GoneInductive == TypeOK /\ HandlerTied /\ GoneIsDown /\ [Next]_vars => GoneIsDown'
<1> SUFFICES ASSUME TypeOK, HandlerTied, GoneIsDown, [Next]_vars PROVE GoneIsDown'
  OBVIOUS
<1>1. CASE \/ \E t \in Token : Allocate(t) \/ TimerFinds(t)
           \/ TimerRemoves
           \/ \E c \in Conn : Publish(c)
           \/ UNCHANGED vars
  BY <1>1, QuietSteps DEF GoneIsDown
<1>2. CASE \E c \in Conn : Accept(c) \/ Close(c)
  BY <1>2 DEF Accept, Close, GoneIsDown, TypeOK, Up
<1>3. CASE \E c \in Conn : Inactive(c)
  BY <1>3 DEF Inactive, GoneIsDown, TypeOK
<1>4. CASE \E c \in Conn : Teardown(c)
  BY <1>4 DEF Teardown, GoneIsDown, TypeOK
<1>5. CASE \E c \in Conn, t \in Token, r \in Role : Connect(c, t, r)
  BY <1>5 DEF Connect, GoneIsDown, chanVars
<1>6. ASSUME NEW c \in Conn, Process(c) PROVE GoneIsDown'
  <2>1. \A d \in Conn : pipe'[d] = "gone" => pipe[d] = "gone"
    BY <1>6 DEF Process, Claim, ClaimFails, CheckAlone, CheckBoth, UnhookThrows, UnhookNow, UnhookWaits,
       RunRemove, Hook, Respond, CloseSession, Return, TypeOK, chanVars
  <2>2. \A d \in Conn : link[d] = "down" => link'[d] = "down"
    BY <1>6, HandlerSteps DEF ClaimFails, HandlerTied, Process, Claim, CheckAlone, CheckBoth,
       UnhookThrows, UnhookNow, UnhookWaits, RunRemove, Hook, Respond, CloseSession, Return, TypeOK, Up,
       chanVars
  <2> QED
    BY <2>1, <2>2 DEF GoneIsDown
<1> QED
  BY <1>1, <1>2, <1>3, <1>4, <1>5, <1>6, NextCases

-----------------------------------------------------------------------------
(* What Pairing speaks of, one connection at a time.                       *)
LEMMA PartsSame ==
  ASSUME \A c \in Conn : (Holds(c)' <=> Holds(c)) /\ (Holds(c) => at'[c] = at[c])
  PROVE  Parts' = Parts
BY DEF Parts

LEMMA WiresSame ==
  ASSUME \A c \in Conn : (Relays(c)' <=> Relays(c)) /\ (Relays(c) => relay'[c] = relay[c])
  PROVE  Wires' = Wires
BY DEF Wires

(* Only compareAndSet gives a connection its part.                         *)
LEMMA PartsStay ==
  ASSUME SafetyInv, [Next]_vars, UNCHANGED claimed
  PROVE  Parts' = Parts
<1> USE DEF SafetyInv
<1>1. ASSUME NEW c \in Conn, Holds(c) PROVE Holds(c)' /\ at'[c] = at[c]
  BY <1>1, Stays DEF Holds
<1>2. ASSUME NEW c \in Conn, Holds(c)' PROVE Holds(c)
  <2>1. TypeOK'
    BY TypeInductive
  <2>2. PICK s \in Session, r \in Role : claimed[s][r] = c
    BY <1>2, <2>1, SuperRouterAssumption DEF Holds, TypeOK, Party
  <2>3. at[c] = [s |-> s, role |-> r]
    BY <2>2, SuperRouterAssumption DEF ClaimTied
  <2>4. [s |-> s, role |-> r] \in Party
    BY DEF Party
  <2> QED
    BY <2>2, <2>3, <2>4, SuperRouterAssumption DEF Holds
<1> QED
  BY <1>1, <1>2, PartsSame

(* The partner of a connection is its session's other party.               *)
LEMMA PartnerIsRival ==
  ASSUME SafetyInv, NEW c \in Conn, NEW d \in Conn, Pairs!Partners(c, d)
  PROVE  /\ Holds(c) /\ Holds(d) /\ d = Rival(c) /\ c = Rival(d)
<1>1. Holds(c) /\ Holds(d) /\ at[c].s = at[d].s /\ c # d
  BY DEF Pairs!Partners, Parts
<1>2. at[c].role \in Role /\ at[d].role \in Role
  BY <1>1, PartyFacts DEF Holds, SafetyInv
<1>3. at[c].role # at[d].role
  BY <1>1 DEF Holds
<1>4. at[d].role = Other(at[c].role) /\ at[c].role = Other(at[d].role)
  BY <1>2, <1>3 DEF Role, Other
<1> QED
  BY <1>1, <1>4 DEF Holds, Rival

(* And the other way round.                                                *)
LEMMA RivalIsPartner ==
  ASSUME SafetyInv, NEW c \in Conn, Holds(c), Rival(c) # NoConn
  PROVE  /\ Pairs!Partners(c, Rival(c)) /\ Pairs!Partners(Rival(c), c)
         /\ Rival(c) \in Conn /\ Rival(c) # c /\ Holds(Rival(c)) /\ Rival(Rival(c)) = c
<1> USE DEF SafetyInv
<1>1. /\ Rival(c) \in Conn /\ Rival(c) # c /\ Rival(Rival(c)) = c /\ at[Rival(c)] # Nowhere
      /\ at[Rival(c)] = [s |-> at[c].s, role |-> Other(at[c].role)]
  BY RivalFacts DEF Holds
<1>2. at[Rival(c)].s = at[c].s /\ at[Rival(c)].role = Other(at[c].role)
  BY <1>1
<1>3. Holds(Rival(c))
  BY <1>1, <1>2 DEF Holds, Rival
<1> QED
  BY <1>1, <1>2, <1>3 DEF Holds, Pairs!Partners, Parts

(* While a handler joins two channels neither party was told.              *)
LEMMA JoiningUntold ==
  ASSUME SafetyInv, NEW e \in Conn, pc[e] \in {"unhook", "removing", "hook", "respond"}
  PROVE  /\ Holds(e) /\ Rival(e) \in Conn /\ Rival(e) # e
         /\ Pairs!Partners(e, Rival(e)) /\ Pairs!Partners(Rival(e), e)
         /\ Pairs!Untold(e) /\ Pairs!Untold(Rival(e))
<1> USE DEF SafetyInv
<1>1. Holds(e) /\ link[e] \in Up /\ Rival(e) # NoConn
  BY PartyFacts DEF Holds, ClaimTied, PeerTied, Joining
<1>2. /\ Pairs!Partners(e, Rival(e)) /\ Pairs!Partners(Rival(e), e)
      /\ Rival(e) \in Conn /\ Rival(e) # e /\ Rival(Rival(e)) = e
  BY <1>1, RivalIsPartner
<1>3. ~(rsp[e] > 0)
  BY DEF ToldTogether
<1>4. ~(rsp[Rival(e)] > 0)
  BY <1>1, <1>2, <1>3 DEF ToldTogether
<1>5. e \notin Told /\ Rival(e) \notin Told
  BY <1>3, <1>4 DEF Told
<1>6. ASSUME NEW d \in Told PROVE ~Pairs!Partners(e, d) /\ ~Pairs!Partners(Rival(e), d)
  BY <1>2, <1>5, PartnerIsRival DEF Told
<1> QED
  BY <1>1, <1>2, <1>5, <1>6 DEF Pairs!Untold

-----------------------------------------------------------------------------
(* The steps that Pairing does not see.                                    *)
LEMMA Unseen ==
  ASSUME SafetyInv, [Next]_vars, UNCHANGED <<claimed, pipe, relay, rsp>>, Gone' = Gone
  PROVE  UNCHANGED Pairs!vars
BY PartsStay, WiresSame DEF Pairs!vars, Told, Relays

(* A channel's own steps.                                                  *)
LEMMA ChannelImplements ==
  ASSUME SafetyInv, [Next]_vars, NEW c \in Conn,
         Accept(c) \/ Close(c) \/ Inactive(c) \/ Teardown(c)
  PROVE  [Pairs!Next]_(Pairs!vars)
<1> USE DEF SafetyInv
<1>1. UNCHANGED <<claimed, relay, rsp>> /\ Parts' = Parts
  BY LinkSteps, PartsStay
<1>2. CASE Accept(c)
  <2>1. Gone' = Gone
    BY <1>2 DEF Accept, Gone, TypeOK
  <2> QED
    BY <1>1, <1>2, <2>1, Unseen DEF Accept
<1>3. CASE Close(c)
  <2>1. Gone' = Gone \cup {c}
    BY <1>3 DEF Close, Gone, TypeOK
  <2>2. Wires' = Wires /\ Told' = Told
    BY <1>1, <1>3, WiresSame DEF Close, Told, Relays
  <2> QED
    BY <1>1, <2>1, <2>2 DEF Pairs!Leave, Pairs!Next
<1>4. CASE Inactive(c)
  <2>1. Gone' = Gone
    BY <1>4 DEF Inactive, Gone, TypeOK
  <2> QED
    BY <1>1, <1>4, <2>1, Unseen DEF Inactive
<1>5. CASE Teardown(c)
  <2>1. Gone' = Gone /\ c \in Gone
    BY <1>5 DEF Teardown, Gone, TypeOK
  <2>2. Wires' = [Wires EXCEPT ![c] = NoConn]
    BY <1>1, <1>5 DEF Teardown, Wires, Relays, TypeOK
  <2> QED
    BY <1>1, <2>1, <2>2 DEF Told, Pairs!Cut, Pairs!Next
<1> QED
  BY <1>2, <1>3, <1>4, <1>5

(* compareAndSet gives the part to one connection, for good.               *)
LEMMA ClaimImplements ==
  ASSUME SafetyInv, NEW c \in Conn, Claim(c)
  PROVE  Pairs!Obtain(c, at[c]) /\ at[c] \in Party
<1> USE DEF SafetyInv
<1>1. /\ at[c] # Nowhere /\ link[c] \in Up /\ at[c].s \in Session /\ at[c].role \in Role
      /\ at[c] = [s |-> at[c].s, role |-> at[c].role] /\ claimed[at[c].s][at[c].role] = NoConn
  BY PartyFacts DEF Claim
<1>2. ASSUME NEW d \in Conn, Holds(d) PROVE at[d] # at[c]
  BY <1>1, <1>2, SuperRouterAssumption DEF Holds
<1>3. ~Holds(c) /\ at[c] \in Party
  BY <1>1, SuperRouterAssumption DEF Holds, TypeOK
<1>4. \A s \in Session, r \in Role : claimed'[s][r] =
        IF s = at[c].s /\ r = at[c].role THEN c ELSE claimed[s][r]
  BY <1>1 DEF Claim, TypeOK
<1>5. UNCHANGED <<at, link, pipe, relay, rsp>>
  BY DEF Claim, chanVars
<1>6. Holds(c)'
  BY <1>1, <1>4, <1>5 DEF Holds
<1>7. ASSUME NEW d \in Conn, d # c PROVE Holds(d)' <=> Holds(d)
  <2>1. CASE at[d] = Nowhere
    BY <2>1, <1>5 DEF Holds
  <2>2. CASE at[d] # Nowhere /\ at[d] = at[c]
    BY <2>2, <1>1, <1>2, <1>4, <1>5, <1>7 DEF Holds
  <2>3. CASE at[d] # Nowhere /\ at[d] # at[c]
    <3>1. at[d].s \in Session /\ at[d].role \in Role /\ at[d] = [s |-> at[d].s, role |-> at[d].role]
      BY <2>3, PartyFacts
    <3>2. ~(at[d].s = at[c].s /\ at[d].role = at[c].role)
      BY <1>1, <2>3, <3>1
    <3>3. claimed'[at[d].s][at[d].role] = claimed[at[d].s][at[d].role]
      BY <1>4, <3>1, <3>2
    <3> QED
      BY <1>5, <3>3 DEF Holds
  <2> QED
    BY <2>1, <2>2, <2>3
<1>8. Parts' = [Parts EXCEPT ![c] = at[c]]
  BY <1>5, <1>6, <1>7 DEF Parts
<1>9. Wires' = Wires /\ Told' = Told /\ Gone' = Gone
  BY <1>5, WiresSame DEF Told, Gone, Relays
<1>10. c \notin Gone /\ Parts[c] = Nowhere
  BY <1>1, <1>3 DEF Gone, Up, Parts
<1>11. \A d \in Conn : Parts[d] # at[c]
  BY <1>1, <1>2 DEF Parts
<1> QED
  BY <1>3, <1>8, <1>9, <1>10, <1>11 DEF Pairs!Obtain

(* remove() cuts a channel that nobody was told of.                        *)
LEMMA RemoveImplements ==
  ASSUME SafetyInv, [Next]_vars, NEW c \in Conn, RunRemove(c)
  PROVE  [Pairs!Next]_(Pairs!vars)
<1> USE DEF SafetyInv
<1>1. pc[c] = "removing" /\ UNCHANGED <<claimed, link, relay, rsp>>
  BY DEF RunRemove
<1>2. Parts' = Parts /\ Gone' = Gone /\ Told' = Told
  BY <1>1, PartsStay DEF Gone, Told
<1>3. Target(c) \in {c, Rival(c)}
  BY <1>1 DEF PeerTied, Joining, Target, ChannelOf
<1>4. Target(c) \in Conn /\ Pairs!Untold(Target(c))
  BY <1>1, <1>3, JoiningUntold
<1>5. \A x \in Conn : pipe'[x] = IF x = Target(c) /\ pipe[x] # "gone" THEN "bare" ELSE pipe[x]
  BY DEF RunRemove, TypeOK
<1>6. Wires' = [Wires EXCEPT ![Target(c)] = NoConn]
  BY <1>1, <1>4, <1>5 DEF Wires, Relays
<1> QED
  BY <1>2, <1>4, <1>6 DEF Pairs!Cut, Pairs!Next

(* addLast joins a channel to the other party's, or to none.               *)
LEMMA HookImplements ==
  ASSUME SafetyInv, [Next]_vars, NEW c \in Conn, Hook(c)
  PROVE  [Pairs!Next]_(Pairs!vars)
<1> USE DEF SafetyInv
<1> DEFINE x == Target(c)
           y == ChannelOf(c, Other(side[c]))
<1>1. pc[c] = "hook" /\ UNCHANGED <<claimed, link, rsp>>
  BY DEF Hook
<1>2. Parts' = Parts /\ Gone' = Gone /\ Told' = Told
  BY <1>1, PartsStay DEF Gone, Told
<1>3. /\ Rival(c) \in Conn /\ Rival(c) # c
      /\ Pairs!Partners(c, Rival(c)) /\ Pairs!Partners(Rival(c), c)
      /\ Pairs!Untold(c) /\ Pairs!Untold(Rival(c))
      /\ at[c].role \in Role /\ side[c] \in Role
  BY <1>1, JoiningUntold, PartyFacts DEF TypeOK
<1>4. x # NoConn /\ peer[c] \in {NoConn, Rival(c)}
  BY <1>1 DEF PeerTied, Joining
<1>5. \/ x = c /\ y \in {NoConn, Rival(c)}
      \/ x = Rival(c) /\ y = c
  BY <1>3, <1>4 DEF Target, ChannelOf, Role, Other
<1>6. x \in Conn /\ Pairs!Untold(x)
  BY <1>3, <1>5
<1>7. \A z \in Conn : /\ pipe'[z] = IF z = x THEN "relay" ELSE pipe[z]
                      /\ relay'[z] = IF z = x THEN y ELSE relay[z]
  BY DEF Hook, TypeOK
<1> HIDE DEF x, y
<1>8. Wires' = [Wires EXCEPT ![x] = y]
  BY <1>6, <1>7 DEF Wires, Relays
<1>9. CASE y = NoConn
  BY <1>2, <1>6, <1>8, <1>9 DEF Pairs!Cut, Pairs!Next
<1>10. CASE y # NoConn
  <2>1. y \in Conn /\ Pairs!Partners(x, y)
    BY <1>3, <1>5, <1>10, SuperRouterAssumption
  <2> QED
    BY <1>2, <1>6, <1>8, <2>1 DEF Pairs!Join, Pairs!Next
<1> QED
  BY <1>9, <1>10

(* sendConnectRsp tells both parties, when both directions are joined.     *)
LEMMA RespondImplements ==
  ASSUME SafetyInv, GoneIsDown, [Next]_vars, NEW c \in Conn, Respond(c)
  PROVE  [Pairs!Next]_(Pairs!vars)
<1> USE DEF SafetyInv
<1> DEFINE d == Rival(c)
<1>1. pc[c] = "respond" /\ UNCHANGED <<claimed, link, pipe, relay, at>>
  BY DEF Respond, chanVars
<1>2. Parts' = Parts /\ Gone' = Gone /\ Wires' = Wires
  BY <1>1, PartsStay, WiresSame DEF Gone, Relays
<1>3. /\ d \in Conn /\ d # c /\ Pairs!Partners(c, d) /\ Pairs!Untold(c)
      /\ Holds(c) /\ link[c] \in Up /\ at[c].role \in Role
  BY <1>1, JoiningUntold, PartyFacts
<1>4. peer[c] = d
  BY <1>1 DEF PeerTied, Joining
<1>5. Switched(c, d) /\ Switched(d, c)
  BY <1>1, <1>3, <1>4 DEF HalfJoined, Joining, PeerTied, ChannelOf, Role
<1>6. \A z \in Conn : pipe[z] = "gone" => z \in Gone
  BY DEF GoneIsDown, Gone
<1>7. c \notin Gone
  BY <1>3 DEF Gone, Up
<1>8. Wires[c] = d /\ (d \in Gone \/ Wires[d] = c)
  BY <1>3, <1>5, <1>6, <1>7, SuperRouterAssumption DEF Wires, Relays, Switched
<1>9. Told' = Told \cup ({c, d} \ Gone)
  <2>1. at[d] # Nowhere
    BY <1>3, PartnerIsRival DEF Holds
  <2>2. \A z \in {c, d} : z \in Conn /\ (link[z] \in Up <=> z \notin Gone)
    BY <1>3, <2>1 DEF HandlerTied, Gone, Up, TypeOK, Link, Holds
  <2>3. \A z \in Conn : rsp[z] \in Nat
          /\ rsp'[z] = IF z \in {c, d} /\ link[z] \in Up THEN rsp[z] + 1 ELSE rsp[z]
    BY <1>4 DEF Respond, TypeOK
  <2>4. \A z \in Conn : rsp'[z] > 0 <=> rsp[z] > 0 \/ (z \in {c, d} /\ link[z] \in Up)
    BY <2>3
  <2> QED
    BY <2>2, <2>4 DEF Told
<1> QED
  BY <1>2, <1>3, <1>7, <1>8, <1>9 DEF Pairs!Tell, Pairs!Next

(* The steps of processConnectRequest.                                     *)
LEMMA ProcessImplements ==
  ASSUME SafetyInv, GoneIsDown, [Next]_vars, NEW c \in Conn, Process(c)
  PROVE  [Pairs!Next]_(Pairs!vars)
<1> USE DEF SafetyInv
<1>1. CASE Claim(c)
  BY <1>1, ClaimImplements DEF Pairs!Next, Pairs!Part, Party
<1>2. CASE ClaimFails(c)
  <2>1. Gone' = Gone \cup {c}
    BY <1>2 DEF ClaimFails, Gone, TypeOK
  <2>2. UNCHANGED <<claimed, pipe, relay, rsp>>
    BY <1>2 DEF ClaimFails
  <2>3. Wires' = Wires /\ Told' = Told /\ Parts' = Parts
    BY <2>2, PartsStay, WiresSame DEF Told, Relays
  <2> QED
    BY <2>1, <2>3 DEF Pairs!Leave, Pairs!Next
<1>3. CASE UnhookNow(c)
  <2>1. /\ UNCHANGED <<claimed, link, relay, rsp>>
        /\ \A x \in Conn : pipe'[x] = pipe[x] \/ (pipe[x] = "access" /\ pipe'[x] = "bare")
    BY <1>3 DEF UnhookNow, HasAccess, TypeOK
  <2>2. Wires' = Wires
    BY <2>1, WiresSame DEF Relays
  <2> QED
    BY <2>1, <2>2, PartsStay DEF Pairs!vars, Gone, Told
<1>4. CASE \/ CheckAlone(c) \/ CheckBoth(c) \/ UnhookThrows(c) \/ UnhookWaits(c)
           \/ CloseSession(c) \/ Return(c)
  <2>1. UNCHANGED <<claimed, link, pipe, relay, rsp>>
    BY <1>4 DEF CheckAlone, CheckBoth, UnhookThrows, UnhookWaits, CloseSession, Return, chanVars
  <2> QED
    BY <2>1, Unseen DEF Gone
<1> QED
  BY <1>1, <1>2, <1>3, <1>4, RemoveImplements, HookImplements, RespondImplements DEF Process

-----------------------------------------------------------------------------
(* Whatever two handlers, the tasks of their loops, the timer and the      *)
(* closes do to one another, what the parties see of the router are steps  *)
(* of Pairing (processConnectRequest, RelayHandler, SessionManager).       *)
THEOREM RouterImplementsPairing == Spec => ImplementsPairing
<1>1. Init => GoneIsDown
  BY DEF Init, GoneIsDown
<1>2. Init => Pairs!Init
  <2> SUFFICES ASSUME Init PROVE Pairs!Init
    OBVIOUS
  <2>1. Parts = [c \in Conn |-> Nowhere] /\ Wires = [c \in Conn |-> NoConn]
    BY DEF Init, Parts, Wires, Holds, Relays
  <2>2. Gone = {} /\ Told = {}
    BY DEF Init, Gone, Told
  <2> QED
    BY <2>1, <2>2 DEF Pairs!Init
<1>3. SafetyInv /\ GoneIsDown /\ [Next]_vars => GoneIsDown'
  BY GoneInductive DEF SafetyInv
<1>4. SafetyInv /\ GoneIsDown /\ [Next]_vars => [Pairs!Next]_(Pairs!vars)
  <2> SUFFICES ASSUME SafetyInv, GoneIsDown, [Next]_vars PROVE [Pairs!Next]_(Pairs!vars)
    OBVIOUS
  <2>1. CASE \/ \E t \in Token : Allocate(t) \/ TimerFinds(t)
             \/ TimerRemoves
             \/ \E c \in Conn : Publish(c)
             \/ UNCHANGED vars
    BY <2>1, QuietSteps, Unseen DEF Gone
  <2>2. CASE \E c \in Conn, t \in Token, r \in Role : Connect(c, t, r)
    <3>1. UNCHANGED <<claimed, link, pipe, relay, rsp>>
      BY <2>2 DEF Connect, chanVars
    <3> QED
      BY <3>1, Unseen DEF Gone
  <2> QED
    BY <2>1, <2>2, ChannelImplements, ProcessImplements, NextCases
<1> QED
  BY <1>1, <1>2, <1>3, <1>4, Safety, PTL DEF Spec, ImplementsPairing, Pairs!Spec
=============================================================================
