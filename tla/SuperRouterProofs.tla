--------------------------- MODULE SuperRouterProofs ---------------------------
(***************************************************************************)
(* Proofs about the super router, for any number of connections, tokens,   *)
(* sessions and event loops.                                               *)
(***************************************************************************)
EXTENDS SuperRouter, TLAPS

(* A session has two parts, and each is the other of the other.            *)
LEMMA RoleFacts ==
  /\ \A r \in Role : Other(r) \in Role /\ Other(r) # r /\ Other(Other(r)) = r
  /\ "client" \in Role /\ "fgw" \in Role
BY DEF Role, Other

(* The steps that no handler takes and no channel takes part in.           *)
LEMMA QuietSteps ==
  ASSUME \/ \E t \in Token : Allocate(t) \/ TimerFinds(t)
         \/ TimerRemoves
         \/ \E c \in Conn : Publish(c)
         \/ UNCHANGED vars
  PROVE  UNCHANGED <<claimed, link, loop, pipe, relay, at, pc, side, peer, rsp>>
BY DEF Allocate, TimerFinds, TimerRemoves, Publish, vars, chanVars, procVars

(* What happens to channels: a handler keeps its connection up, and only   *)
(* netty touches a pipeline.                                               *)
LEMMA LinkSteps ==
  ASSUME TypeOK,
         \E c \in Conn : Accept(c) \/ Close(c) \/ Inactive(c) \/ Teardown(c)
  PROVE  /\ UNCHANGED <<claimed, loop, relay, at, pc, side, peer, rsp>>
         /\ \A d \in Conn : link[d] \in Up /\ pc[d] # "idle" => link'[d] \in Up
         /\ \A d \in Conn : link'[d] \in Up => link[d] \in Up \/ link[d] = "new"
         /\ \A d \in Conn : link[d] # "new" => link'[d] # "new"
         /\ \A d \in Conn : pipe'[d] \in {pipe[d], "gone"}
BY DEF TypeOK, Accept, Close, Inactive, Teardown, Free, Up, procVars

(* A handler runs on a connection that is up and has asked for a party,    *)
(* and is the only one on its loop.                                        *)
HandlerTied ==
  /\ \A c \in Conn : pc[c] # "idle" => at[c] # Nowhere /\ link[c] \in Up
  /\ \A c \in Conn : at[c] # Nowhere => link[c] # "new"
  /\ \A c, d \in Conn : pc[c] # "idle" /\ pc[d] # "idle" /\ loop[c] = loop[d] => c = d

(* The variables keep their types.                                         *)
LEMMA TypeInductive == TypeOK /\ HandlerTied /\ [Next]_vars => TypeOK'
<1> SUFFICES ASSUME TypeOK, HandlerTied, [Next]_vars PROVE TypeOK'
  OBVIOUS
<1> USE DEF TypeOK
<1>0. /\ \A c \in Conn : at[c] # Nowhere => at[c].s \in Session /\ at[c].role \in Role
     /\ \A c \in Conn : pc[c] # "idle" => at[c] # Nowhere
  BY DEF HandlerTied, Party
<1>1. ASSUME NEW t \in Token, Allocate(t) PROVE TypeOK'
  BY <1>1 DEF Allocate, chanVars, procVars
<1>2. ASSUME NEW t \in Token, TimerFinds(t) PROVE TypeOK'
  BY <1>2 DEF TimerFinds, chanVars, procVars
<1>3. ASSUME TimerRemoves PROVE TypeOK'
  BY <1>3 DEF TimerRemoves, RemoveByKey, chanVars, procVars
<1>4. ASSUME NEW c \in Conn, Accept(c) PROVE TypeOK'
  BY <1>4 DEF Accept, Link, sessVars, procVars
<1>5. ASSUME NEW c \in Conn, Close(c) PROVE TypeOK'
  BY <1>5 DEF Close, Link, sessVars, procVars
<1>6. ASSUME NEW c \in Conn, Inactive(c) PROVE TypeOK'
  BY <1>6 DEF Inactive, Link, sessVars, procVars
<1>7. ASSUME NEW c \in Conn, Teardown(c) PROVE TypeOK'
  BY <1>7 DEF Teardown, Link, sessVars, procVars
<1>8. ASSUME NEW c \in Conn, NEW t \in Token, NEW r \in Role, Connect(c, t, r) PROVE TypeOK'
  BY <1>8 DEF Connect, Party, Step, sessVars, chanVars
<1>9. ASSUME NEW c \in Conn, Claim(c) PROVE TypeOK'
  BY <1>0, <1>9 DEF Claim, Step, sessVars, chanVars
<1>10. ASSUME NEW c \in Conn, ClaimFails(c) PROVE TypeOK'
  BY <1>10 DEF ClaimFails, Link, Step, sessVars
<1>11. ASSUME NEW c \in Conn, CheckAlone(c) PROVE TypeOK'
  BY <1>11 DEF CheckAlone, Step, sessVars, chanVars
<1>12. ASSUME NEW c \in Conn, CheckBoth(c) PROVE TypeOK'
  BY <1>0, <1>12, RoleFacts DEF CheckBoth, Rival, Step, sessVars, chanVars
<1>13. ASSUME NEW c \in Conn, UnhookThrows(c) PROVE TypeOK'
  BY <1>13 DEF UnhookThrows, Step, sessVars, chanVars
<1>14. ASSUME NEW c \in Conn, UnhookNow(c) PROVE TypeOK'
  BY <1>14 DEF UnhookNow, Step, sessVars
<1>15. ASSUME NEW c \in Conn, UnhookWaits(c) PROVE TypeOK'
  BY <1>15 DEF UnhookWaits, Step, sessVars, chanVars
<1>16. ASSUME NEW c \in Conn, RunRemove(c) PROVE TypeOK'
  BY <1>16 DEF RunRemove, Step, sessVars
<1>17. ASSUME NEW c \in Conn, Hook(c) PROVE TypeOK'
  BY <1>17, RoleFacts DEF Hook, ChannelOf, Step, sessVars
<1>18. ASSUME NEW c \in Conn, Respond(c) PROVE TypeOK'
  BY <1>18 DEF Respond, Step, sessVars, chanVars
<1>19. ASSUME NEW c \in Conn, CloseSession(c) PROVE TypeOK'
  BY <1>0, <1>19 DEF CloseSession, RemoveByKey, Step, chanVars
<1>20. ASSUME NEW c \in Conn, Return(c) PROVE TypeOK'
  BY <1>20 DEF Return, Step, sessVars, chanVars
<1>21. ASSUME NEW c \in Conn, Publish(c) PROVE TypeOK'
  BY <1>0, <1>21 DEF Publish, sessVars, chanVars, procVars
<1>s. CASE UNCHANGED vars
  BY <1>s DEF vars, sessVars, chanVars, procVars
<1> QED
  BY <1>1, <1>2, <1>3, <1>4, <1>5, <1>6, <1>7, <1>8, <1>9, <1>10, <1>11, <1>12, <1>13, <1>14, <1>15, <1>16, <1>17, <1>18, <1>19, <1>20, <1>21, <1>s DEF Next, Process

(* What a connection asked for is a part of a session; a handler runs only *)
(* for a connection that asked.                                            *)
LEMMA PartyFacts ==
  ASSUME TypeOK, HandlerTied
  PROVE  /\ \A c \in Conn : at[c] # Nowhere =>
              /\ at[c].s \in Session /\ at[c].role \in Role
              /\ at[c] = [s |-> at[c].s, role |-> at[c].role]
         /\ \A c \in Conn : pc[c] # "idle" => at[c] # Nowhere /\ link[c] \in Up
BY DEF TypeOK, HandlerTied, Party

(* What a step of a handler leaves alone.                                  *)
LEMMA HandlerSteps ==
  ASSUME TypeOK, NEW c \in Conn, Process(c)
  PROVE  /\ pc[c] # "idle" /\ UNCHANGED <<at, loop>>
         /\ \A d \in Conn : d # c => /\ pc'[d] = pc[d] /\ link'[d] = link[d]
                                     /\ side'[d] = side[d] /\ peer'[d] = peer[d]
         /\ pc'[c] # "idle" => UNCHANGED link
         /\ \A d \in Conn : link'[d] \in {link[d], "closed"}
<1> USE DEF TypeOK, chanVars
<1>1. CASE Claim(c) \/ CheckAlone(c) \/ CheckBoth(c)
  BY <1>1 DEF Claim, CheckAlone, CheckBoth
<1>2. CASE ClaimFails(c)
  BY <1>2 DEF ClaimFails
<1>3. CASE UnhookThrows(c) \/ UnhookNow(c) \/ UnhookWaits(c)
  BY <1>3 DEF UnhookThrows, UnhookNow, UnhookWaits
<1>4. CASE RunRemove(c) \/ Hook(c)
  BY <1>4 DEF RunRemove, Hook
<1>5. CASE Respond(c) \/ CloseSession(c) \/ Return(c)
  BY <1>5 DEF Respond, CloseSession, Return
<1> QED
  BY <1>1, <1>2, <1>3, <1>4, <1>5 DEF Process

(* The steps of the system: bookkeeping, the channels, a new CONNECT, the  *)
(* handlers.                                                               *)
LEMMA NextCases ==
  ASSUME [Next]_vars
  PROVE  \/ \/ \E t \in Token : Allocate(t) \/ TimerFinds(t)
            \/ TimerRemoves
            \/ \E c \in Conn : Publish(c)
            \/ UNCHANGED vars
         \/ \E c \in Conn : Accept(c) \/ Close(c) \/ Inactive(c) \/ Teardown(c)
         \/ \E c \in Conn, t \in Token, r \in Role : Connect(c, t, r)
         \/ \E c \in Conn : Process(c)
BY DEF Next

(* A handler is alone on its loop, and its connection is up.               *)
LEMMA HandlerInductive == TypeOK /\ HandlerTied /\ [Next]_vars => HandlerTied'
<1> SUFFICES ASSUME TypeOK, HandlerTied, [Next]_vars PROVE HandlerTied'
  OBVIOUS
<1>1. CASE \/ \E t \in Token : Allocate(t) \/ TimerFinds(t)
           \/ TimerRemoves
           \/ \E c \in Conn : Publish(c)
           \/ UNCHANGED vars
  BY <1>1, QuietSteps DEF HandlerTied
<1>2. CASE \E c \in Conn : Accept(c) \/ Close(c) \/ Inactive(c) \/ Teardown(c)
  BY <1>2, LinkSteps DEF HandlerTied
<1>3. ASSUME NEW c \in Conn, NEW t \in Token, NEW r \in Role, Connect(c, t, r)
      PROVE  HandlerTied'
  BY <1>3, SuperRouterAssumption DEF Connect, HandlerTied, TypeOK, Party, Free, Up, chanVars
<1>4. ASSUME NEW c \in Conn, Process(c) PROVE HandlerTied'
  BY <1>4, HandlerSteps DEF HandlerTied
<1> QED
  BY <1>1, <1>2, <1>3, <1>4, NextCases

(* A party once claimed, and what a connection asked for, stay.            *)
LEMMA Stays ==
  ASSUME TypeOK, [Next]_vars
  PROVE  /\ \A s \in Session, r \in Role : claimed[s][r] # NoConn => claimed'[s][r] = claimed[s][r]
         /\ \A c \in Conn : at[c] # Nowhere => at'[c] = at[c]
<1>1. CASE \/ \E t \in Token : Allocate(t) \/ TimerFinds(t)
           \/ TimerRemoves
           \/ \E c \in Conn : Publish(c)
           \/ UNCHANGED vars
  BY <1>1, QuietSteps
<1>2. CASE \E c \in Conn : Accept(c) \/ Close(c) \/ Inactive(c) \/ Teardown(c)
  BY <1>2, LinkSteps
<1>3. CASE \E c \in Conn, t \in Token, r \in Role : Connect(c, t, r)
  BY <1>3 DEF Connect, TypeOK
<1>4. ASSUME NEW c \in Conn, Claim(c)
      PROVE  \A s \in Session, r \in Role : claimed[s][r] # NoConn => claimed'[s][r] = claimed[s][r]
  BY <1>4 DEF Claim, TypeOK
<1>5. ASSUME NEW c \in Conn, Process(c), ~Claim(c) PROVE UNCHANGED claimed
  BY <1>5 DEF Process, ClaimFails, CheckAlone, CheckBoth, UnhookThrows, UnhookNow, UnhookWaits,
              RunRemove, Hook, Respond, CloseSession, Return
<1>6. CASE \E c \in Conn : Process(c)
  BY <1>4, <1>5, <1>6, HandlerSteps
<1> QED
  BY <1>1, <1>2, <1>3, <1>6, NextCases

(* Who holds a party asked for it, and who is past compareAndSet holds it. *)
ClaimTied ==
  /\ \A s \in Session, r \in Role : claimed[s][r] # NoConn =>
       /\ at[claimed[s][r]] = [s |-> s, role |-> r]
       /\ pc[claimed[s][r]] # "found"
  /\ \A c \in Conn : pc[c] \notin {"idle", "found"} => claimed[at[c].s][at[c].role] = c

(* A party belongs to the connection that won it.                          *)
LEMMA ClaimInductive ==
  TypeOK /\ HandlerTied /\ ClaimTied /\ [Next]_vars => ClaimTied'
<1> SUFFICES ASSUME TypeOK, HandlerTied, ClaimTied, [Next]_vars PROVE ClaimTied'
  OBVIOUS
<1>1. CASE \/ \E t \in Token : Allocate(t) \/ TimerFinds(t)
           \/ TimerRemoves
           \/ \E c \in Conn : Publish(c)
           \/ UNCHANGED vars
  BY <1>1, QuietSteps DEF ClaimTied
<1>2. CASE \E c \in Conn : Accept(c) \/ Close(c) \/ Inactive(c) \/ Teardown(c)
  BY <1>2, LinkSteps DEF ClaimTied
<1>3. ASSUME NEW c \in Conn, NEW t \in Token, NEW r \in Role, Connect(c, t, r)
      PROVE  ClaimTied'
  <2>1. ASSUME NEW s \in Session, NEW q \in Role, claimed[s][q] = c PROVE FALSE
    <3>1. [s |-> s, role |-> q] \in Party
      BY DEF Party
    <3>2. at[c] = [s |-> s, role |-> q]
      BY <2>1, SuperRouterAssumption DEF ClaimTied
    <3> QED
      BY <1>3, <3>1, <3>2, SuperRouterAssumption DEF Connect
  <2>2. /\ UNCHANGED claimed
        /\ \A d \in Conn : d # c => at'[d] = at[d] /\ pc'[d] = pc[d]
        /\ pc'[c] = "found"
    BY <1>3 DEF Connect, TypeOK
  <2>3. \A s \in Session, q \in Role : claimed[s][q] # NoConn => claimed[s][q] \in Conn
    BY DEF TypeOK
  <2> QED
    BY <2>1, <2>2, <2>3 DEF ClaimTied
<1>4. ASSUME NEW c \in Conn, Claim(c) PROVE ClaimTied'
  <2>1. at[c].s \in Session /\ at[c].role \in Role /\ at[c] = [s |-> at[c].s, role |-> at[c].role]
    BY <1>4, PartyFacts DEF Claim
  <2>2. \A s \in Session, r \in Role : claimed'[s][r] =
          IF s = at[c].s /\ r = at[c].role THEN c ELSE claimed[s][r]
    BY <1>4, <2>1 DEF Claim, TypeOK
  <2>3. /\ UNCHANGED at
        /\ \A d \in Conn : pc'[d] = IF d = c THEN "claimed" ELSE pc[d]
    BY <1>4 DEF Claim, TypeOK
  <2>4. \A d \in Conn : pc[d] \notin {"idle", "found"} => at[d].s \in Session /\ at[d].role \in Role
    BY PartyFacts
  <2>5. claimed[at[c].s][at[c].role] = NoConn /\ pc[c] = "found"
    BY <1>4 DEF Claim
  <2>6. \A s \in Session, r \in Role : claimed[s][r] # NoConn => claimed[s][r] \in Conn
    BY DEF TypeOK
  <2>7. ASSUME NEW s \in Session, NEW r \in Role, claimed'[s][r] # NoConn
        PROVE  at[claimed'[s][r]] = [s |-> s, role |-> r] /\ pc'[claimed'[s][r]] # "found"
    <3>1. CASE s = at[c].s /\ r = at[c].role
      BY <3>1, <2>1, <2>2, <2>3
    <3>2. CASE ~(s = at[c].s /\ r = at[c].role)
      BY <3>2, <2>2, <2>3, <2>6, <2>7 DEF ClaimTied
    <3> QED
      BY <3>1, <3>2
  <2>8. ASSUME NEW d \in Conn, pc'[d] \notin {"idle", "found"}
        PROVE  claimed'[at[d].s][at[d].role] = d
    <3>1. CASE d = c
      BY <3>1, <2>1, <2>2
    <3>2. CASE d # c
      BY <3>2, <2>2, <2>3, <2>4, <2>5, <2>8, SuperRouterAssumption DEF ClaimTied
    <3> QED
      BY <3>1, <3>2
  <2> QED
    BY <2>3, <2>7, <2>8 DEF ClaimTied
<1>5. ASSUME NEW c \in Conn, Process(c), ~Claim(c) PROVE ClaimTied'
  <2>1. UNCHANGED <<claimed, at>> /\ pc[c] # "idle" /\ pc'[c] # "found"
        /\ (pc'[c] # "idle" => pc[c] # "found")
    BY <1>5, HandlerSteps DEF Process, ClaimFails, CheckAlone, CheckBoth, UnhookThrows, UnhookNow,
         UnhookWaits, RunRemove, Hook, Respond, CloseSession, Return, TypeOK
  <2> QED
    BY <1>5, <2>1, HandlerSteps DEF ClaimTied, TypeOK
<1> QED
  BY <1>1, <1>2, <1>3, <1>4, <1>5, NextCases

Joining(c) == pc[c] \in {"unhook", "removing", "hook", "respond", "close"}

(* The two channels a joining handler has are those of its session's       *)
(* parties, or null.                                                       *)
PeerTied ==
  \A c \in Conn : Joining(c) =>
    /\ Rival(c) # NoConn /\ peer[c] \in {NoConn, Rival(c)}
    /\ pc[c] \in {"removing", "hook"} => Target(c) # NoConn
    /\ pc[c] \in {"respond", "close"} => peer[c] # NoConn /\ side[c] = "fgw"
    /\ at[c].role = "fgw" /\ side[c] = "fgw" => peer[c] # NoConn

(* What a step that is none of a joining handler's leaves alone.           *)
LEMMA OtherSteps ==
  ASSUME TypeOK, HandlerTied, ClaimTied, [Next]_vars
  PROVE  \/ \E c \in Conn : Process(c)
         \/ /\ \A d \in Conn : pc'[d] # pc[d] => at[d] = Nowhere /\ pc'[d] = "found"
            /\ \A d \in Conn : at[d] # Nowhere => at'[d] = at[d]
            /\ \A d \in Conn : pipe'[d] \in {pipe[d], "gone"}
            /\ \A d \in Conn : at[d] # Nowhere /\ link'[d] \in Up => link[d] \in Up
            /\ UNCHANGED <<claimed, loop, relay, side, peer, rsp>>
<1>1. CASE \/ \E t \in Token : Allocate(t) \/ TimerFinds(t)
           \/ TimerRemoves
           \/ \E c \in Conn : Publish(c)
           \/ UNCHANGED vars
  BY <1>1, QuietSteps
<1>2. CASE \E c \in Conn : Accept(c) \/ Close(c) \/ Inactive(c) \/ Teardown(c)
  BY <1>2, LinkSteps DEF HandlerTied
<1>3. CASE \E c \in Conn, t \in Token, r \in Role : Connect(c, t, r)
  BY <1>3 DEF Connect, TypeOK, chanVars
<1> QED
  BY <1>1, <1>2, <1>3, NextCases

(* The other party's connection is another one, which asked for the other  *)
(* part in the same session; and c is its other party.                     *)
LEMMA RivalFacts ==
  ASSUME TypeOK, HandlerTied, ClaimTied, NEW c \in Conn, at[c] # Nowhere, Rival(c) # NoConn
  PROVE  /\ Rival(c) \in Conn /\ Rival(c) # c
         /\ at[Rival(c)] = [s |-> at[c].s, role |-> Other(at[c].role)]
         /\ at[Rival(c)] # Nowhere
         /\ claimed[at[c].s][at[c].role] = c => Rival(Rival(c)) = c
<1>1. at[c].s \in Session /\ at[c].role \in Role
  BY PartyFacts
<1>2. Other(at[c].role) \in Role /\ Other(at[c].role) # at[c].role
      /\ Other(Other(at[c].role)) = at[c].role
  BY <1>1, RoleFacts
<1>3. Rival(c) \in Conn
  BY <1>1, <1>2 DEF Rival, TypeOK
<1>4. at[Rival(c)] = [s |-> at[c].s, role |-> Other(at[c].role)]
  BY <1>1, <1>2 DEF Rival, ClaimTied
<1>5. [s |-> at[c].s, role |-> Other(at[c].role)] \in Party
  BY <1>1, <1>2 DEF Party
<1>6. at[Rival(c)].s = at[c].s /\ at[Rival(c)].role = Other(at[c].role)
  BY <1>4
<1> QED
  BY <1>2, <1>3, <1>4, <1>5, <1>6, SuperRouterAssumption DEF Rival

(* The other party, once there, stays.                                     *)
LEMMA RivalStays ==
  ASSUME TypeOK, HandlerTied, [Next]_vars, NEW c \in Conn, at[c] # Nowhere, Rival(c) # NoConn
  PROVE  Rival(c)' = Rival(c) /\ at'[c] = at[c]
<1>1. at'[c] = at[c]
  BY Stays
<1>2. at[c].s \in Session /\ Other(at[c].role) \in Role
  BY PartyFacts, RoleFacts
<1>3. claimed[at[c].s][Other(at[c].role)] # NoConn
  BY DEF Rival
<1>4. claimed'[at[c].s][Other(at[c].role)] = claimed[at[c].s][Other(at[c].role)]
  BY <1>2, <1>3, Stays
<1> QED
  BY <1>1, <1>4 DEF Rival

(* A handler that joins has both channels by the time it needs them.       *)
LEMMA PeerInductive ==
  TypeOK /\ HandlerTied /\ ClaimTied /\ PeerTied /\ [Next]_vars => PeerTied'
<1> SUFFICES ASSUME TypeOK, HandlerTied, ClaimTied, PeerTied, [Next]_vars,
                    NEW c \in Conn, Joining(c)'
             PROVE  /\ Rival(c)' # NoConn /\ peer'[c] \in {NoConn, Rival(c)'}
                    /\ pc'[c] \in {"removing", "hook"} => Target(c)' # NoConn
                    /\ pc'[c] \in {"respond", "close"} => peer'[c] # NoConn /\ side'[c] = "fgw"
                    /\ at'[c].role = "fgw" /\ side'[c] = "fgw" => peer'[c] # NoConn
  BY DEF PeerTied
<1> USE DEF Joining
<1>1. CASE pc'[c] = pc[c] /\ UNCHANGED <<side, peer>>
  <2>1. at[c] # Nowhere /\ Rival(c) # NoConn
    BY <1>1, PartyFacts DEF PeerTied
  <2> QED
    BY <1>1, <2>1, RivalStays DEF PeerTied, Target, ChannelOf
<1>2. CASE CheckBoth(c)
  <2>1. at[c] # Nowhere /\ Rival(c) # NoConn
    BY <1>2, PartyFacts DEF CheckBoth
  <2> QED
    BY <1>2, <2>1, RivalStays DEF CheckBoth, TypeOK
<1>3. CASE Process(c) /\ pc[c] \in {"unhook", "removing", "hook", "respond"}
  <2>1. at[c] # Nowhere /\ Rival(c) # NoConn /\ at'[c] = at[c] /\ Rival(c)' = Rival(c)
    BY <1>3, PartyFacts, RivalStays DEF PeerTied
  <2>2. UNCHANGED peer /\ at[c].role \in Role
    BY <1>3, <2>1, PartyFacts DEF Process, Claim, ClaimFails, CheckAlone, CheckBoth, UnhookThrows,
         UnhookNow, UnhookWaits, RunRemove, Hook, Respond, CloseSession, Return
  <2>3. CASE UnhookNow(c) \/ UnhookWaits(c)
    BY <2>1, <2>2, <2>3 DEF UnhookNow, UnhookWaits, HasAccess, PeerTied, Target, ChannelOf, TypeOK
  <2>4. CASE RunRemove(c)
    BY <2>1, <2>2, <2>4 DEF RunRemove, PeerTied, Target, ChannelOf, TypeOK
  <2>5. CASE Hook(c)
    BY <2>1, <2>2, <2>5 DEF Hook, PeerTied, Target, ChannelOf, Role, TypeOK
  <2>6. CASE Respond(c)
    BY <2>1, <2>2, <2>6 DEF Respond, PeerTied, Target, ChannelOf, TypeOK
  <2> QED
    BY <1>3, <2>3, <2>4, <2>5, <2>6 DEF Process, Claim, ClaimFails, CheckAlone, CheckBoth,
         UnhookThrows, CloseSession, Return, TypeOK
<1>4. CASE \E d \in Conn : Process(d) /\ d # c
  <2>1. pc'[c] = pc[c] /\ side'[c] = side[c] /\ peer'[c] = peer[c]
    BY <1>4, HandlerSteps
  <2>2. at[c] # Nowhere /\ Rival(c) # NoConn
    BY <2>1, PartyFacts DEF PeerTied
  <2> QED
    BY <2>1, <2>2, RivalStays DEF PeerTied, Target, ChannelOf
<1>5. CASE ~ \E d \in Conn : Process(d)
  <2>1. pc'[c] = pc[c] /\ UNCHANGED <<side, peer>>
    BY <1>5, OtherSteps
  <2> QED
    BY <1>1, <2>1
<1>6. CASE Process(c) /\ pc[c] \notin {"unhook", "removing", "hook", "respond"} /\ ~CheckBoth(c)
  BY <1>6 DEF Process, Claim, ClaimFails, CheckAlone, UnhookThrows, UnhookNow, UnhookWaits,
       RunRemove, Hook, Respond, CloseSession, Return, TypeOK
<1> QED
  BY <1>2, <1>3, <1>4, <1>5, <1>6

(* The handler has the other party's channel out of its access handler.    *)
PastRival(c) ==
  \/ pc[c] \in {"respond", "close"}
  \/ pc[c] = "hook" /\ side[c] # at[c].role
  \/ Joining(c) /\ at[c].role = "fgw" /\ side[c] = "fgw"

(* By then the other party's handler has ended.                            *)
RivalDone == \A c \in Conn : PastRival(c) => pc[Rival(c)] = "idle"

(* remove() on the other party's channel returns only when that party's    *)
(* loop was free; its handler has ended by then and never starts again.    *)
LEMMA RivalDoneInductive ==
  TypeOK /\ HandlerTied /\ ClaimTied /\ PeerTied /\ RivalDone /\ [Next]_vars => RivalDone'
<1> SUFFICES ASSUME TypeOK, HandlerTied, ClaimTied, PeerTied, RivalDone, [Next]_vars,
                    NEW c \in Conn, PastRival(c)'
             PROVE  pc'[Rival(c)'] = "idle"
  BY DEF RivalDone
<1> USE DEF Joining, PastRival
(* An idle party that has asked for its part stays idle.                   *)
<1>1. ASSUME NEW d \in Conn, at[d] # Nowhere, pc[d] = "idle" PROVE pc'[d] = "idle"
  BY <1>1, OtherSteps, HandlerSteps
<1>2. CASE PastRival(c)
  <2>1. pc[c] # "idle" /\ at[c] # Nowhere /\ Rival(c) # NoConn
    BY <1>2, PartyFacts DEF PeerTied
  <2>2. Rival(c)' = Rival(c) /\ Rival(c) \in Conn /\ at[Rival(c)] # Nowhere
    BY <2>1, RivalStays, RivalFacts
  <2> QED
    BY <1>1, <1>2, <2>2 DEF RivalDone
<1>3. CASE ~PastRival(c) /\ ((UnhookNow(c) \/ RunRemove(c)) /\ side[c] # at[c].role)
  <2>1. /\ pc[c] \in {"unhook", "removing"} /\ at[c] # Nowhere /\ Rival(c) # NoConn
        /\ at[c].role \in Role
    BY <1>3, PartyFacts DEF UnhookNow, RunRemove, PeerTied
  <2>2. /\ Rival(c)' = Rival(c) /\ Rival(c) \in Conn /\ at[Rival(c)] # Nowhere
        /\ Rival(c) # c
    BY <2>1, RivalStays, RivalFacts
  <2>3. Target(c) = Rival(c)
    BY <1>3, <2>1, <2>2 DEF UnhookNow, RunRemove, HasAccess, Target, ChannelOf, PeerTied
  <2>4. pc[Rival(c)] = "idle"
    BY <1>3, <2>1, <2>2, <2>3 DEF UnhookNow, RunRemove, Free, HandlerTied
  <2> QED
    BY <1>1, <2>2, <2>4
<1>4. CASE ~PastRival(c) /\ ~((UnhookNow(c) \/ RunRemove(c)) /\ side[c] # at[c].role)
  <2>1. CASE Process(c)
    <3>1. at[c].role \in Role /\ side[c] \in Role /\ at'[c] = at[c]
      BY <2>1, PartyFacts, HandlerSteps DEF TypeOK
    <3>2. CASE Hook(c)
      BY <1>4, <3>1, <3>2 DEF Hook, Role, TypeOK
    <3>3. CASE CheckBoth(c)
      BY <1>4, <3>1, <3>3 DEF CheckBoth, TypeOK
    <3>4. CASE UnhookNow(c) \/ UnhookWaits(c) \/ UnhookThrows(c) \/ RunRemove(c)
      BY <1>4, <3>1, <3>4 DEF UnhookNow, UnhookWaits, UnhookThrows, RunRemove, TypeOK
    <3> QED
      BY <1>4, <2>1, <3>1, <3>2, <3>3, <3>4 DEF Process, Claim, ClaimFails, CheckAlone, Respond,
           CloseSession, Return, TypeOK
  <2>2. CASE ~Process(c)
    <3>1. CASE \E d \in Conn : Process(d)
      <4>1. pc'[c] = pc[c] /\ side'[c] = side[c] /\ at'[c] = at[c]
        BY <2>2, <3>1, HandlerSteps
      <4> QED
        BY <1>4, <4>1
    <3>2. CASE ~ \E d \in Conn : Process(d)
      <4>1. /\ pc'[c] = pc[c] /\ side'[c] = side[c]
            /\ pc[c] # "idle" => at'[c] = at[c]
        BY <3>2, OtherSteps, PartyFacts
      <4> QED
        BY <1>4, <4>1
    <3> QED
      BY <3>1, <3>2
  <2> QED
    BY <2>1, <2>2
<1> QED
  BY <1>2, <1>3, <1>4

Switched(x, y) == relay[x] = y /\ pipe[x] \in {"relay", "gone"}

(* The channels a joining handler has switched over stay so.               *)
HalfJoined ==
  \A c \in Conn :
    /\ Joining(c) /\ side[c] = "fgw" => Switched(ChannelOf(c, "client"), ChannelOf(c, "fgw"))
    /\ pc[c] \in {"respond", "close"} => Switched(ChannelOf(c, "fgw"), ChannelOf(c, "client"))

(* A pipeline is changed by its own connection's handler or, when that has *)
(* ended, by the other party's.                                            *)
LEMMA Touches ==
  ASSUME TypeOK, HandlerTied, ClaimTied, PeerTied, RivalDone, [Next]_vars,
         NEW e \in Conn, Process(e),
         NEW x \in Conn, pipe'[x] # pipe[x] \/ relay'[x] # relay[x]
  PROVE  /\ pc[e] \in {"unhook", "removing", "hook"} /\ x = Target(e)
         /\ x # e => x = Rival(e) /\ Rival(x) = e /\ pc[x] = "idle"
<1>1. UnhookNow(e) \/ RunRemove(e) \/ Hook(e)
  BY DEF Process, Claim, ClaimFails, CheckAlone, CheckBoth, UnhookThrows, UnhookWaits, Respond,
     CloseSession, Return, chanVars
<1>2. /\ pc[e] \in {"unhook", "removing", "hook"} /\ x = Target(e) /\ pc'[e] # "idle"
      /\ UNCHANGED peer
  BY <1>1 DEF UnhookNow, RunRemove, Hook, TypeOK
<1>3. ASSUME x # e PROVE x = Rival(e) /\ Rival(x) = e /\ pc[x] = "idle"
  <2>1. /\ at[e] # Nowhere /\ Rival(e) # NoConn /\ claimed[at[e].s][at[e].role] = e
        /\ at[e].role \in Role /\ side[e] \in Role
    BY <1>2, PartyFacts DEF PeerTied, Joining, ClaimTied, TypeOK
  <2>2. x = peer[e] /\ side[e] # at[e].role
    BY <1>2, <1>3 DEF Target, ChannelOf
  <2>3. x = Rival(e)
    BY <1>2, <2>2, SuperRouterAssumption DEF PeerTied, Joining
  <2>4. Rival(x) = e
    BY <2>1, <2>3, RivalFacts
  <2>5. PastRival(e)'
    <3>1. CASE UnhookNow(e) \/ RunRemove(e)
      BY <3>1, <2>2, HandlerSteps DEF UnhookNow, RunRemove, PastRival, TypeOK
    <3>2. CASE Hook(e)
      BY <3>2, <2>1, <2>2, HandlerSteps DEF Hook, PastRival, Joining, Role, TypeOK
    <3> QED
      BY <1>1, <3>1, <3>2
  <2>6. RivalDone' /\ Rival(e)' = Rival(e)
    BY <2>1, RivalStays, RivalDoneInductive
  <2> QED
    BY <1>3, <2>3, <2>4, <2>5, <2>6, HandlerSteps DEF RivalDone
<1> QED
  BY <1>2, <1>3

(* While a handler joins two channels nobody undoes what it has done.      *)
LEMMA HalfJoinedInductive ==
  /\ TypeOK /\ HandlerTied /\ ClaimTied /\ PeerTied /\ RivalDone /\ HalfJoined
  /\ [Next]_vars
  => HalfJoined'
<1> SUFFICES ASSUME TypeOK, HandlerTied, ClaimTied, PeerTied, RivalDone, HalfJoined, [Next]_vars,
                    NEW c \in Conn, Joining(c)'
             PROVE  /\ side'[c] = "fgw" =>
                         Switched(ChannelOf(c, "client"), ChannelOf(c, "fgw"))'
                    /\ pc'[c] \in {"respond", "close"} =>
                         Switched(ChannelOf(c, "fgw"), ChannelOf(c, "client"))'
  BY DEF HalfJoined, Joining
(* The channels a handler joins.                                           *)
<1>1. ASSUME Joining(c)
      PROVE  /\ at[c] # Nowhere /\ at[c].role \in Role /\ at'[c] = at[c] /\ pc[c] # "idle"
             /\ Rival(c) \in Conn /\ Rival(c) # c /\ Rival(Rival(c)) = c
             /\ peer[c] \in {NoConn, Rival(c)}
  BY <1>1, PartyFacts, RivalFacts, RivalStays DEF PeerTied, ClaimTied, Joining
(* Nobody else undoes what this handler has done.                          *)
<1>2. ASSUME Joining(c), NEW e \in Conn, Process(e), e # c, NEW x \in Conn,
             x = c \/ (x = Rival(c) /\ PastRival(c))
      PROVE  pipe'[x] = pipe[x] /\ relay'[x] = relay[x]
  <2> SUFFICES ASSUME pipe'[x] # pipe[x] \/ relay'[x] # relay[x] PROVE FALSE
    OBVIOUS
  <2>1. pc[e] # "idle" /\ (x # e => pc[x] = "idle" /\ Rival(x) = e)
    BY <1>2, Touches
  <2> QED
    BY <1>1, <1>2, <2>1 DEF RivalDone
<1>3. CASE pc'[c] = pc[c] /\ side'[c] = side[c] /\ peer'[c] = peer[c] /\ ~Process(c)
  <2>1. Joining(c)
    BY <1>3 DEF Joining
  <2>2. ASSUME NEW x \in Conn, x = c \/ (x = Rival(c) /\ PastRival(c))
        PROVE  relay'[x] = relay[x] /\ pipe'[x] \in {pipe[x], "gone"}
    <3>1. CASE \E e \in Conn : Process(e)
      BY <1>2, <1>3, <2>1, <2>2, <3>1
    <3>2. CASE ~ \E e \in Conn : Process(e)
      BY <3>2, OtherSteps
    <3> QED
      BY <3>1, <3>2
  <2>3. ASSUME side[c] = "fgw"
        PROVE  Switched(ChannelOf(c, "client"), ChannelOf(c, "fgw"))'
    <3>1. Switched(ChannelOf(c, "client"), ChannelOf(c, "fgw"))
      BY <2>1, <2>3 DEF HalfJoined
    <3>2. at[c].role = "fgw" => peer[c] = Rival(c) /\ PastRival(c)
      BY <1>1, <2>1, <2>3 DEF PeerTied, PastRival
    <3> QED
      BY <1>1, <1>3, <2>1, <2>2, <3>1, <3>2 DEF Switched, ChannelOf, Role
  <2>4. ASSUME pc[c] \in {"respond", "close"}
        PROVE  Switched(ChannelOf(c, "fgw"), ChannelOf(c, "client"))'
    <3>1. Switched(ChannelOf(c, "fgw"), ChannelOf(c, "client"))
      BY <2>4 DEF HalfJoined
    <3>2. peer[c] = Rival(c) /\ PastRival(c)
      BY <1>1, <2>1, <2>4 DEF PeerTied, PastRival
    <3> QED
      BY <1>1, <1>3, <2>1, <2>2, <3>1, <3>2 DEF Switched, ChannelOf, Role
  <2> QED
    BY <1>3, <2>3, <2>4
<1>4. CASE Hook(c)
  <2>1. Joining(c) /\ Target(c) # NoConn /\ UNCHANGED peer
    BY <1>4 DEF Hook, Joining, PeerTied
  <2>2. CASE side[c] = "client"
    <3>1. ChannelOf(c, "client") \in Conn
      BY <1>1, <2>1, <2>2 DEF Target, ChannelOf, Role
    <3> QED
      BY <1>1, <1>4, <2>1, <2>2, <3>1 DEF Hook, Target, ChannelOf, Switched, Other, TypeOK
  <2>3. CASE side[c] = "fgw"
    <3>1. peer[c] = Rival(c)
      BY <1>1, <2>1, <2>3 DEF Target, ChannelOf, PeerTied, Role
    <3>2. Switched(ChannelOf(c, "client"), ChannelOf(c, "fgw"))
      BY <2>1, <2>3 DEF HalfJoined
    <3>3. /\ ChannelOf(c, "client") \in Conn /\ ChannelOf(c, "fgw") \in Conn
          /\ ChannelOf(c, "client") # ChannelOf(c, "fgw")
          /\ ChannelOf(c, "client")' = ChannelOf(c, "client")
          /\ ChannelOf(c, "fgw")' = ChannelOf(c, "fgw")
      BY <1>1, <2>1, <3>1 DEF ChannelOf, Role
    <3> QED
      BY <1>4, <2>3, <3>2, <3>3 DEF Hook, Target, Switched, Other, TypeOK
  <2> QED
    BY <2>2, <2>3 DEF TypeOK, Role
<1>5. CASE UnhookNow(c) \/ RunRemove(c)
  <2>1. Joining(c) /\ UNCHANGED <<peer, side, relay>> /\ pc'[c] = "hook"
    BY <1>5 DEF UnhookNow, RunRemove, Joining, TypeOK
  <2>2. ASSUME side[c] = "fgw"
        PROVE  Switched(ChannelOf(c, "client"), ChannelOf(c, "fgw"))'
    <3>1. Switched(ChannelOf(c, "client"), ChannelOf(c, "fgw"))
      BY <2>1, <2>2 DEF HalfJoined
    <3>2. /\ at[c].role = "fgw" => peer[c] = Rival(c)
          /\ ChannelOf(c, "client") \in Conn
      BY <1>1, <2>1, <2>2, <1>5 DEF PeerTied, ChannelOf, Target, Role, HasAccess, UnhookNow, RunRemove
    <3>3. ChannelOf(c, "client") # Target(c)
      BY <1>1, <2>1, <2>2, <3>2, SuperRouterAssumption DEF ChannelOf, Target, Role
    <3> QED
      BY <1>1, <1>5, <2>1, <3>1, <3>2, <3>3 DEF UnhookNow, RunRemove, Switched, ChannelOf, TypeOK
  <2> QED
    BY <2>1, <2>2
<1>6. CASE CheckBoth(c)
  BY <1>6 DEF CheckBoth, TypeOK
<1>7. CASE UnhookWaits(c) \/ Respond(c)
  <2>1. /\ Joining(c) /\ UNCHANGED <<peer, side, relay, pipe>>
        /\ pc'[c] \in {"removing", "close"} /\ (pc'[c] = "close" => pc[c] = "respond")
    BY <1>7 DEF UnhookWaits, Respond, Joining, chanVars, TypeOK
  <2> QED
    BY <1>1, <2>1 DEF HalfJoined, Switched, ChannelOf
<1>8. CASE Process(c)
  BY <1>4, <1>5, <1>6, <1>7, <1>8 DEF Process, Claim, ClaimFails, CheckAlone, UnhookThrows,
     CloseSession, Return, Joining, TypeOK
<1>9. CASE ~Process(c)
  <2>1. pc'[c] = pc[c] /\ side'[c] = side[c] /\ peer'[c] = peer[c]
    <3>1. CASE \E e \in Conn : Process(e)
      BY <1>9, <3>1, HandlerSteps
    <3>2. CASE ~ \E e \in Conn : Process(e)
      BY <3>2, OtherSteps DEF Joining
    <3> QED
      BY <3>1, <3>2
  <2> QED
    BY <1>3, <1>9, <2>1
<1> QED
  BY <1>8, <1>9

(* Nobody is told while its handler runs, nor without the other party, if  *)
(* that is still there.                                                    *)
ToldTogether ==
  \A c \in Conn : rsp[c] > 0 =>
    /\ pc[c] \in {"idle", "close"}
    /\ at[c] # Nowhere /\ claimed[at[c].s][at[c].role] = c
    /\ Rival(c) # NoConn /\ Switched(c, Rival(c)) /\ relay[Rival(c)] = c
    /\ rsp[Rival(c)] > 0 \/ link[Rival(c)] \notin Up

(* Both parties are told by one handler, when the other has ended; nobody  *)
(* is told again.                                                          *)
LEMMA ToldInductive ==
  /\ TypeOK /\ HandlerTied /\ ClaimTied /\ PeerTied /\ RivalDone /\ HalfJoined /\ ToldTogether
  /\ AtMostOneRsp /\ [Next]_vars
  => ToldTogether' /\ AtMostOneRsp'
<1> SUFFICES ASSUME TypeOK, HandlerTied, ClaimTied, PeerTied, RivalDone, HalfJoined, ToldTogether,
                    AtMostOneRsp, [Next]_vars, NEW c \in Conn
             PROVE  /\ rsp'[c] > 0 =>
                         /\ pc'[c] \in {"idle", "close"}
                         /\ at'[c] # Nowhere /\ claimed'[at'[c].s][at'[c].role] = c
                         /\ Rival(c)' # NoConn /\ Switched(c, Rival(c))' /\ relay'[Rival(c)'] = c
                         /\ rsp'[Rival(c)'] > 0 \/ link'[Rival(c)'] \notin Up
                    /\ rsp'[c] <= 1
  BY DEF ToldTogether, AtMostOneRsp
(* What is known of a party that was told, and of the other.               *)
<1>1. ASSUME NEW x \in Conn, rsp[x] > 0
      PROVE  /\ pc[x] \in {"idle", "close"} /\ at[x] # Nowhere /\ at'[x] = at[x]
             /\ claimed[at[x].s][at[x].role] = x /\ claimed'[at[x].s][at[x].role] = x
             /\ Rival(x) \in Conn /\ Rival(Rival(x)) = x /\ Rival(x)' = Rival(x)
             /\ at[Rival(x)] # Nowhere /\ pc[Rival(x)] \in {"idle", "close"}
             /\ rsp[Rival(x)] > 0 \/ link[Rival(x)] \notin Up
  <2>1. /\ pc[x] \in {"idle", "close"} /\ at[x] # Nowhere /\ claimed[at[x].s][at[x].role] = x
        /\ Rival(x) # NoConn
        /\ rsp[Rival(x)] > 0 \/ link[Rival(x)] \notin Up
    BY <1>1 DEF ToldTogether
  <2>2. Rival(x) \in Conn /\ Rival(Rival(x)) = x /\ at[Rival(x)] # Nowhere
        /\ Rival(x)' = Rival(x) /\ at'[x] = at[x]
    BY <2>1, RivalFacts, RivalStays
  <2>3. at[x].s \in Session /\ at[x].role \in Role
    BY <2>1, PartyFacts
  <2>4. claimed'[at[x].s][at[x].role] = x
    BY <2>1, <2>3, Stays, SuperRouterAssumption
  <2>5. pc[Rival(x)] \in {"idle", "close"}
    BY <2>1, <2>2 DEF ToldTogether, HandlerTied
  <2> QED
    BY <2>1, <2>2, <2>4, <2>5
<1>2. CASE \E e \in Conn : Respond(e) /\ c \in {e, peer[e]} /\ link[c] \in Up
  <2> PICK e \in Conn : Respond(e) /\ c \in {e, peer[e]} /\ link[c] \in Up
    BY <1>2
  <2>1. /\ pc[e] = "respond" /\ at[e] # Nowhere /\ at'[e] = at[e] /\ link[e] \in Up
        /\ at[e].s \in Session /\ at[e].role \in Role
        /\ claimed[at[e].s][at[e].role] = e /\ claimed'[at[e].s][at[e].role] = e
        /\ peer[e] = Rival(e) /\ Rival(e)' = Rival(e) /\ side[e] = "fgw"
    BY PartyFacts, RivalStays, Stays, SuperRouterAssumption
       DEF Respond, PeerTied, Joining, ClaimTied
  <2>2. /\ Rival(e) \in Conn /\ Rival(e) # e /\ at[Rival(e)] # Nowhere /\ Rival(Rival(e)) = e
        /\ at[Rival(e)].s = at[e].s /\ at[Rival(e)].role = Other(at[e].role)
        /\ claimed[at[Rival(e)].s][at[Rival(e)].role] = Rival(e)
        /\ claimed'[at[Rival(e)].s][at[Rival(e)].role] = Rival(e)
        /\ Rival(Rival(e))' = e /\ at'[Rival(e)] = at[Rival(e)]
    <3>1. Rival(e) # NoConn
      BY <2>1 DEF PeerTied, Joining
    <3>2. /\ Rival(e) \in Conn /\ Rival(e) # e /\ at[Rival(e)] # Nowhere /\ Rival(Rival(e)) = e
          /\ at[Rival(e)] = [s |-> at[e].s, role |-> Other(at[e].role)]
      BY <2>1, <3>1, RivalFacts
    <3>3. /\ Rival(e) \in Conn /\ Rival(e) # e /\ at[Rival(e)] # Nowhere /\ Rival(Rival(e)) = e
          /\ at[Rival(e)].s = at[e].s /\ at[Rival(e)].role = Other(at[e].role)
      BY <3>2
    <3>4. at'[Rival(e)] = at[Rival(e)]
      BY <3>3, Stays
    <3>5. claimed[at[Rival(e)].s][at[Rival(e)].role] = Rival(e)
      BY <3>3 DEF Rival
    <3>6. claimed'[at[Rival(e)].s][at[Rival(e)].role] = Rival(e)
      BY <2>1, <3>3 DEF Rival
    <3>7. Other(Other(at[e].role)) = at[e].role
      BY <2>1, RoleFacts
    <3>8. Rival(Rival(e))' = claimed'[at'[Rival(e)].s][Other(at'[Rival(e)].role)]
      BY <2>1 DEF Rival
    <3> QED
      BY <2>1, <3>3, <3>4, <3>5, <3>6, <3>7, <3>8
  <2>3. pc[Rival(e)] = "idle"
    BY <2>1 DEF RivalDone, PastRival
  <2>4. /\ Switched(e, Rival(e)) /\ Switched(Rival(e), e)
    <3>1. {ChannelOf(e, "client"), ChannelOf(e, "fgw")} = {e, Rival(e)}
      BY <2>1 DEF ChannelOf, Role
    <3>2. /\ Switched(ChannelOf(e, "client"), ChannelOf(e, "fgw"))
          /\ Switched(ChannelOf(e, "fgw"), ChannelOf(e, "client"))
      BY <2>1 DEF HalfJoined, Joining
    <3> QED
      BY <2>1, <3>1, <3>2 DEF ChannelOf, Role
  <2>5. rsp[e] = 0 /\ rsp[Rival(e)] = 0
    <3>1. ~(rsp[e] > 0)
      BY <2>1, <1>1
    <3>2. ~(rsp[Rival(e)] > 0)
      BY <2>1, <2>2, <3>1, <1>1
    <3> QED
      BY <2>2, <3>1, <3>2 DEF TypeOK
  <2>6. /\ UNCHANGED <<link, pipe, relay, at, claimed>>
        /\ pc'[e] = "close" /\ pc'[Rival(e)] = "idle"
        /\ rsp'[e] = 1
        /\ rsp'[Rival(e)] = IF link[Rival(e)] \in Up THEN 1 ELSE 0
    BY <2>1, <2>2, <2>3, <2>5 DEF Respond, chanVars, TypeOK
  <2>7. CASE c = e
    BY <2>1, <2>2, <2>4, <2>6, <2>7, SuperRouterAssumption DEF Switched
  <2>8. CASE c = Rival(e)
    BY <2>1, <2>2, <2>4, <2>6, <2>8, SuperRouterAssumption DEF Switched
  <2> QED
    BY <2>1, <2>7, <2>8
<1>3. CASE ~ \E e \in Conn : Respond(e) /\ c \in {e, peer[e]} /\ link[c] \in Up
  (* Nobody is told less than before, and c no more.                       *)
  <2>1. rsp'[c] = rsp[c] /\ \A x \in Conn : rsp[x] > 0 => rsp'[x] > 0
    <3>1. CASE \E e \in Conn : Respond(e)
      <4> PICK e \in Conn : Respond(e)
        BY <3>1
      <4>1. \A x \in Conn : rsp[x] \in Nat /\
              rsp'[x] = IF x \in {e, peer[e]} /\ link[x] \in Up THEN rsp[x] + 1 ELSE rsp[x]
        BY DEF Respond, TypeOK
      <4>2. ~(c \in {e, peer[e]} /\ link[c] \in Up)
        BY <1>3
      <4> QED
        BY <4>1, <4>2
    <3>2. CASE ~ \E e \in Conn : Respond(e)
      <4>1. CASE \E e \in Conn : Process(e)
        BY <3>2, <4>1 DEF Process, Claim, ClaimFails, CheckAlone, CheckBoth, UnhookThrows, UnhookNow,
           UnhookWaits, RunRemove, Hook, CloseSession, Return
      <4>2. CASE ~ \E e \in Conn : Process(e)
        BY <4>2, OtherSteps
      <4> QED
        BY <4>1, <4>2
    <3> QED
      BY <3>1, <3>2
  <2>2. rsp'[c] <= 1
    BY <2>1 DEF AtMostOneRsp
  <2>3. ASSUME rsp[c] > 0
        PROVE  /\ pc'[c] \in {"idle", "close"}
               /\ relay'[c] = relay[c] /\ pipe'[c] \in {pipe[c], "gone"}
               /\ relay'[Rival(c)] = relay[Rival(c)]
               /\ link'[Rival(c)] \in Up => link[Rival(c)] \in Up
    <3>1. CASE \E e \in Conn : Process(e)
      <4> PICK e \in Conn : Process(e)
        BY <3>1
      <4>1. ASSUME NEW x \in {c, Rival(c)} PROVE pipe'[x] = pipe[x] /\ relay'[x] = relay[x]
        BY <1>1, <2>3, Touches
      <4>2. pc'[c] \in {"idle", "close"}
        <5>1. CASE e = c
          <6>1. pc[c] \in {"idle", "close"} /\ Process(c)
            BY <1>1, <2>3, <5>1
          <6>2. CloseSession(c)
            BY <6>1 DEF Process, Claim, ClaimFails, CheckAlone, CheckBoth, UnhookThrows,
               UnhookNow, UnhookWaits, RunRemove, Hook, Respond, Return
          <6> QED
            BY <6>2 DEF CloseSession, TypeOK
        <5>2. CASE e # c
          BY <1>1, <2>3, <5>2, HandlerSteps
        <5> QED
          BY <5>1, <5>2
      <4>3. link'[Rival(c)] \in {link[Rival(c)], "closed"}
        BY <1>1, <2>3, HandlerSteps
      <4> QED
        BY <4>1, <4>2, <4>3, <1>1, <2>3 DEF Up
    <3>2. CASE ~ \E e \in Conn : Process(e)
      BY <1>1, <2>3, <3>2, OtherSteps
    <3> QED
      BY <3>1, <3>2
  <2>4. ASSUME rsp[c] > 0
        PROVE  /\ at'[c] # Nowhere /\ claimed'[at'[c].s][at'[c].role] = c
               /\ Rival(c)' # NoConn /\ Switched(c, Rival(c))' /\ relay'[Rival(c)'] = c
               /\ rsp'[Rival(c)'] > 0 \/ link'[Rival(c)'] \notin Up
    <3>1. Rival(c) # NoConn /\ Switched(c, Rival(c)) /\ relay[Rival(c)] = c
      BY <2>4 DEF ToldTogether
    <3> QED
      BY <1>1, <2>1, <2>3, <2>4, <3>1 DEF Switched
  <2> QED
    BY <2>1, <2>2, <2>3, <2>4
<1> QED
  BY <1>2, <1>3

(* What a relay writes to is the channel of the other party.              *)
RelayTied ==
  \A c \in Conn : Relays(c) =>
    \E s \in Session, r \in Role : claimed[s][r] = c /\ claimed[s][Other(r)] = relay[c]

(* A relay leads to the other party of the session.                        *)
LEMMA RelayInductive ==
  TypeOK /\ HandlerTied /\ ClaimTied /\ PeerTied /\ RelayTied /\ [Next]_vars => RelayTied'
<1> SUFFICES ASSUME TypeOK, HandlerTied, ClaimTied, PeerTied, RelayTied, [Next]_vars,
                    NEW c \in Conn, Relays(c)'
             PROVE  \E s \in Session, r \in Role :
                      claimed'[s][r] = c /\ claimed'[s][Other(r)] = relay'[c]
  BY DEF RelayTied
<1>1. CASE relay'[c] = relay[c] /\ pipe[c] = "relay"
  <2>1. Relays(c)
    BY <1>1 DEF Relays
  <2>2. PICK s \in Session, r \in Role : claimed[s][r] = c /\ claimed[s][Other(r)] = relay[c]
    BY <2>1 DEF RelayTied
  <2>3. claimed[s][r] # NoConn /\ claimed[s][Other(r)] # NoConn /\ Other(r) \in Role
    BY <2>1, <2>2, RoleFacts, SuperRouterAssumption DEF Relays
  <2> QED
    BY <1>1, <2>2, <2>3, Stays
<1>2. CASE \E e \in Conn : Hook(e) /\ Target(e) = c
  <2> PICK e \in Conn : Hook(e) /\ Target(e) = c
    BY <1>2
  <2>1. /\ at[e] # Nowhere /\ at[e].s \in Session /\ at[e].role \in Role
        /\ claimed[at[e].s][at[e].role] = e
        /\ peer[e] \in {NoConn, claimed[at[e].s][Other(at[e].role)]}
    BY PartyFacts DEF Hook, PeerTied, Joining, ClaimTied, Rival
  <2>2. /\ side[e] \in Role /\ UNCHANGED claimed
        /\ relay'[c] = ChannelOf(e, Other(side[e])) /\ relay'[c] # NoConn
    BY <1>2 DEF Hook, Relays, TypeOK
  <2>3. claimed[at[e].s][side[e]] = c /\ claimed[at[e].s][Other(side[e])] = relay'[c]
    BY <2>1, <2>2, SuperRouterAssumption DEF Target, ChannelOf, Role, Other
  <2> QED
    BY <2>1, <2>2, <2>3
<1>3. CASE ~(\E e \in Conn : Hook(e) /\ Target(e) = c)
  <2>1. relay'[c] = relay[c] /\ pipe[c] = "relay"
    <3>1. CASE \E e \in Conn : Process(e)
      BY <1>3, <3>1 DEF Process, Claim, ClaimFails, CheckAlone, CheckBoth, UnhookThrows, UnhookNow,
         UnhookWaits, RunRemove, Hook, Respond, CloseSession, Return, Relays, chanVars, TypeOK
    <3>2. CASE ~ \E e \in Conn : Process(e)
      BY <3>2, OtherSteps DEF Relays
    <3> QED
      BY <3>1, <3>2
  <2> QED
    BY <1>1, <2>1
<1> QED
  BY <1>2, <1>3

-----------------------------------------------------------------------------
(* The inductive invariant of the router.                                  *)
SafetyInv ==
  /\ TypeOK /\ HandlerTied /\ ClaimTied /\ PeerTied /\ RivalDone /\ HalfJoined /\ ToldTogether
  /\ AtMostOneRsp /\ RelayTied

(* It holds when nobody has connected yet,                                 *)
LEMMA InitSafety == Init => SafetyInv
<1> SUFFICES ASSUME Init PROVE SafetyInv
  OBVIOUS
<1>1. TypeOK
  BY DEF Init, TypeOK, Link, Step, Role
<1>2. HandlerTied /\ ClaimTied
  BY DEF Init, HandlerTied, ClaimTied
<1>3. \A c \in Conn : pc[c] = "idle" /\ rsp[c] = 0 /\ pipe[c] = "access"
  BY DEF Init
<1>4. PeerTied /\ RivalDone /\ HalfJoined
  BY <1>3 DEF PeerTied, RivalDone, HalfJoined, PastRival, Joining
<1>5. ToldTogether /\ AtMostOneRsp /\ RelayTied
  BY <1>3 DEF ToldTogether, AtMostOneRsp, RelayTied, Relays
<1> QED
  BY <1>1, <1>2, <1>4, <1>5 DEF SafetyInv

(* is kept by every step,                                                  *)
LEMMA StepSafety == SafetyInv /\ [Next]_vars => SafetyInv'
BY TypeInductive, HandlerInductive, ClaimInductive, PeerInductive, RivalDoneInductive,
   HalfJoinedInductive, ToldInductive, RelayInductive DEF SafetyInv

(* and so holds in every reachable state.                                  *)
LEMMA Safety == Spec => []SafetyInv
BY InitSafety, StepSafety, PTL DEF Spec

(* In every reachable state the variables have their types: a token finds  *)
(* an allocated session or none, a handler is at one of the steps of       *)
(* processConnectRequest.                                                  *)
THEOREM RouterTypeCorrect == Spec => []TypeOK
<1>1. SafetyInv => TypeOK
  BY DEF SafetyInv
<1> QED
  BY <1>1, Safety, PTL

(* However the handlers of a session's parties, the timer and the loops'   *)
(* tasks interleave, a channel is relayed to the other party of its own    *)
(* session only, and no two to the same (compareAndSet and addLast in      *)
(* processConnectRequest).                                                 *)
THEOREM RouterExclusive == Spec => []Exclusive
<1>1. SafetyInv => Exclusive
  <2> SUFFICES ASSUME SafetyInv PROVE Exclusive
    OBVIOUS
  <2>1. ASSUME NEW c \in Conn, NEW d \in Conn, Relays(c), Relays(d), relay[c] = relay[d]
        PROVE  c = d
    <3>1. PICK s \in Session, r \in Role : claimed[s][r] = c /\ claimed[s][Other(r)] = relay[c]
      BY <2>1 DEF SafetyInv, RelayTied
    <3>2. PICK q \in Session, o \in Role : claimed[q][o] = d /\ claimed[q][Other(o)] = relay[c]
      BY <2>1 DEF SafetyInv, RelayTied
    <3>3. /\ at[relay[c]] = [s |-> s, role |-> Other(r)]
          /\ at[relay[c]] = [s |-> q, role |-> Other(o)]
      BY <2>1, <3>1, <3>2, RoleFacts DEF SafetyInv, ClaimTied, Relays
    <3>4. s = q /\ Other(r) = Other(o)
      BY <3>3
    <3> QED
      BY <3>1, <3>2, <3>4, RoleFacts
  <2> QED
    BY <2>1 DEF SafetyInv, RelayTied, Exclusive
<1> QED
  BY <1>1, Safety, PTL

(* No party is sent two CONNECT_RSPs, though both handlers may set out to  *)
(* join the channels (sendConnectRsp at the end of processConnectRequest). *)
THEOREM RouterAtMostOneRsp == Spec => []AtMostOneRsp
<1>1. SafetyInv => AtMostOneRsp
  BY DEF SafetyInv
<1> QED
  BY <1>1, Safety, PTL

(* A party that was sent a CONNECT_RSP has its channel joined to the other *)
(* party's, in both directions, for as long as it lasts.                   *)
THEOREM RouterToldIsJoined == Spec => []ToldIsJoined
<1>1. SafetyInv => ToldIsJoined
  <2> SUFFICES ASSUME SafetyInv, NEW c \in Conn, rsp[c] > 0
               PROVE  /\ relay[c] # NoConn /\ relay[relay[c]] = c
                      /\ pipe[c] \in {"relay", "gone"}
    BY DEF ToldIsJoined
  <2> QED
    BY DEF SafetyInv, ToldTogether, Switched
<1> QED
  BY <1>1, Safety, PTL
=============================================================================
