------------------------- MODULE SuperRouterTurnProofs -------------------------
(***************************************************************************)
(* The super router joins two parties whose handlers did not overlap, for  *)
(* any number of connections, tokens, sessions and event loops: the first  *)
(* leaves everything the second needs, and nobody else touches it.         *)
(***************************************************************************)
EXTENDS SuperRouterProofs

(* A handler that asked for its part has its access handler still.         *)
FreshPipe == \A c \in Conn : pc[c] = "found" => pipe[c] = "access"

(* A party that waits for the other does nothing but wait, and what it     *)
(* leaves when its handler has ended is there to be found.                 *)
Waiting(c) ==
  /\ pc[c] \in {"claimed", "return", "idle"}
  /\ pc[c] = "idle" => Visible(c)
  /\ link[c] \in Up => pipe[c] = "access"

WaitInv == \A c \in Conn : Holds(c) /\ Rival(c) = NoConn => Waiting(c)

(* How far the handler of the party that came second is, while both are    *)
(* there: what it has yet to switch over is as it was.                     *)
Progress(d) ==
  /\ pc[d] # "return"
  /\ pc[d] = "claimed" => pipe[d] = "access" /\ pipe[Rival(d)] = "access"
  /\ pc[d] \in {"unhook", "removing", "hook"} =>
       /\ peer[d] = Rival(d)
       /\ side[d] = "client" => pipe[ChannelOf(d, "fgw")] = "access"
  /\ pc[d] = "unhook" => pipe[Target(d)] = "access"
  /\ pc[d] \in {"close", "idle"} => rsp[d] > 0 /\ rsp[Rival(d)] > 0

(* d came second, to a party whose handler had ended.                      *)
Second(d) ==
  /\ pc[Rival(d)] = "idle" /\ Visible(Rival(d)) /\ pc[d] # "found"
  /\ link[d] \in Up /\ link[Rival(d)] \in Up => Progress(d)

TurnInv ==
  \A d, e \in Conn : Holds(d) /\ e = Rival(d) /\ at[d].s \notin overlapped =>
    Second(d) \/ Second(e)

-----------------------------------------------------------------------------
(* What every step keeps.                                                  *)
LEMMA Monotone ==
  ASSUME TypeOK, [Next]_vars
  PROVE  /\ \A s \in Session : published[s] \subseteq published'[s]
         /\ overlapped \subseteq overlapped'
         /\ \A x \in Conn : rsp[x] > 0 => rsp'[x] > 0
         /\ \A x \in Conn : link[x] # "new" /\ link'[x] \in Up => link[x] \in Up
<1> USE DEF TypeOK
<1>1. CASE \E t \in Token : Allocate(t) \/ TimerFinds(t)
  BY <1>1 DEF Allocate, TimerFinds, chanVars
<1>2. CASE TimerRemoves \/ UNCHANGED vars
  BY <1>2 DEF TimerRemoves, vars, chanVars
<1>3. ASSUME NEW c \in Conn, Publish(c)
      PROVE  /\ \A s \in Session : published[s] \subseteq published'[s]
             /\ UNCHANGED <<overlapped, rsp, link>>
  BY <1>3 DEF Publish, chanVars
<1>4. CASE \E c \in Conn : Accept(c) \/ Close(c) \/ Inactive(c) \/ Teardown(c)
  BY <1>4, LinkSteps DEF Accept, Close, Inactive, Teardown
<1>5. CASE \E c \in Conn, t \in Token, r \in Role : Connect(c, t, r)
  BY <1>5 DEF Connect, chanVars
<1>6. ASSUME NEW c \in Conn, Process(c)
      PROVE  /\ published' = published /\ overlapped \subseteq overlapped'
             /\ \A x \in Conn : rsp[x] > 0 => rsp'[x] > 0
             /\ \A x \in Conn : link'[x] \in Up => link[x] \in Up
  <2>1. \A x \in Conn : link'[x] \in {link[x], "closed"}
    BY <1>6, HandlerSteps
  <2>2. \A x \in Conn : link'[x] \in Up => link[x] \in Up
    BY <2>1 DEF Up
  <2>3. published' = published /\ overlapped \subseteq overlapped'
    BY <1>6 DEF Process, Claim, ClaimFails, CheckAlone, CheckBoth, UnhookThrows, UnhookNow, UnhookWaits,
         RunRemove, Hook, Respond, CloseSession, Return
  <2>4. \A x \in Conn : rsp[x] > 0 => rsp'[x] > 0
    <3>1. CASE Respond(c)
      BY <3>1 DEF Respond
    <3>2. CASE ~Respond(c)
      BY <1>6, <3>2 DEF Process, Claim, ClaimFails, CheckAlone, CheckBoth, UnhookThrows, UnhookNow,
           UnhookWaits, RunRemove, Hook, CloseSession, Return
    <3> QED
      BY <3>1, <3>2
  <2> QED
    BY <2>2, <2>3, <2>4
<1> QED
  BY <1>1, <1>2, <1>3, <1>4, <1>5, <1>6, NextCases

(* A connection whose handler does not run, and whose rival's does not     *)
(* either, is left alone as long as it is up.                              *)
LEMMA Undisturbed ==
  ASSUME SafetyInv, [Next]_vars, NEW x \in Conn, at[x] # Nowhere, ~Process(x),
         pc[x] # "idle" \/ \A e \in Conn : Process(e) => Rival(x) # e
  PROVE  /\ pc'[x] = pc[x] /\ side'[x] = side[x] /\ peer'[x] = peer[x] /\ at'[x] = at[x]
         /\ link'[x] \in Up => link[x] \in Up /\ pipe'[x] = pipe[x]
<1> USE DEF SafetyInv
<1>1. link'[x] \in Up => link[x] \in Up
  BY Monotone DEF HandlerTied
<1>2. CASE \E e \in Conn : Process(e)
  <2> PICK e \in Conn : Process(e)
    BY <1>2
  <2>1. e # x
    OBVIOUS
  <2>2. pipe'[x] = pipe[x]
    BY <2>1, Touches
  <2> QED
    BY <1>1, <2>1, <2>2, HandlerSteps
<1>3. CASE ~ \E e \in Conn : Process(e)
  <2>1. pc'[x] = pc[x] /\ side'[x] = side[x] /\ peer'[x] = peer[x] /\ at'[x] = at[x]
    BY <1>3, OtherSteps
  <2>2. link'[x] \in Up => pipe'[x] = pipe[x]
    <3>1. CASE \E c \in Conn : Accept(c) \/ Close(c) \/ Inactive(c) \/ Teardown(c)
      BY <3>1 DEF Accept, Close, Inactive, Teardown, Up, TypeOK
    <3>2. CASE \E c \in Conn, t \in Token, r \in Role : Connect(c, t, r)
      BY <3>2 DEF Connect, chanVars
    <3> QED
      BY <1>3, <3>1, <3>2, NextCases, QuietSteps
  <2> QED
    BY <1>1, <2>1, <2>2
<1> QED
  BY <1>2, <1>3

(* A part is taken by compareAndSet only.                                  *)
LEMMA NewClaim ==
  ASSUME SafetyInv, [Next]_vars, NEW s \in Session, NEW r \in Role,
         claimed[s][r] = NoConn, claimed'[s][r] # NoConn
  PROVE  Claim(claimed'[s][r]) /\ claimed'[s][r] \in Conn /\ at[claimed'[s][r]] = [s |-> s, role |-> r]
<1> USE DEF SafetyInv
<1>1. CASE \E e \in Conn : Claim(e)
  <2> PICK e \in Conn : Claim(e)
    BY <1>1
  <2>1. at[e].s \in Session /\ at[e].role \in Role /\ at[e] = [s |-> at[e].s, role |-> at[e].role]
    BY PartyFacts DEF Claim
  <2>2. claimed'[s][r] = IF s = at[e].s /\ r = at[e].role THEN e ELSE claimed[s][r]
    BY <2>1 DEF Claim, TypeOK
  <2> QED
    BY <2>1, <2>2
<1>2. CASE ~ \E e \in Conn : Claim(e)
  <2>1. UNCHANGED claimed
    <3>1. CASE \E e \in Conn : Process(e)
      BY <1>2, <3>1 DEF Process, ClaimFails, CheckAlone, CheckBoth, UnhookThrows, UnhookNow, UnhookWaits,
           RunRemove, Hook, Respond, CloseSession, Return
    <3>2. CASE ~ \E e \in Conn : Process(e)
      BY <3>2, OtherSteps
    <3> QED
      BY <3>1, <3>2
  <2> QED
    BY <2>1
<1> QED
  BY <1>1, <1>2

(* Whoever holds its part and did not before has just claimed it.          *)
LEMMA NewHolder ==
  ASSUME SafetyInv, [Next]_vars, NEW c \in Conn, Holds(c)', ~Holds(c)
  PROVE  Claim(c)
<1>1. SafetyInv'
  BY StepSafety
<1>2. at'[c] # Nowhere /\ claimed'[at'[c].s][at'[c].role] = c
  BY DEF Holds
<1>3. at'[c].s \in Session /\ at'[c].role \in Role /\ at'[c] = [s |-> at'[c].s, role |-> at'[c].role]
  BY <1>1, <1>2 DEF SafetyInv, TypeOK, Party
<1> DEFINE s == at'[c].s
           r == at'[c].role
<1>4. s \in Session /\ r \in Role /\ claimed'[s][r] = c /\ at'[c] = [s |-> s, role |-> r] /\ c # NoConn
  BY <1>2, <1>3, SuperRouterAssumption
<1>5. CASE claimed[s][r] # NoConn
  <2>1. claimed[s][r] = c
    BY <1>4, <1>5, Stays DEF SafetyInv
  <2>2. at[c] = at'[c]
    BY <1>4, <1>5, <2>1 DEF SafetyInv, ClaimTied
  <2> QED
    BY <1>2, <2>1, <2>2 DEF Holds
<1>6. CASE claimed[s][r] = NoConn
  <2> HIDE DEF s, r
  <2> QED
    BY <1>4, <1>6, NewClaim
<1> QED
  BY <1>5, <1>6

(* Nothing is done to the pipeline of a party that is about to claim.      *)
LEMMA FreshInductive == SafetyInv /\ FreshPipe /\ [Next]_vars => FreshPipe'
<1> SUFFICES ASSUME SafetyInv, FreshPipe, [Next]_vars, NEW c \in Conn, pc'[c] = "found"
             PROVE  pipe'[c] = "access"
  BY DEF FreshPipe
<1> USE DEF SafetyInv
<1>1. CASE pc[c] = "found" /\ ~Process(c)
  <2>1. pipe[c] = "access" /\ at[c] # Nowhere
    BY <1>1 DEF FreshPipe, HandlerTied
  <2>2. link'[c] \in Up
    <3>1. HandlerTied'
      BY HandlerInductive
    <3> QED
      BY <3>1 DEF HandlerTied
  <2> QED
    BY <1>1, <2>1, <2>2, Undisturbed
<1>2. CASE pc[c] # "found" /\ ~Process(c)
  <2>1. CASE \E e \in Conn, t \in Token, r \in Role : Connect(e, t, r)
    BY <1>2, <2>1 DEF Connect, chanVars, TypeOK
  <2> QED
    BY <1>2, <2>1, NextCases, QuietSteps, LinkSteps, HandlerSteps
<1>3. CASE Process(c)
  BY <1>3 DEF Process, Claim, ClaimFails, CheckAlone, CheckBoth, UnhookThrows, UnhookNow, UnhookWaits,
       RunRemove, Hook, Respond, CloseSession, Return, TypeOK
<1> QED
  BY <1>1, <1>2, <1>3

(* A party alone in its session is left alone.                             *)
LEMMA WaitInductive ==
  SafetyInv /\ FreshPipe /\ WaitInv /\ [Next]_vars => WaitInv'
<1> SUFFICES ASSUME SafetyInv, FreshPipe, WaitInv, [Next]_vars,
                    NEW c \in Conn, Holds(c)', Rival(c)' = NoConn
             PROVE  Waiting(c)'
  BY DEF WaitInv
<1> USE DEF SafetyInv
<1>1. CASE ~Holds(c)
  <2>1. Claim(c)
    BY <1>1, NewHolder
  <2> QED
    BY <2>1 DEF Claim, chanVars, FreshPipe, Waiting, TypeOK
<1>2. CASE Holds(c)
  <2>1. at[c] # Nowhere /\ Rival(c) = NoConn /\ NoConn \notin Conn
    BY <1>2, RivalStays, SuperRouterAssumption DEF Holds
  <2>2. Waiting(c) /\ at'[c] = at[c] /\ at[c].s \in Session
    BY <1>2, <2>1, Stays, PartyFacts DEF WaitInv
  <2>3. Visible(c) => Visible(c)'
    BY <2>2, Monotone DEF Visible
  <2>4. CASE ~Process(c)
    <3>1. /\ pc'[c] = pc[c]
          /\ link'[c] \in Up => link[c] \in Up /\ pipe'[c] = pipe[c]
      BY <2>1, <2>4, Undisturbed
    <3> QED
      BY <2>2, <2>3, <3>1 DEF Waiting
  <2>5. CASE CheckAlone(c)
    BY <2>2, <2>5 DEF CheckAlone, chanVars, Waiting, TypeOK
  <2>6. CASE Return(c)
    BY <2>2, <2>3, <2>6 DEF Return, chanVars, Waiting, TypeOK
  <2>7. CASE Process(c) /\ ~CheckAlone(c) /\ ~Return(c)
    BY <2>1, <2>2, <2>7 DEF Waiting, Process, Claim, ClaimFails, CheckBoth, UnhookThrows, UnhookNow,
         UnhookWaits, RunRemove, Hook, Respond, CloseSession
  <2> QED
    BY <2>4, <2>5, <2>6, <2>7
<1> QED
  BY <1>1, <1>2

(* Whoever takes its part when the other's handler has ended comes second. *)
LEMMA ClaimSecond ==
  ASSUME SafetyInv, FreshPipe, WaitInv, [Next]_vars, NEW e \in Conn,
         Claim(e), Rival(e) # NoConn, at[e].s \notin overlapped'
  PROVE  Second(e)'
<1> USE DEF SafetyInv
<1>1. at[e] # Nowhere /\ at[e].s \in Session /\ at[e].role \in Role
  BY PartyFacts DEF Claim
<1> PICK y \in Conn : y = Rival(e)
  BY <1>1, RivalFacts
<1>2. /\ y # e /\ at[y] # Nowhere /\ at[y].s = at[e].s /\ at[y].role = Other(at[e].role)
      /\ Other(Other(at[e].role)) = at[e].role
  <2>1. y # e /\ at[y] # Nowhere /\ at[y] = [s |-> at[e].s, role |-> Other(at[e].role)]
    BY <1>1, RivalFacts
  <2> QED
    BY <1>1, <2>1, RoleFacts
<1>3. pc[y] = "idle"
  BY <1>1 DEF Claim, TypeOK
<1>4. Holds(y) /\ Rival(y) = NoConn
  BY <1>2 DEF Holds, Rival, Claim
<1>5. Visible(y) /\ (link[y] \in Up => pipe[y] = "access")
  BY <1>3, <1>4 DEF WaitInv, Waiting
<1>6. /\ pc'[y] = "idle" /\ pc'[e] = "claimed" /\ link' = link /\ pipe' = pipe
      /\ Visible(y)' /\ pipe[e] = "access"
  BY <1>2, <1>3, <1>5 DEF Claim, chanVars, FreshPipe, Visible, TypeOK
<1>7. Rival(e)' = y
  BY <1>1, RivalStays
<1> QED
  BY <1>5, <1>6, <1>7 DEF Second, Progress

(* The second's own step takes it on.                                      *)
LEMMA ProgressSteps ==
  ASSUME SafetyInv, NEW d \in Conn, at[d] # Nowhere, Process(d), Second(d), NEW y \in Conn,
         y = Rival(d), y # d, at[y].role = Other(at[d].role), at[y].s = at[d].s,
         Rival(d)' = y, at' = at, pc[d] # "found",
         link[d] \in Up, link[y] \in Up
  PROVE  Progress(d)'
<1> USE DEF SafetyInv
<1>1. Progress(d) /\ y # NoConn /\ d # NoConn /\ Visible(y)
  BY SuperRouterAssumption DEF Second
<1>2. at[d].role \in Role /\ side[d] \in Role
  BY PartyFacts DEF TypeOK
<1>3. CASE CheckBoth(d)
  <2>1. Other(at[d].role) \in published[at[d].s]
    BY <1>1 DEF Visible
  <2>2. pc'[d] = "unhook" /\ peer'[d] = y /\ side'[d] = "client" /\ pipe' = pipe
    BY <1>3, <2>1 DEF CheckBoth, chanVars, TypeOK
  <2>3. pipe[d] = "access" /\ pipe[y] = "access"
    BY <1>1, <1>3 DEF CheckBoth, Progress
  <2>4. \A r \in Role : ChannelOf(d, r)' \in {d, y}
    BY <2>2 DEF ChannelOf
  <2>5. pipe'[Target(d)'] = "access" /\ pipe'[ChannelOf(d, "fgw")'] = "access"
    BY <2>2, <2>3, <2>4, RoleFacts DEF Target
  <2> QED
    BY <2>2, <2>5 DEF Progress
<1>4. ASSUME pc[d] \in {"unhook", "removing", "hook"}
      PROVE  /\ peer[d] = y /\ Target(d) \in {d, y}
             /\ ChannelOf(d, "fgw") \in {d, y} /\ ChannelOf(d, "client") \in {d, y}
             /\ ChannelOf(d, "fgw") # ChannelOf(d, "client")
             /\ side[d] = "client" => pipe[ChannelOf(d, "fgw")] = "access"
  <2>1. peer[d] = y /\ (side[d] = "client" => pipe[ChannelOf(d, "fgw")] = "access")
    BY <1>1, <1>4 DEF Progress
  <2> QED
    BY <1>2, <2>1 DEF Target, ChannelOf, Role
<1>5. CASE UnhookThrows(d)
  <2>1. pipe[Target(d)] = "access" /\ Target(d) # NoConn
    BY <1>1, <1>4, <1>5 DEF UnhookThrows, Progress
  <2> QED
    BY <1>5, <2>1 DEF UnhookThrows, HasAccess
<1>6. CASE UnhookWaits(d)
  <2>1. pc'[d] = "removing" /\ UNCHANGED <<peer, side, pipe>> /\ pc[d] = "unhook"
    BY <1>6 DEF UnhookWaits, chanVars, TypeOK
  <2>2. ChannelOf(d, "fgw")' = ChannelOf(d, "fgw")
    BY <2>1 DEF ChannelOf
  <2> QED
    BY <1>4, <2>1, <2>2 DEF Progress
<1>7. CASE UnhookNow(d) \/ RunRemove(d)
  <2>1. /\ pc'[d] = "hook" /\ UNCHANGED <<peer, side>> /\ pc[d] \in {"unhook", "removing"}
        /\ \A x \in Conn : x # Target(d) => pipe'[x] = pipe[x]
    BY <1>7 DEF UnhookNow, RunRemove, TypeOK
  <2>2. ChannelOf(d, "fgw")' = ChannelOf(d, "fgw") /\ ChannelOf(d, "fgw") \in Conn
    BY <1>4, <2>1 DEF ChannelOf
  <2>3. side[d] = "client" => Target(d) # ChannelOf(d, "fgw")
    BY <1>4, <2>1 DEF Target
  <2> QED
    BY <1>4, <2>1, <2>2, <2>3 DEF Progress
<1>8. CASE Hook(d)
  <2>1. /\ peer' = peer /\ side'[d] = "fgw" /\ pc[d] = "hook"
        /\ pc'[d] = IF side[d] = "client" THEN "unhook" ELSE "respond"
        /\ \A x \in Conn : x # Target(d) => pipe'[x] = pipe[x]
    BY <1>8 DEF Hook, TypeOK
  <2>2. ChannelOf(d, "fgw")' = ChannelOf(d, "fgw") /\ ChannelOf(d, "fgw") \in Conn
    BY <1>4, <2>1 DEF ChannelOf
  <2>3. Target(d)' = ChannelOf(d, "fgw")
    BY <2>1, <2>2 DEF Target, ChannelOf
  <2>4. side[d] = "client" => Target(d) # ChannelOf(d, "fgw")
    BY <1>4, <2>1 DEF Target
  <2> QED
    BY <1>4, <2>1, <2>2, <2>3, <2>4 DEF Progress
<1>9. CASE Respond(d)
  <2>1. peer[d] = y
    BY <1>1, <1>9 DEF Respond, PeerTied, Joining
  <2>2. pc'[d] = "close" /\ rsp'[d] = rsp[d] + 1 /\ rsp'[y] = rsp[y] + 1
    BY <1>9, <2>1 DEF Respond, TypeOK
  <2>3. rsp'[d] > 0 /\ rsp'[y] > 0
    BY <2>2 DEF TypeOK
  <2> QED
    BY <2>2, <2>3 DEF Progress
<1>10. CASE CloseSession(d)
  BY <1>1, <1>10 DEF CloseSession, Progress, TypeOK
<1>11. CASE Claim(d) \/ ClaimFails(d) \/ CheckAlone(d) \/ Return(d)
  BY <1>1, <1>11 DEF Claim, ClaimFails, CheckAlone, Return, Progress
<1> QED
  BY <1>3, <1>5, <1>6, <1>7, <1>8, <1>9, <1>10, <1>11 DEF Process

(* Whatever happens, the second stays the second.                          *)
LEMMA SecondKept ==
  ASSUME SafetyInv, [Next]_vars, NEW d \in Conn, Holds(d), Rival(d) # NoConn, Second(d)
  PROVE  Second(d)'
<1> USE DEF SafetyInv
<1>0. at[d] # Nowhere /\ claimed[at[d].s][at[d].role] = d
  BY DEF Holds
<1> PICK y \in Conn : y = Rival(d)
  BY <1>0, RivalFacts
<1>1. /\ y # d /\ at[y] # Nowhere /\ at[y].s = at[d].s /\ at[y].role = Other(at[d].role)
      /\ at[d].s \in Session /\ Rival(y) = d
  <2>1. /\ y # d /\ at[y] # Nowhere /\ at[y] = [s |-> at[d].s, role |-> Other(at[d].role)]
        /\ Rival(y) = d
    BY <1>0, RivalFacts
  <2> QED
    BY <1>0, <2>1, PartyFacts
<1>2. Rival(d)' = y /\ at'[d] = at[d] /\ at'[y] = at[y]
  BY <1>0, <1>1, RivalStays, Stays
<1>3. pc[y] = "idle" /\ Visible(y) /\ pc[d] # "found"
  BY DEF Second
<1>4. ~Process(y)
  BY <1>3, HandlerSteps
<1>5. pc'[y] = "idle" /\ pc'[d] # "found"
  <2>1. CASE Process(d)
    BY <1>1, <1>3, <2>1, HandlerSteps DEF Process, Claim, ClaimFails, CheckAlone, CheckBoth,
       UnhookThrows, UnhookNow, UnhookWaits, RunRemove, Hook, Respond, CloseSession, Return, TypeOK
  <2>2. CASE ~Process(d)
    BY <1>0, <1>1, <1>3, <1>4, <2>2, OtherSteps, HandlerSteps
  <2> QED
    BY <2>1, <2>2
<1>6. Visible(y)'
  BY <1>1, <1>2, <1>3, Monotone DEF Visible
<1>7. ASSUME link'[d] \in Up, link'[y] \in Up
      PROVE  Progress(d)'
  <2>1. link[d] \in Up /\ link[y] \in Up
    BY <1>0, <1>1, <1>7, Monotone DEF HandlerTied
  <2>2. Progress(d)
    BY <2>1 DEF Second
  <2>3. CASE Process(d)
    BY <1>0, <1>1, <1>2, <1>3, <2>1, <2>3, ProgressSteps, HandlerSteps
  <2>4. CASE ~Process(d)
    <3>1. \A e \in Conn : Process(e) => Rival(d) # e /\ Rival(y) # e
      BY <1>1, <1>4, <2>4
    <3>2. /\ pc'[d] = pc[d] /\ side'[d] = side[d] /\ peer'[d] = peer[d]
          /\ pipe'[d] = pipe[d]
      BY <1>0, <1>7, <2>4, <3>1, Undisturbed
    <3>3. pipe'[y] = pipe[y]
      BY <1>1, <1>4, <1>7, <3>1, Undisturbed
    <3>4. (rsp[d] > 0 => rsp'[d] > 0) /\ (rsp[y] > 0 => rsp'[y] > 0)
      BY Monotone
    <3>5. \A r \in Role : ChannelOf(d, r)' = ChannelOf(d, r)
      BY <1>2, <3>2 DEF ChannelOf
    <3>6. /\ Target(d)' = Target(d) /\ ChannelOf(d, "fgw")' = ChannelOf(d, "fgw")
          /\ peer[d] = y => Target(d) \in {d, y} /\ ChannelOf(d, "fgw") \in {d, y}
      BY <3>2, <3>5, RoleFacts DEF Target, ChannelOf, TypeOK
    <3> QED
      BY <1>2, <2>2, <3>2, <3>3, <3>4, <3>6 DEF Progress
  <2> QED
    BY <2>3, <2>4
<1> QED
  BY <1>2, <1>5, <1>6, <1>7 DEF Second

(* A second party comes about only by a claim, and stays one.              *)
LEMMA TurnInductive ==
  SafetyInv /\ FreshPipe /\ WaitInv /\ TurnInv /\ [Next]_vars => TurnInv'
<1> SUFFICES ASSUME SafetyInv, FreshPipe, WaitInv, TurnInv, [Next]_vars, NEW d \in Conn, NEW y \in Conn,
                    Holds(d)', y = Rival(d)', at'[d].s \notin overlapped'
             PROVE  Second(d)' \/ Second(y)'
  BY DEF TurnInv
<1>0. d # NoConn /\ y # NoConn
  BY SuperRouterAssumption
<1> USE DEF SafetyInv
<1>1. CASE ~Holds(d)
  <2>1. Claim(d) /\ at[d] # Nowhere /\ at' = at /\ at[d].s \in Session /\ at[d].role \in Role
    BY <1>1, NewHolder, PartyFacts DEF Claim
  <2>2. Rival(d) # NoConn
    BY <1>0, <2>1, RoleFacts DEF Rival, Claim, TypeOK
  <2> QED
    BY <2>1, <2>2, ClaimSecond
<1>2. CASE Holds(d) /\ Rival(d) # NoConn
  <2>1. at[d] # Nowhere /\ claimed[at[d].s][at[d].role] = d
    BY <1>2 DEF Holds
  <2>0. y = Rival(d)
    BY <1>2, <2>1, RivalStays
  <2>2. /\ at[y] # Nowhere /\ at[y] = [s |-> at[d].s, role |-> Other(at[d].role)]
        /\ Rival(y) = d /\ at'[d] = at[d]
    BY <1>2, <2>0, <2>1, RivalFacts, RivalStays
  <2>3. Holds(y)
    BY <1>0, <2>0, <2>1, <2>2 DEF Holds, Rival
  <2>4. at[d].s \notin overlapped
    BY <2>2, Monotone
  <2>5. Second(d) \/ Second(y)
    BY <1>2, <2>0, <2>4 DEF TurnInv
  <2>6. Second(d) => Second(d)'
    BY <1>0, <1>2, SecondKept
  <2>7. Second(y) => Second(y)'
    BY <1>0, <2>2, <2>3, SecondKept
  <2> QED
    BY <2>5, <2>6, <2>7
<1>3. CASE Holds(d) /\ Rival(d) = NoConn
  <2>1. at[d] # Nowhere /\ claimed[at[d].s][at[d].role] = d /\ at'[d] = at[d]
    BY <1>3, Stays DEF Holds
  <2>2. at[d].s \in Session /\ at[d].role \in Role /\ Other(at[d].role) \in Role
        /\ Other(Other(at[d].role)) = at[d].role
    BY <2>1, PartyFacts, RoleFacts
  <2>3. /\ claimed[at[d].s][Other(at[d].role)] = NoConn
        /\ claimed'[at[d].s][Other(at[d].role)] = y
    BY <1>3, <2>1 DEF Rival
  <2>4. Claim(y) /\ at[y] = [s |-> at[d].s, role |-> Other(at[d].role)]
    BY <1>0, <2>2, <2>3, NewClaim
  <2>5. Rival(y) = d /\ at[y].s = at[d].s
    <3>1. at[y].s = at[d].s /\ at[y].role = Other(at[d].role)
      BY <2>4
    <3>2. Rival(y) = claimed[at[d].s][Other(Other(at[d].role))]
      BY <3>1 DEF Rival
    <3> QED
      BY <2>1, <2>2, <3>1, <3>2
  <2> QED
    BY <1>0, <2>1, <2>4, <2>5, ClaimSecond
<1> QED
  BY <1>1, <1>2, <1>3

(* Of two parties whose handlers did not overlap, on any loops and however *)
(* the timer, the visibility of the stores and the leaving of others come  *)
(* between, both have been sent their CONNECT_RSP once when                *)
(* processConnectRequest has ended for both and neither has left.          *)
THEOREM RouterJoinedUnlessOverlap == Spec => []JoinedUnlessOverlap
<1>1. Init => FreshPipe /\ WaitInv /\ TurnInv
  BY DEF Init, FreshPipe, WaitInv, TurnInv, Holds
<1>2. SafetyInv /\ TurnInv => JoinedUnlessOverlap
  <2> SUFFICES ASSUME SafetyInv, TurnInv, NEW s \in Session, s \notin overlapped,
                      \A r \in Role : /\ claimed[s][r] # NoConn
                                      /\ link[claimed[s][r]] \in Up /\ pc[claimed[s][r]] = "idle",
                      NEW r \in Role
               PROVE  rsp[claimed[s][r]] = 1
    BY DEF JoinedUnlessOverlap
  <2> USE DEF SafetyInv
  <2> PICK c \in Conn : c = claimed[s][r]
    BY DEF TypeOK
  <2>1. at[c] = [s |-> s, role |-> r] /\ at[c].s = s /\ at[c].role = r
    BY DEF ClaimTied
  <2>2. Holds(c) /\ at[c] # Nowhere
    <3>1. [s |-> s, role |-> r] \in Party
      BY DEF Party
    <3> QED
      BY <2>1, <3>1, SuperRouterAssumption DEF Holds
  <2>3. Rival(c) = claimed[s][Other(r)] /\ Rival(c) # NoConn /\ Rival(c) \in Conn /\ Rival(Rival(c)) = c
    <3>1. Rival(c) = claimed[s][Other(r)] /\ claimed[at[c].s][at[c].role] = c
      BY <2>1 DEF Rival
    <3>2. Rival(c) # NoConn
      BY <3>1, RoleFacts
    <3> QED
      BY <2>2, <3>1, <3>2, RivalFacts
  <2>4. Second(c) \/ Second(Rival(c))
    BY <2>1, <2>2, <2>3 DEF TurnInv
  <2>5. link[c] \in Up /\ pc[c] = "idle" /\ link[Rival(c)] \in Up /\ pc[Rival(c)] = "idle"
    BY <2>3, RoleFacts
  <2>6. rsp[c] > 0
    BY <2>3, <2>4, <2>5 DEF Second, Progress
  <2> QED
    BY <2>6 DEF AtMostOneRsp, TypeOK
<1> QED
  BY <1>1, <1>2, Safety, StepSafety, FreshInductive, WaitInductive, TurnInductive, PTL DEF Spec
=============================================================================
