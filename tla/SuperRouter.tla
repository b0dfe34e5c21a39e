------------------------------ MODULE SuperRouter ------------------------------
(***************************************************************************)
(* The super router (server/java/.../route): a client and a gateway that   *)
(* were given the same token connect, and the router joins their channels. *)
(* Whoever comes second joins both, from its own event loop: it takes the  *)
(* access handler out of each channel's pipeline and puts a RelayHandler   *)
(* in.  Another loop's pipeline is changed by a task on that loop, and     *)
(* pipeline().remove() waits until the task has run.                       *)
(*                                                                         *)
(* A handler is split wherever another thread can come between.  The two   *)
(* channel fields of a session are plain fields: what one thread stores    *)
(* in them another may see late (Publish).                                 *)
(***************************************************************************)
EXTENDS Naturals

CONSTANTS
  Conn,         \* connections accepted on the access port
  Token,        \* tokens the center asks for
  Loop,         \* event loops of the worker group
  MaxSessions,  \* bound: sessions allocated
  NoConn, NoToken, Nowhere

Role == {"client", "fgw"}
Other(r) == IF r = "client" THEN "fgw" ELSE "client"

Session == 1 .. MaxSessions
NoSession == 0

(* The part a connection asked for in a session.                           *)
Party == [s: Session, role: Role]

ASSUME SuperRouterAssumption ==
  /\ MaxSessions \in Nat /\ Loop # {}
  /\ NoConn \notin Conn /\ NoToken \notin Token /\ Nowhere \notin Party

VARIABLES
  tokenOf,    \* of each session object; NoToken for one not allocated yet
  sessions,   \* mSessionMap: the session a token finds, or NoSession
  expiring,   \* the session the timer found too old and is about to remove
  claimed,    \* the xxx_connected flags: who set them, or NoConn
  published,  \* the roles whose xxx_channel field other threads can see
  link,       \* of each connection, down to the removal of its handlers
  loop,       \* the event loop of each connection
  pipe,       \* the last handler of each pipeline
  relay,      \* the channel that handler writes to, if it is a RelayHandler
  at,         \* the party of the CONNECT a connection sent
  pc,         \* where processConnectRequest is, for each connection
  side,       \* the channel it is about to switch over
  peer,       \* the other party's channel, as it read it
  rsp,        \* CONNECT_RSPs written to each connection
  overlapped  \* auxiliary: sessions whose parties' handlers ran at the same time

sessVars == <<tokenOf, sessions, expiring>>
chanVars == <<link, loop, pipe, relay>>
procVars == <<at, pc, side, peer>>
vars == <<sessVars, claimed, published, chanVars, procVars, rsp, overlapped>>

Link == {"new", "open", "closing", "closed", "inactive", "down"}
Step == {"idle", "found", "claimed", "unhook", "removing", "hook", "respond", "close", "return"}

TypeOK ==
  /\ tokenOf \in [Session -> Token \cup {NoToken}]
  /\ sessions \in [Token -> Session \cup {NoSession}]
  /\ expiring \in Session \cup {NoSession}
  /\ claimed \in [Session -> [Role -> Conn \cup {NoConn}]]
  /\ published \in [Session -> SUBSET Role]
  /\ link \in [Conn -> Link]
  /\ loop \in [Conn -> Loop]
  /\ pipe \in [Conn -> {"access", "bare", "relay", "gone"}]
  /\ relay \in [Conn -> Conn \cup {NoConn}]
  /\ at \in [Conn -> Party \cup {Nowhere}]
  /\ pc \in [Conn -> Step]
  /\ side \in [Conn -> Role]
  /\ peer \in [Conn -> Conn \cup {NoConn}]
  /\ rsp \in [Conn -> Nat]
  /\ overlapped \subseteq Session

Init ==
  /\ tokenOf = [s \in Session |-> NoToken]
  /\ sessions = [t \in Token |-> NoSession]
  /\ expiring = NoSession
  /\ claimed = [s \in Session |-> [r \in Role |-> NoConn]]
  /\ published = [s \in Session |-> {}]
  /\ link = [c \in Conn |-> "new"]
  /\ loop \in [Conn -> Loop]
  /\ pipe = [c \in Conn |-> "access"]
  /\ relay = [c \in Conn |-> NoConn]
  /\ at = [c \in Conn |-> Nowhere]
  /\ pc = [c \in Conn |-> "idle"]
  /\ side = [c \in Conn |-> "client"]
  /\ peer = [c \in Conn |-> NoConn]
  /\ rsp = [c \in Conn |-> 0]
  /\ overlapped = {}

-----------------------------------------------------------------------------
(* Sessions: RouterAllocateServerHandler, SessionManager                   *)

(* A session is put into the map under its token, whatever was there; the  *)
(* session replaced lives on for those who found it.                       *)
Allocate(t) ==
  /\ \E s \in Session :
       /\ tokenOf[s] = NoToken /\ \A q \in Session : q < s => tokenOf[q] # NoToken
       /\ tokenOf' = [tokenOf EXCEPT ![s] = t]
       /\ sessions' = [sessions EXCEPT ![t] = s]
  /\ UNCHANGED <<expiring, claimed, published, chanVars, procVars, rsp, overlapped>>

(* checkTimeout's iterator hands out a session that is more than a minute  *)
(* old; nothing makes it younger.                                          *)
TimerFinds(t) ==
  /\ expiring = NoSession /\ sessions[t] # NoSession
  /\ expiring' = sessions[t]
  /\ UNCHANGED <<tokenOf, sessions, claimed, published, chanVars, procVars, rsp, overlapped>>

(* remove() removes by key: whichever session has the token now.           *)
RemoveByKey(s) == sessions' = [sessions EXCEPT ![tokenOf[s]] = NoSession]

TimerRemoves ==
  /\ expiring # NoSession
  /\ RemoveByKey(expiring)
  /\ expiring' = NoSession
  /\ UNCHANGED <<tokenOf, claimed, published, chanVars, procVars, rsp, overlapped>>

-----------------------------------------------------------------------------
(* Connections and their event loops                                       *)

Up == {"open", "closing"}

(* A loop runs one thing at a time, and nothing while it waits.            *)
Free(l) == \A c \in Conn : loop[c] = l => pc[c] = "idle"

Accept(c) ==
  /\ link[c] = "new"
  /\ link' = [link EXCEPT ![c] = "open"]
  /\ UNCHANGED <<sessVars, claimed, published, loop, pipe, relay, procVars, rsp, overlapped>>

(* The party leaves, or its loop runs a close() asked for elsewhere.       *)
Close(c) ==
  /\ link[c] \in Up /\ Free(loop[c])
  /\ link' = [link EXCEPT ![c] = "closed"]
  /\ UNCHANGED <<sessVars, claimed, published, loop, pipe, relay, procVars, rsp, overlapped>>

(* MUTANT: the other channel is only flushed.                              *)
MutInactive(c) ==
  /\ link[c] = "closed" /\ Free(loop[c])
  /\ link' = [link EXCEPT ![c] = "inactive"]
  /\ UNCHANGED <<sessVars, claimed, published, loop, pipe, relay, procVars, rsp, overlapped>>

(* channelInactive: a RelayHandler asks for its channel to be closed.      *)
Inactive(c) ==
  /\ link[c] = "closed" /\ Free(loop[c])
  /\ link' = [d \in Conn |-> IF d = c THEN "inactive"
                             ELSE IF pipe[c] = "relay" /\ relay[c] = d /\ link[d] = "open"
                                  THEN "closing" ELSE link[d]]
  /\ UNCHANGED <<sessVars, claimed, published, loop, pipe, relay, procVars, rsp, overlapped>>

(* channelUnregistered: netty removes the handlers of a closed channel.    *)
Teardown(c) ==
  /\ link[c] = "inactive" /\ Free(loop[c])
  /\ link' = [link EXCEPT ![c] = "down"]
  /\ pipe' = [pipe EXCEPT ![c] = "gone"]
  /\ UNCHANGED <<sessVars, claimed, published, loop, relay, procVars, rsp, overlapped>>

-----------------------------------------------------------------------------
(* CONNECT: RouterAccessServerHandler                                      *)

(* MUTANT: the session is not compared with null.                          *)
MutConnect(c, t, r) ==
  /\ link[c] \in Up /\ pipe[c] = "access" /\ at[c] = Nowhere /\ Free(loop[c])
  /\ at' = [at EXCEPT ![c] = [s |-> sessions[t], role |-> r]]
  /\ pc' = [pc EXCEPT ![c] = "found"]
  /\ UNCHANGED <<sessVars, claimed, published, chanVars, side, peer, rsp, overlapped>>

(* In WAIT_FOR_CONNECT; a token that finds nothing changes nothing, and in *)
(* any other state the message is ignored.                                 *)
Connect(c, t, r) ==
  /\ link[c] \in Up /\ pipe[c] = "access" /\ at[c] = Nowhere /\ Free(loop[c])
  /\ sessions[t] # NoSession
  /\ at' = [at EXCEPT ![c] = [s |-> sessions[t], role |-> r]]
  /\ pc' = [pc EXCEPT ![c] = "found"]
  /\ UNCHANGED <<sessVars, claimed, published, chanVars, side, peer, rsp, overlapped>>

Rival(c) == claimed[at[c].s][Other(at[c].role)]

(* MUTANT: the flag is set without looking at it.                          *)
MutClaim(c) ==
  /\ pc[c] = "found"
  /\ claimed' = [claimed EXCEPT ![at[c].s][at[c].role] = c]
  /\ pc' = [pc EXCEPT ![c] = "claimed"]
  /\ overlapped' = IF Rival(c) # NoConn /\ pc[Rival(c)] # "idle"
                   THEN overlapped \cup {at[c].s} ELSE overlapped
  /\ UNCHANGED <<sessVars, published, chanVars, at, side, peer, rsp>>

(* compareAndSet succeeds.                                                 *)
Claim(c) ==
  /\ pc[c] = "found" /\ claimed[at[c].s][at[c].role] = NoConn
  /\ claimed' = [claimed EXCEPT ![at[c].s][at[c].role] = c]
  /\ pc' = [pc EXCEPT ![c] = "claimed"]
  /\ overlapped' = IF Rival(c) # NoConn /\ pc[Rival(c)] # "idle"
                   THEN overlapped \cup {at[c].s} ELSE overlapped
  /\ UNCHANGED <<sessVars, published, chanVars, at, side, peer, rsp>>

(* compareAndSet fails: the role is taken.                                 *)
ClaimFails(c) ==
  /\ pc[c] = "found" /\ claimed[at[c].s][at[c].role] # NoConn
  /\ link' = [link EXCEPT ![c] = "closed"]
  /\ pc' = [pc EXCEPT ![c] = "idle"]
  /\ UNCHANGED <<sessVars, claimed, published, loop, pipe, relay, at, side, peer, rsp, overlapped>>

(* The store to xxx_channel, behind the flag, becomes visible.             *)
Publish(c) ==
  /\ at[c] # Nowhere /\ claimed[at[c].s][at[c].role] = c
  /\ at[c].role \notin published[at[c].s]
  /\ published' = [published EXCEPT ![at[c].s] = @ \cup {at[c].role}]
  /\ UNCHANGED <<sessVars, claimed, chanVars, procVars, rsp, overlapped>>

Visible(c) == at[c].role \in published[at[c].s]

(* Only one flag is set.                                                   *)
CheckAlone(c) ==
  /\ pc[c] = "claimed" /\ Rival(c) = NoConn
  /\ pc' = [pc EXCEPT ![c] = "return"]
  /\ UNCHANGED <<sessVars, claimed, published, chanVars, at, side, peer, rsp, overlapped>>

(* MUTANT: only the client joins the channels.                             *)
MutCheckBoth(c) ==
  /\ pc[c] = "claimed" /\ Rival(c) # NoConn
  /\ peer' = [peer EXCEPT ![c] = IF Other(at[c].role) \in published[at[c].s]
                                 THEN Rival(c) ELSE NoConn]
  /\ side' = [side EXCEPT ![c] = "client"]
  /\ pc' = [pc EXCEPT ![c] = IF at[c].role = "client" THEN "unhook" ELSE "return"]
  /\ UNCHANGED <<sessVars, claimed, published, chanVars, at, rsp, overlapped>>

(* Both flags are set; the other's channel may still be null.              *)
CheckBoth(c) ==
  /\ pc[c] = "claimed" /\ Rival(c) # NoConn
  /\ peer' = [peer EXCEPT ![c] = IF Other(at[c].role) \in published[at[c].s]
                                 THEN Rival(c) ELSE NoConn]
  /\ side' = [side EXCEPT ![c] = "client"]
  /\ pc' = [pc EXCEPT ![c] = "unhook"]
  /\ UNCHANGED <<sessVars, claimed, published, chanVars, at, rsp, overlapped>>

(* client_channel or fgw_channel, as c's handler has them.                 *)
ChannelOf(c, r) == IF r = at[c].role THEN c ELSE peer[c]
Target(c) == ChannelOf(c, side[c])

(* What remove() looks for.                                                *)
HasAccess(x) == x # NoConn /\ pipe[x] = "access"

(* MUTANT: a missing access handler is skipped.                            *)
MutUnhookThrows(c) ==
  /\ pc[c] = "unhook"
  /\ ~HasAccess(Target(c))
  /\ pc' = [pc EXCEPT ![c] = IF Target(c) = NoConn THEN "return" ELSE "hook"]
  /\ UNCHANGED <<sessVars, claimed, published, chanVars, at, side, peer, rsp, overlapped>>

(* NullPointerException, or NoSuchElementException: somebody else has      *)
(* removed the access handler, or netty did.  The exception ends in the    *)
(* tail of the pipeline.                                                   *)
UnhookThrows(c) ==
  /\ pc[c] = "unhook"
  /\ ~HasAccess(Target(c))
  /\ pc' = [pc EXCEPT ![c] = "return"]
  /\ UNCHANGED <<sessVars, claimed, published, chanVars, at, side, peer, rsp, overlapped>>

(* remove() on the channel's own loop, or on one no longer registered.     *)
UnhookNow(c) ==
  /\ pc[c] = "unhook"
  /\ HasAccess(Target(c))
  /\ loop[Target(c)] = loop[c] \/ link[Target(c)] \notin Up
  /\ pipe' = [pipe EXCEPT ![Target(c)] = "bare"]
  /\ pc' = [pc EXCEPT ![c] = "hook"]
  /\ UNCHANGED <<sessVars, claimed, published, link, loop, relay, at, side, peer, rsp, overlapped>>

(* remove() on another's: a task is submitted and waited for.              *)
UnhookWaits(c) ==
  /\ pc[c] = "unhook"
  /\ HasAccess(Target(c))
  /\ loop[Target(c)] # loop[c] /\ link[Target(c)] \in Up
  /\ pc' = [pc EXCEPT ![c] = "removing"]
  /\ UNCHANGED <<sessVars, claimed, published, chanVars, at, side, peer, rsp, overlapped>>

(* The task runs.  If the access handler was removed in the meantime, this *)
(* unlinks whatever was added in its place.                                *)
RunRemove(c) ==
  /\ pc[c] = "removing" /\ Free(loop[Target(c)])
  /\ pipe' = [pipe EXCEPT ![Target(c)] = IF @ = "gone" THEN "gone" ELSE "bare"]
  /\ pc' = [pc EXCEPT ![c] = "hook"]
  /\ UNCHANGED <<sessVars, claimed, published, link, loop, relay, at, side, peer, rsp, overlapped>>

(* MUTANT: each channel's relay writes to the channel itself.              *)
MutHook(c) ==
  /\ pc[c] = "hook" /\ Visible(c)
  /\ pipe' = [pipe EXCEPT ![Target(c)] = "relay"]
  /\ relay' = [relay EXCEPT ![Target(c)] = c]
  /\ side' = [side EXCEPT ![c] = "fgw"]
  /\ pc' = [pc EXCEPT ![c] = IF side[c] = "client" THEN "unhook" ELSE "respond"]
  /\ UNCHANGED <<sessVars, claimed, published, link, loop, at, peer, rsp, overlapped>>

(* addLast(new RelayHandler(the other channel)); remove() was synchronized *)
(* and so the store before it is visible by now.                           *)
Hook(c) ==
  /\ pc[c] = "hook" /\ Visible(c)
  /\ pipe' = [pipe EXCEPT ![Target(c)] = "relay"]
  /\ relay' = [relay EXCEPT ![Target(c)] = ChannelOf(c, Other(side[c]))]
  /\ side' = [side EXCEPT ![c] = "fgw"]
  /\ pc' = [pc EXCEPT ![c] = IF side[c] = "client" THEN "unhook" ELSE "respond"]
  /\ UNCHANGED <<sessVars, claimed, published, link, loop, at, peer, rsp, overlapped>>

(* MUTANT: only the party that came second is told.                        *)
MutRespond(c) ==
  /\ pc[c] = "respond"
  /\ rsp' = [rsp EXCEPT ![c] = IF link[c] \in Up THEN @ + 1 ELSE @]
  /\ pc' = [pc EXCEPT ![c] = "close"]
  /\ UNCHANGED <<sessVars, claimed, published, chanVars, at, side, peer, overlapped>>

(* sendConnectRsp to both; nothing is written to a closed channel.         *)
Respond(c) ==
  /\ pc[c] = "respond"
  /\ rsp' = [d \in Conn |-> IF d \in {c, peer[c]} /\ link[d] \in Up THEN rsp[d] + 1 ELSE rsp[d]]
  /\ pc' = [pc EXCEPT ![c] = "close"]
  /\ UNCHANGED <<sessVars, claimed, published, chanVars, at, side, peer, overlapped>>

(* session.close()                                                         *)
CloseSession(c) ==
  /\ pc[c] = "close"
  /\ RemoveByKey(at[c].s)
  /\ pc' = [pc EXCEPT ![c] = "idle"]
  /\ UNCHANGED <<tokenOf, expiring, claimed, published, chanVars, at, side, peer, rsp, overlapped>>

(* A handler that has returned has its stores visible.                     *)
Return(c) ==
  /\ pc[c] = "return" /\ Visible(c)
  /\ pc' = [pc EXCEPT ![c] = "idle"]
  /\ UNCHANGED <<sessVars, claimed, published, chanVars, at, side, peer, rsp, overlapped>>

-----------------------------------------------------------------------------
Process(c) ==
  \/ Claim(c) \/ ClaimFails(c) \/ CheckAlone(c) \/ CheckBoth(c)
  \/ UnhookThrows(c) \/ UnhookNow(c) \/ UnhookWaits(c) \/ RunRemove(c) \/ Hook(c)
  \/ Respond(c) \/ CloseSession(c) \/ Return(c)

Next ==
  \/ \E t \in Token : Allocate(t) \/ TimerFinds(t)
  \/ TimerRemoves
  \/ \E c \in Conn :
       \/ Accept(c) \/ Close(c) \/ Inactive(c) \/ Teardown(c)
       \/ \E t \in Token, r \in Role : Connect(c, t, r)
       \/ Process(c) \/ Publish(c)

Spec == Init /\ [][Next]_vars

(* An event loop that is not waiting runs its handler and its tasks.       *)
LoopFairness ==
  \A c \in Conn : /\ WF_vars(Process(c)) /\ WF_vars(Publish(c))
                  /\ WF_vars(Close(c) /\ link[c] = "closing")
                  /\ WF_vars(Inactive(c))

FairSpec == Spec /\ LoopFairness

-----------------------------------------------------------------------------
(* Properties                                                              *)

Relays(c) == pipe[c] = "relay" /\ relay[c] # NoConn

(* What a party sends goes to the other party of its own session and to    *)
(* nobody else, and no third connection is relayed to either: flags are    *)
(* claimed by compareAndSet, channels follow the flags.                    *)
Exclusive ==
  /\ \A c \in Conn : Relays(c) =>
       \E s \in Session, r \in Role : claimed[s][r] = c /\ claimed[s][Other(r)] = relay[c]
  /\ \A c, d \in Conn : Relays(c) /\ Relays(d) /\ relay[c] = relay[d] => c = d

(* Both handlers may go into the joining of the channels; only one gets    *)
(* through it, so a party is told at most once.                            *)
AtMostOneRsp == \A c \in Conn : rsp[c] <= 1

(* A party that was told of success is one end of a joined pair of         *)
(* channels, whatever the other thread did in the meantime.                *)
ToldIsJoined ==
  \A c \in Conn : rsp[c] > 0 =>
    /\ relay[c] # NoConn /\ relay[relay[c]] = c
    /\ pipe[c] \in {"relay", "gone"}

(* The connection holds the part it asked for.                             *)
Holds(c) == at[c] # Nowhere /\ claimed[at[c].s][at[c].role] = c

(* What Pairing speaks of, in terms of the router's state.                 *)
Parts == [c \in Conn |-> IF Holds(c) THEN at[c] ELSE Nowhere]
Gone == {c \in Conn : link[c] \in {"closed", "inactive", "down"}}
Wires == [c \in Conn |-> IF Relays(c) THEN relay[c] ELSE NoConn]
Told == {c \in Conn : rsp[c] > 0}

Pairs == INSTANCE Pairing WITH part <- Parts, left <- Gone, wire <- Wires, told <- Told

(* Whatever the two handlers, the loops' tasks, the timer and the closes   *)
(* do to one another, what the parties see are the steps of Pairing: parts *)
(* are given for good, both parties are told in one step and not before    *)
(* both directions are joined, and nothing undoes that but their leaving.  *)
ImplementsPairing == Pairs!Spec

(* Two parties whose handlers did not run at the same time are joined,     *)
(* unless one of them is gone: the first leaves its channel for the second *)
(* to find.                                                                *)
JoinedUnlessOverlap ==
  \A s \in Session \ overlapped :
    LET here == {claimed[s][r] : r \in Role} IN
      (NoConn \notin here /\ \A c \in here : link[c] \in Up /\ pc[c] = "idle")
        => \A c \in here : rsp[c] = 1

(* "wait until all clients are connected": when both parties are there     *)
(* they are told so, unless one leaves.                                    *)
JoinedWhenAllConnected ==
  \A s \in Session, c, d \in Conn :
    (claimed[s]["client"] = c /\ claimed[s]["fgw"] = d)
      ~> (rsp[c] = 1 /\ rsp[d] = 1) \/ link[c] # "open" \/ link[d] # "open"

(* They are told, whatever loops they are on, if the handler of the first  *)
(* ended before the second came.                                           *)
JoinedInTurn ==
  \A s \in Session, c, d \in Conn :
    (claimed[s]["client"] = c /\ claimed[s]["fgw"] = d /\ s \notin overlapped)
      ~> (rsp[c] = 1 /\ rsp[d] = 1) \/ link[c] # "open" \/ link[d] # "open"

(* The end of one channel of a joined pair ends the other                  *)
(* (RelayHandler.channelInactive).                                         *)
TunnelEnds ==
  \A c, d \in Conn : (rsp[c] = 1 /\ relay[c] = d /\ link[c] = "closed") ~> link[d] \notin Up

(* A session that is closed or times out "should remove itself": what      *)
(* leaves the map is the session that is being closed.                     *)
RemovesItself ==
  [][\A t \in Token : sessions[t] # NoSession /\ sessions'[t] = NoSession =>
       \/ expiring = sessions[t]
       \/ \E c \in Conn : pc[c] = "close" /\ pc'[c] # "close" /\ at[c].s = sessions[t]]_vars
=============================================================================
