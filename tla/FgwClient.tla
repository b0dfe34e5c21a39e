------------------------------- MODULE FgwClient -------------------------------
(***************************************************************************)
(* The gateway's login to the push server: FGWClientHandler on top of      *)
(* ZClient, with the one-shot timers of its ZTimer.  The handler is told   *)
(* of a new connection but never of a lost one.  Timers live in numbered   *)
(* slots; the handler remembers the number of the last login's timer, and  *)
(* a timer of an earlier login is left to run out in its slot.             *)
(***************************************************************************)
EXTENDS ZClient, FiniteSets

CONSTANTS
  MaxTimers,      \* MAX_TIMER_COUNT of ZTimer (16 in the code)
  MaxArmed,       \* bound: a socket that was awaited comes up with at most as many armed
  MaxUnanswered,  \* bound: LOGINs the server has not answered on a connection
  NoTimer

ASSUME FgwClientAssumption ==
  /\ MaxTimers \in Nat \ {0} /\ MaxArmed \in Nat
  /\ MaxUnanswered \in Nat \ {0}
  /\ NoTimer \notin Nat

VARIABLES
  reg,        \* state_ of the handler
  loginTimer, \* login_timer_id; NoTimer for -1
  slots,      \* ev_list_ of its timer_: free, armed by the last login, or by an earlier one
  unanswered, \* LOGINs the server received on this connection and has yet to answer
  admitted    \* auxiliary: a LOGIN sent on this connection was answered with code 0

hvars == <<reg, loginTimer, slots, unanswered, admitted>>
vars  == <<zvars, hvars>>

Slot == 0 .. MaxTimers - 1

HTypeOK ==
  /\ reg \in {"unregistered", "wait", "registered"}
  /\ loginTimer \in Slot \cup {NoTimer}
  /\ slots \in [Slot -> {"free", "last", "stale"}]
  /\ unanswered \in 0 .. MaxUnanswered
  /\ admitted \in BOOLEAN

TypeOK == ZTypeOK /\ HTypeOK

Init ==
  /\ ZInit
  /\ reg = "unregistered"
  /\ loginTimer = NoTimer
  /\ slots = [i \in Slot |-> "free"]
  /\ unanswered = 0
  /\ admitted = FALSE

-----------------------------------------------------------------------------
(* ZTimer and fgwLogin                                                     *)

Armed == {i \in Slot : slots[i] # "free"}

(* getAvailableIndex() found slot i.                                       *)
FreeSlot(i) == slots[i] = "free" /\ \A j \in Slot : slots[j] = "free" => i <= j

(* What the slots are to a new login.                                      *)
Aged == [i \in Slot |-> IF slots[i] = "last" THEN "stale" ELSE slots[i]]

(* MUTANT: the search for a free slot also looks one past the last.        *)
MutArmLoginTimer ==
  \/ \E i \in Slot :
       /\ FreeSlot(i)
       /\ slots' = [Aged EXCEPT ![i] = "last"]
       /\ loginTimer' = i
  \/ Armed = Slot /\ slots' = Aged /\ loginTimer' = MaxTimers

(* fgwLogin arms a timer and remembers its slot; the timer of the previous *)
(* login is not cancelled.  With all slots armed there is no timer, and    *)
(* "there's nothing we can do now".                                        *)
ArmLoginTimer ==
  \/ \E i \in Slot :
       /\ FreeSlot(i)
       /\ slots' = [Aged EXCEPT ![i] = "last"]
       /\ loginTimer' = i
  \/ Armed = Slot /\ slots' = Aged /\ loginTimer' = NoTimer

(* The result of send() is not looked at: a LOGIN written to anything but  *)
(* a connected socket is lost.                                             *)
SendLogin(before) ==
  unanswered' = IF hfd' # NoFd /\ sock'[hfd'] = "up" /\ before < MaxUnanswered
                THEN before + 1 ELSE before

(* MUTANT: a handler that was registered does not log in again.            *)
MutOnConnected(before) ==
  IF reg = "registered"
  THEN UNCHANGED <<reg, loginTimer, slots>> /\ unanswered' = before
  ELSE reg' = "wait" /\ SendLogin(before) /\ ArmLoginTimer

(* FGWClientHandler::onConnected: before is what the server already has of *)
(* this connection's LOGINs.                                               *)
OnConnected(before) == reg' = "wait" /\ SendLogin(before) /\ ArmLoginTimer

-----------------------------------------------------------------------------
(* ZClient's callbacks with what the handler does in them                  *)

HandlerIdle == UNCHANGED <<reg, loginTimer, slots>>
NewSocket == unanswered' = 0 /\ admitted' = FALSE

(* init() runs the handler's init() last: when the first attempt succeeded *)
(* at once it undoes the state onConnected left.                           *)
Start ==
  \/ /\ StartOK
     /\ reg' = "unregistered"
     /\ SendLogin(0) /\ ArmLoginTimer
     /\ admitted' = FALSE
  \/ (StartPending \/ StartFail) /\ HandlerIdle /\ NewSocket

Redial ==
  \/ (RetryOK \/ EofOK) /\ OnConnected(0) /\ admitted' = FALSE
  \/ (RetryPending \/ RetryFail \/ EofDial \/ EofFail) /\ HandlerIdle /\ NewSocket

ConnectDone(f) ==
  \/ Established(f) /\ OnConnected(unanswered) /\ UNCHANGED admitted
  \/ ConnectFailed(f) /\ HandlerIdle /\ NewSocket
  \/ StillConnecting(f) /\ UNCHANGED hvars

Lost(f) ==
  \/ PeerClosed(f) /\ UNCHANGED hvars
  \/ RecvFailed(f) /\ HandlerIdle /\ NewSocket

AbortConnect == ConnectTimeout /\ HandlerIdle /\ NewSocket

-----------------------------------------------------------------------------
(* The server's answers: onRead                                            *)

(* MUTANT: login_timer_id keeps the number of the cancelled timer.         *)
MutReadAccept(f) ==
  /\ Readable(f) /\ sock[f] \in {"up", "eof"} /\ unanswered > 0
  /\ unanswered' = unanswered - 1
  /\ admitted' = TRUE
  /\ IF reg = "wait"
     THEN /\ reg' = "registered"
          /\ slots' = [i \in Slot |-> IF i = loginTimer THEN "free" ELSE slots[i]]
          /\ UNCHANGED loginTimer
     ELSE HandlerIdle
  /\ UNCHANGED zvars

(* A LOGIN_RSP with code 0 ends the wait; in any other state the handler   *)
(* has no use for it.                                                      *)
ReadAccept(f) ==
  /\ Readable(f) /\ sock[f] \in {"up", "eof"} /\ unanswered > 0
  /\ unanswered' = unanswered - 1
  /\ admitted' = TRUE
  /\ IF reg = "wait"
     THEN /\ reg' = "registered"
          /\ slots' = [i \in Slot |-> IF i = loginTimer THEN "free" ELSE slots[i]]
          /\ loginTimer' = NoTimer
     ELSE HandlerIdle
  /\ UNCHANGED zvars

(* MUTANT: a refusal ends the wait for an answer, the timer with it.       *)
MutReadRefusal(f) ==
  /\ Readable(f) /\ sock[f] \in {"up", "eof"} /\ unanswered > 0
  /\ unanswered' = unanswered - 1
  /\ slots' = [i \in Slot |-> IF i = loginTimer THEN "free" ELSE slots[i]]
  /\ loginTimer' = NoTimer
  /\ UNCHANGED <<zvars, reg, admitted>>

(* A refusal, or an answer that cannot be decoded, is left to the timer.   *)
ReadRefusal(f) ==
  /\ Readable(f) /\ sock[f] \in {"up", "eof"} /\ unanswered > 0
  /\ unanswered' = unanswered - 1
  /\ UNCHANGED <<zvars, reg, loginTimer, slots, admitted>>

-----------------------------------------------------------------------------
(* Timers: timer_callback runs onTimeout and then empties the slot         *)

(* MUTANT: the callback empties the remembered slot, not its own.          *)
MutRelogin(i) ==
  /\ i \in Armed /\ i = loginTimer /\ reg = "wait"
  /\ UNCHANGED <<zvars, reg, admitted>>
  /\ SendLogin(unanswered)
  /\ \E j \in Slot : FreeSlot(j) /\ slots' = Aged /\ loginTimer' = j

(* The slot that fired is still taken while fgwLogin arms the next one.    *)
Relogin(i) ==
  /\ i \in Armed /\ i = loginTimer /\ reg = "wait"
  /\ UNCHANGED <<zvars, reg, admitted>>
  /\ SendLogin(unanswered)
  /\ \/ \E j \in Slot :
          /\ FreeSlot(j)
          /\ slots' = [Aged EXCEPT ![j] = "last", ![i] = "free"]
          /\ loginTimer' = j
     \/ Armed = Slot /\ slots' = [Aged EXCEPT ![i] = "free"] /\ loginTimer' = NoTimer

(* "unknown handler id", or the remembered one in another state.           *)
TimerRunsOut(i) ==
  /\ i \in Armed /\ ~(i = loginTimer /\ reg = "wait")
  /\ slots' = [slots EXCEPT ![i] = "free"]
  /\ UNCHANGED <<zvars, reg, loginTimer, unanswered, admitted>>

-----------------------------------------------------------------------------
Environment(f) ==
  /\ \/ Accepted(f) /\ (Immediate \/ Cardinality(Armed) <= MaxArmed)
     \/ Refused(f) \/ ServerCloses(f) \/ Resets(f)
  /\ UNCHANGED hvars

Next ==
  \/ Start \/ Redial \/ AbortConnect
  \/ TimerIgnored /\ UNCHANGED hvars
  \/ \E f \in FD : ConnectDone(f) \/ Lost(f) \/ ReadAccept(f) \/ ReadRefusal(f) \/ Environment(f)
  \/ \E i \in Slot : Relogin(i) \/ TimerRunsOut(i)

Spec == Init /\ [][Next]_vars

(* The loop runs every callback that is due and every timer expires; the   *)
(* kernel gives a connection attempt up sooner or later.                   *)
LoopFairness ==
  /\ WF_vars(Start) /\ WF_vars(Redial) /\ WF_vars(AbortConnect)
  /\ \A f \in FD : /\ WF_vars(ConnectDone(f) /\ sock[f] # "connecting")
                   /\ WF_vars(Lost(f))
                   /\ WF_vars(Environment(f) /\ sock[f] = "connecting")
  /\ \A i \in Slot : WF_vars(Relogin(i) \/ TimerRunsOut(i))

(* A server that does not refuse a gateway for ever.                       *)
ServerFairness == \A f \in FD : SF_vars(ReadAccept(f))

FairSpec == Spec /\ LoopFairness /\ ServerFairness

-----------------------------------------------------------------------------
(* Properties                                                              *)

(* The handler believes it is registered only on a connection on which the *)
(* server admitted it: the state does not survive a reconnection.          *)
RegisteredHere == state = "connected" /\ reg = "registered" => admitted

(* The remembered number is never that of a slot that is free or armed by  *)
(* an earlier login, so a timer left over cannot start a login, nor be     *)
(* cancelled in place of the right one.                                    *)
TimerOwned == ~Immediate => \A i \in Slot : slots[i] = "last" <=> loginTimer = i

(* A connected gateway is registered or has a timer to try again with, as  *)
(* long as connections follow each other slowly enough for MaxArmed.       *)
LoginUnderWay ==
  state = "connected" /\ ~Immediate =>
    reg = "registered" \/ (reg = "wait" /\ loginTimer \in Armed)

(* A connection that stays up ends in a registration, where the handler    *)
(* has the connection's descriptor to write its LOGIN to.                  *)
Registers ==
  (state = "connected" /\ reg = "wait" /\ ~Immediate) ~> (reg = "registered" \/ fd = NoFd \/ sock[fd] # "up")
=============================================================================
