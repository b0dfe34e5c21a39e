---------------------------- MODULE FgwClientProofs ----------------------------
(***************************************************************************)
(* Proofs about the gateway's connection and its login.  Every step of     *)
(* FgwClient is a step of ZClient or leaves ZClient alone, so what ZClient *)
(* maintains by itself, whatever handler it has, is proved of ZNext.       *)
(***************************************************************************)
EXTENDS FgwClient, FiniteSetTheorems, TLAPS

-----------------------------------------------------------------------------
(* The connection                                                          *)

(* A pending event watches fd_, for what the state waits for, and fd_ is   *)
(* the only descriptor that is not free.                                   *)
EventIsOurs == event # NoEvent => event.fd = fd

ZInv ==
  /\ ZTypeOK
  /\ NoDescriptorLeak
  /\ ConnectedIsWatched
  /\ EventIsOurs
  /\ RetryScheduled
  /\ HandlerHasSocket

LEMMA ClosedAll ==
  ASSUME ZInv
  PROVE  AfterClose(fd) = [f \in FD |-> "free"]
BY DEF ZInv, NoDescriptorLeak, ZTypeOK, AfterClose

(* Dialling establishes the invariant whatever was there before.           *)
LEMMA DialOKKeeps ==
  ASSUME ZInv, NEW d \in FD \cup {NoFd}, DialOK(d), timer' \in BOOLEAN
  PROVE  ZInv'
<1>1. PICK f \in FD : /\ fd' = f
                      /\ sock' = [AfterClose(fd) EXCEPT ![f] = "up"]
                      /\ event' = [fd |-> f, on |-> "read"]
  BY DEF DialOK
<1>2. sock' = [g \in FD |-> IF g = f THEN "up" ELSE "free"]
  BY <1>1, ClosedAll
<1>3. state' = "connected" /\ hfd' = d /\ Immediate /\ network' = network
  BY DEF DialOK
<1>4. event' \in Event /\ event'.fd = f
  BY <1>1 DEF Event
<1>5. ZTypeOK'
  BY <1>1, <1>2, <1>3, <1>4 DEF ZTypeOK, SockState, ZInv
<1> QED
  BY <1>1, <1>2, <1>3, <1>4, <1>5
     DEF ZInv, NoDescriptorLeak, ConnectedIsWatched, EventIsOurs, RetryScheduled, HandlerHasSocket,
         Immediate

LEMMA DialPendingKeeps ==
  ASSUME ZInv, DialPending
  PROVE  ZInv'
<1>1. PICK f \in FD : /\ fd' = f
                      /\ sock' = [AfterClose(fd) EXCEPT ![f] = "connecting"]
                      /\ event' = [fd |-> f, on |-> "write"]
  BY DEF DialPending
<1>2. sock' = [g \in FD |-> IF g = f THEN "connecting" ELSE "free"]
  BY <1>1, ClosedAll
<1>3. state' = "waiting" /\ timer' = TRUE /\ hfd' = hfd /\ network' = network
  BY DEF DialPending
<1>4. event' \in Event /\ event'.fd = f
  BY <1>1 DEF Event
<1>5. ZTypeOK'
  BY <1>1, <1>2, <1>3, <1>4 DEF ZTypeOK, SockState, ZInv
<1> QED
  BY <1>1, <1>2, <1>3, <1>4, <1>5
     DEF ZInv, NoDescriptorLeak, ConnectedIsWatched, EventIsOurs, RetryScheduled, HandlerHasSocket

(* Giving the socket up keeps it, if a retry is scheduled or none is due.  *)
LEMMA GiveUpKeeps ==
  ASSUME ZInv, fd' = NoFd, sock' = AfterClose(fd), event' = NoEvent, hfd' = hfd,
         network' = network, timer' \in BOOLEAN,
         state' = "waiting" \/ (state' = "disconnected" /\ timer' = TRUE)
  PROVE  ZInv'
<1>1. sock' = [g \in FD |-> "free"]
  BY ClosedAll
<1>2. ZTypeOK'
  BY <1>1 DEF ZInv, ZTypeOK, SockState
<1> QED
  BY <1>1, <1>2
     DEF ZInv, NoDescriptorLeak, ConnectedIsWatched, EventIsOurs, RetryScheduled, HandlerHasSocket

LEMMA DialsKeep ==
  ASSUME ZInv, Dials
  PROVE  ZInv'
<1>1. fd \in FD \cup {NoFd} /\ NoFd \in FD \cup {NoFd} /\ timer \in BOOLEAN
  BY DEF ZInv, ZTypeOK
<1>2. CASE StartOK
  BY <1>1, <1>2, DialOKKeeps DEF StartOK
<1>3. CASE StartFail
  BY <1>3 DEF StartFail, ZInv, ZTypeOK, NoDescriptorLeak, ConnectedIsWatched, EventIsOurs,
              RetryScheduled, HandlerHasSocket, Immediate
<1>4. CASE RetryOK
  BY <1>1, <1>4, DialOKKeeps DEF RetryOK
<1>5. CASE EofOK
  <2>1. event.fd \in FD \cup {NoFd}
    BY <1>1, <1>5 DEF EofOK, EofPending, ZInv, EventIsOurs
  <2>2. QED
    BY <1>1, <1>5, <2>1, DialOKKeeps DEF EofOK
<1>6. CASE StartPending \/ RetryPending \/ EofDial
  BY <1>6, DialPendingKeeps DEF StartPending, RetryPending, EofDial
<1>7. CASE RetryFail \/ EofFail
  <2>1. DialFail
    BY <1>7 DEF RetryFail, EofFail
  <2>2. QED
    BY <2>1, GiveUpKeeps DEF DialFail
<1> QED
  BY <1>2, <1>3, <1>4, <1>5, <1>6, <1>7 DEF Dials

LEMMA ConnectionInductive == ZInv /\ [ZNext]_zvars => ZInv'
<1> SUFFICES ASSUME ZInv, [ZNext]_zvars PROVE ZInv'
  OBVIOUS
<1> USE DEF ZInv, ZTypeOK, NoDescriptorLeak, ConnectedIsWatched, EventIsOurs,
            RetryScheduled, HandlerHasSocket, Immediate
<1>1. CASE Dials
  <2> HIDE DEF ZInv
  <2> QED
    BY <1>1, DialsKeep
<1>2. CASE ConnectTimeout
  <2>1. fd' = NoFd /\ sock' = AfterClose(fd) /\ event' = NoEvent /\ hfd' = hfd /\ network' = network
    BY <1>2 DEF ConnectTimeout
  <2>2. timer' \in BOOLEAN /\ state' = "waiting"
    BY <1>2 DEF ConnectTimeout
  <2> HIDE DEF ZInv
  <2>3. QED
    BY <2>1, <2>2, GiveUpKeeps
<1>3. CASE TimerIgnored
  BY <1>3 DEF TimerIgnored
<1>4. ASSUME NEW f \in FD, Established(f) PROVE ZInv'
  <2>1. event' \in Event /\ event'.fd = f
    BY <1>4 DEF Established, Event
  <2>2. fd = f
    BY <1>4, ZClientAssumption DEF Established, Writable
  <2>3. QED
    BY <1>4, <2>1, <2>2 DEF Established
<1>5. ASSUME NEW f \in FD, StillConnecting(f) PROVE ZInv'
  BY <1>5 DEF StillConnecting, Writable
<1>6. ASSUME NEW f \in FD, ConnectFailed(f) PROVE ZInv'
  <2>1. fd' = NoFd /\ sock' = AfterClose(fd) /\ event' = NoEvent /\ hfd' = hfd /\ network' = network
    BY <1>6 DEF ConnectFailed
  <2>2. timer' = TRUE /\ state' = "disconnected"
    BY <1>6 DEF ConnectFailed
  <2> HIDE DEF ZInv
  <2>3. QED
    BY <2>1, <2>2, GiveUpKeeps
<1>7. ASSUME NEW f \in FD, PeerClosed(f) PROVE ZInv'
  BY <1>7 DEF PeerClosed
<1>8. ASSUME NEW f \in FD, RecvFailed(f) PROVE ZInv'
  <2>1. sock' = [g \in FD |-> IF g = f THEN "free" ELSE sock[g]]
    BY <1>8 DEF RecvFailed, AfterClose
  <2>2. sock' \in [FD -> SockState]
    BY <2>1 DEF SockState
  <2>3. QED
    BY <1>8, <2>1, <2>2 DEF RecvFailed
<1>9. ASSUME NEW f \in FD, NEW from \in {"connecting", "up"}, NEW to \in {"up", "refused", "eof", "reset"},
             from = "up" => to # "refused", Turns(f, from, to)
      PROVE  ZInv'
  <2>1. sock' = [sock EXCEPT ![f] = to] /\ sock[f] = from
    BY <1>9 DEF Turns
  <2>2. UNCHANGED <<state, fd, event, timer, hfd, network>>
    BY <1>9 DEF Turns
  <2>3. sock' \in [FD -> SockState]
    BY <2>1 DEF SockState
  <2>4. \A g \in FD : sock'[g] # "free" => g = fd
    BY <2>1, <1>9
  <2>5. state = "connected" => sock'[fd] \in {"up", "eof", "reset"}
    BY <2>1, <1>9
  <2>6. QED
    BY <2>2, <2>3, <2>4, <2>5
<1>10. CASE UNCHANGED zvars
  BY <1>10 DEF zvars
<1> HIDE DEF ZInv
<1>11. ASSUME NEW f \in FD, Accepted(f) \/ Refused(f) \/ ServerCloses(f) \/ Resets(f) PROVE ZInv'
  BY <1>9, <1>11 DEF Accepted, Refused, ServerCloses, Resets
<1> QED
  BY <1>1, <1>2, <1>3, <1>4, <1>5, <1>6, <1>7, <1>8, <1>10, <1>11 DEF ZNext

(* The login rides on the connection: no step of it is unknown to ZClient. *)
LEMMA StepIsZStep == [Next]_vars => [ZNext]_zvars
<1> SUFFICES ASSUME [Next]_vars PROVE [ZNext]_zvars
  OBVIOUS
<1>1. CASE Start \/ Redial
  <2>1. Dials
    BY <1>1 DEF Start, Redial, Dials
  <2>2. QED
    BY <2>1 DEF ZNext
<1>2. CASE AbortConnect \/ TimerIgnored
  BY <1>2 DEF AbortConnect, ZNext
<1>3. ASSUME NEW f \in FD, ConnectDone(f) \/ Lost(f) \/ Environment(f) PROVE ZNext
  BY <1>3 DEF ConnectDone, Lost, Environment, ZNext
<1>4. ASSUME NEW f \in FD, ReadAccept(f) \/ ReadRefusal(f) PROVE UNCHANGED zvars
  BY <1>4 DEF ReadAccept, ReadRefusal
<1>5. ASSUME NEW i \in Slot, Relogin(i) \/ TimerRunsOut(i) PROVE UNCHANGED zvars
  BY <1>5 DEF Relogin, TimerRunsOut
<1>6. CASE UNCHANGED vars
  BY <1>6 DEF vars
<1> QED
  BY <1>1, <1>2, <1>3, <1>4, <1>5, <1>6 DEF Next

LEMMA NetworkStays == [Next]_vars => network' = network
<1>1. [ZNext]_zvars => network' = network
  <2>1. Dials => network' = network
    BY DEF Dials, StartOK, StartPending, StartFail, RetryOK, RetryPending, RetryFail,
           EofOK, EofDial, EofFail, DialOK, DialPending, DialFail
  <2>2. \A f \in FD : Accepted(f) \/ Refused(f) \/ ServerCloses(f) \/ Resets(f) => network' = network
    BY DEF Accepted, Refused, ServerCloses, Resets, Turns
  <2>3. QED
    BY <2>1, <2>2 DEF ZNext, zvars, ConnectTimeout, TimerIgnored, Established, StillConnecting,
       ConnectFailed, PeerClosed, RecvFailed
<1>2. QED
  BY <1>1, StepIsZStep

LEMMA ConnectionCorrect == Spec => []ZInv
<1>1. Init => ZInv
  BY DEF Init, ZInit, ZInv, ZTypeOK, SockState, NoDescriptorLeak, ConnectedIsWatched,
         EventIsOurs, RetryScheduled, HandlerHasSocket
<1>2. ZInv /\ [Next]_vars => ZInv'
  BY StepIsZStep, ConnectionInductive
<1>3. QED
  BY <1>1, <1>2, PTL DEF Spec

(* The client never holds a descriptor beside fd_, whatever the order of   *)
(* refusals, timeouts, resets and closes.                                  *)
THEOREM FgwNoDescriptorLeak == Spec => []NoDescriptorLeak
BY ConnectionCorrect, PTL DEF ZInv

(* A connected client listens on its connected socket.                     *)
THEOREM FgwConnectedIsWatched == Spec => []ConnectedIsWatched
BY ConnectionCorrect, PTL DEF ZInv

(* A client that knows it is disconnected has its retry scheduled.         *)
THEOREM FgwRetryScheduled == Spec => []RetryScheduled
BY ConnectionCorrect, PTL DEF ZInv

(* Where connect() never succeeds at once, the handler writes to the       *)
(* connected socket.                                                       *)
THEOREM FgwHandlerHasSocket == Spec => []HandlerHasSocket
BY ConnectionCorrect, PTL DEF ZInv

-----------------------------------------------------------------------------
(* The login                                                               *)

(* A login timer is remembered only while an answer is awaited; without    *)
(* this a remembered timer could run out and leave its number behind.      *)
TimerWhileWaiting == ~Immediate /\ loginTimer # NoTimer => reg = "wait"

LoginInv == HTypeOK /\ TimerOwned /\ TimerWhileWaiting /\ RegisteredHere

LEMMA AgedTyped ==
  ASSUME HTypeOK
  PROVE  /\ Aged \in [Slot -> {"free", "stale"}]
         /\ \A i \in Slot : Aged[i] = "free" <=> slots[i] = "free"
BY DEF HTypeOK, Aged

LEMMA SendLoginTyped ==
  ASSUME NEW n \in 0 .. MaxUnanswered, SendLogin(n)
  PROVE  unanswered' \in 0 .. MaxUnanswered
BY FgwClientAssumption DEF SendLogin

LEMMA NoTimerIsNoSlot == NoTimer \notin Slot
BY FgwClientAssumption DEF Slot

(* fgwLogin's timer is the remembered one, and the only one of this login. *)
LEMMA ArmKeeps ==
  ASSUME HTypeOK, ArmLoginTimer
  PROVE  /\ slots' \in [Slot -> {"free", "last", "stale"}]
         /\ loginTimer' \in Slot \cup {NoTimer}
         /\ \A i \in Slot : slots'[i] = "last" <=> loginTimer' = i
<1>1. CASE \E i \in Slot : slots' = [Aged EXCEPT ![i] = "last"] /\ loginTimer' = i
  BY <1>1, AgedTyped
<1>2. CASE slots' = Aged /\ loginTimer' = NoTimer
  BY <1>2, AgedTyped, NoTimerIsNoSlot
<1> QED
  BY <1>1, <1>2 DEF ArmLoginTimer

LEMMA OnConnectedKeeps ==
  ASSUME LoginInv, NEW n \in 0 .. MaxUnanswered, OnConnected(n), admitted' \in BOOLEAN
  PROVE  LoginInv'
<1>1. reg' = "wait" /\ unanswered' \in 0 .. MaxUnanswered
  BY SendLoginTyped DEF OnConnected
<1>2. /\ slots' \in [Slot -> {"free", "last", "stale"}]
      /\ loginTimer' \in Slot \cup {NoTimer}
      /\ \A i \in Slot : slots'[i] = "last" <=> loginTimer' = i
  BY ArmKeeps DEF LoginInv, OnConnected
<1>3. HTypeOK'
  BY <1>1, <1>2 DEF HTypeOK
<1> QED
  BY <1>1, <1>2, <1>3 DEF LoginInv, TimerOwned, TimerWhileWaiting, RegisteredHere

(* A step the handler takes no part in keeps the invariant if it does not  *)
(* end in a connection, or nothing about the connection's admission moved. *)
LEMMA IdleKeeps ==
  ASSUME LoginInv, HandlerIdle,
         unanswered' \in 0 .. MaxUnanswered, admitted' \in BOOLEAN, network' = network,
         state' # "connected" \/ (state = "connected" /\ (admitted => admitted'))
  PROVE  LoginInv'
<1>1. UNCHANGED <<reg, loginTimer, slots>>
  BY DEF HandlerIdle
<1> QED
  BY <1>1 DEF LoginInv, HTypeOK, TimerOwned, TimerWhileWaiting, RegisteredHere, Immediate

LEMMA NewSocketTyped ==
  ASSUME NewSocket
  PROVE  unanswered' \in 0 .. MaxUnanswered /\ admitted' \in BOOLEAN
<1>1. 0 \in 0 .. MaxUnanswered
  BY FgwClientAssumption
<1>2. unanswered' = 0
  BY DEF NewSocket
<1>3. admitted' \in BOOLEAN
  BY DEF NewSocket
<1> QED
  BY <1>1, <1>2, <1>3

LEMMA StartKeeps ==
  ASSUME LoginInv, Start, network' = network
  PROVE  LoginInv'
<1>1. CASE (StartPending \/ StartFail) /\ HandlerIdle /\ NewSocket
  <2>1. HandlerIdle /\ NewSocket
    BY <1>1
  <2>2. state' # "connected"
    BY <1>1 DEF StartPending, StartFail, DialPending
  <2>3. unanswered' \in 0 .. MaxUnanswered /\ admitted' \in BOOLEAN
    BY <2>1, NewSocketTyped
  <2>4. QED
    BY <2>1, <2>2, <2>3, IdleKeeps
<1>2. CASE StartOK /\ reg' = "unregistered" /\ SendLogin(0) /\ ArmLoginTimer /\ admitted' = FALSE
  <2>1. Immediate
    BY <1>2 DEF StartOK, DialOK
  <2>2. unanswered' \in 0 .. MaxUnanswered
    BY <1>2, SendLoginTyped, FgwClientAssumption
  <2>3. /\ slots' \in [Slot -> {"free", "last", "stale"}]
        /\ loginTimer' \in Slot \cup {NoTimer}
    BY <1>2, ArmKeeps DEF LoginInv
  <2>4. HTypeOK'
    BY <1>2, <2>2, <2>3 DEF HTypeOK
  <2>5. QED
    BY <1>2, <2>1, <2>4 DEF LoginInv, TimerOwned, TimerWhileWaiting, RegisteredHere, Immediate
<1> QED
  BY <1>1, <1>2 DEF Start

LEMMA RedialKeeps ==
  ASSUME LoginInv, Redial, network' = network
  PROVE  LoginInv'
<1>1. CASE (RetryOK \/ EofOK) /\ OnConnected(0) /\ admitted' = FALSE
  <2>1. 0 \in 0 .. MaxUnanswered
    BY FgwClientAssumption
  <2>2. QED
    BY <1>1, <2>1, OnConnectedKeeps
<1>2. CASE (RetryPending \/ RetryFail \/ EofDial \/ EofFail) /\ HandlerIdle /\ NewSocket
  <2>1. state' # "connected"
    BY <1>2 DEF RetryPending, RetryFail, EofDial, EofFail, DialPending, DialFail
  <2>2. unanswered' \in 0 .. MaxUnanswered /\ admitted' \in BOOLEAN
    BY <1>2, NewSocketTyped
  <2>3. QED
    BY <1>2, <2>1, <2>2, IdleKeeps
<1> QED
  BY <1>1, <1>2 DEF Redial

LEMMA ConnectionStepsKeep ==
  ASSUME LoginInv, NEW f \in FD, ConnectDone(f) \/ Lost(f) \/ Environment(f), network' = network
  PROVE  LoginInv'
<1>1. unanswered \in 0 .. MaxUnanswered /\ admitted \in BOOLEAN /\ 0 \in 0 .. MaxUnanswered
  BY FgwClientAssumption DEF LoginInv, HTypeOK
<1>2. CASE Established(f) /\ OnConnected(unanswered) /\ UNCHANGED admitted
  BY <1>1, <1>2, OnConnectedKeeps
<1>3. CASE (ConnectFailed(f) \/ RecvFailed(f)) /\ HandlerIdle /\ NewSocket
  <2>1. state' # "connected"
    BY <1>3 DEF ConnectFailed, RecvFailed
  <2>2. unanswered' \in 0 .. MaxUnanswered /\ admitted' \in BOOLEAN
    BY <1>3, NewSocketTyped
  <2>3. QED
    BY <1>3, <2>1, <2>2, IdleKeeps
<1>4. CASE (StillConnecting(f) \/ PeerClosed(f) \/ Environment(f)) /\ UNCHANGED hvars
  <2>1. state' # "connected" \/ (state = "connected" /\ (admitted => admitted'))
    BY <1>4 DEF StillConnecting, Writable, PeerClosed, Environment, Accepted, Refused,
                ServerCloses, Resets, Turns, hvars
  <2>2. HandlerIdle /\ unanswered' \in 0 .. MaxUnanswered /\ admitted' \in BOOLEAN
    BY <1>1, <1>4 DEF hvars, HandlerIdle
  <2>3. QED
    BY <2>1, <2>2, IdleKeeps
<1> QED
  BY <1>2, <1>3, <1>4 DEF ConnectDone, Lost, Environment

LEMMA AnswersKeep ==
  ASSUME LoginInv, NEW f \in FD, ReadAccept(f) \/ ReadRefusal(f), network' = network
  PROVE  LoginInv'
<1>1. unanswered' \in 0 .. MaxUnanswered
  BY FgwClientAssumption DEF LoginInv, HTypeOK, ReadAccept, ReadRefusal
<1>2. CASE ReadRefusal(f)
  <2>1. HandlerIdle /\ admitted' = admitted /\ state' = state
    BY <1>2 DEF ReadRefusal, HandlerIdle, zvars
  <2>2. admitted' \in BOOLEAN /\ state = "connected"
    BY <1>2, <2>1 DEF LoginInv, HTypeOK, ReadRefusal, Readable
  <2>3. QED
    BY <1>1, <2>1, <2>2, IdleKeeps
<1>3. CASE ReadAccept(f) /\ reg # "wait"
  <2>1. HandlerIdle /\ admitted' = TRUE /\ state' = state /\ state = "connected"
    BY <1>3 DEF ReadAccept, Readable, zvars
  <2>2. QED
    BY <1>1, <2>1, IdleKeeps
<1>4. CASE ReadAccept(f) /\ reg = "wait"
  <2>1. /\ reg' = "registered" /\ admitted' = TRUE /\ loginTimer' = NoTimer
        /\ slots' = [i \in Slot |-> IF i = loginTimer THEN "free" ELSE slots[i]]
    BY <1>4 DEF ReadAccept
  <2>2. HTypeOK'
    BY <1>1, <2>1 DEF LoginInv, HTypeOK
  <2>3. TimerOwned'
    BY <2>1, NoTimerIsNoSlot DEF LoginInv, HTypeOK, TimerOwned, Immediate
  <2>4. QED
    BY <2>1, <2>2, <2>3 DEF LoginInv, TimerWhileWaiting, RegisteredHere, Immediate
<1> QED
  BY <1>2, <1>3, <1>4

LEMMA TimersKeep ==
  ASSUME LoginInv, NEW i \in Slot, Relogin(i) \/ TimerRunsOut(i), network' = network
  PROVE  LoginInv'
<1>1. CASE TimerRunsOut(i)
  <2>1. /\ slots' = [slots EXCEPT ![i] = "free"]
        /\ UNCHANGED <<state, reg, loginTimer, unanswered, admitted>>
        /\ ~(i = loginTimer /\ reg = "wait")
    BY <1>1 DEF TimerRunsOut, zvars
  <2>2. HTypeOK'
    BY <2>1 DEF LoginInv, HTypeOK
  <2>3. TimerOwned'
    <3> SUFFICES ASSUME ~Immediate, NEW j \in Slot PROVE slots'[j] = "last" <=> loginTimer' = j
      BY DEF TimerOwned, Immediate
    <3>1. i # loginTimer
      BY <2>1, NoTimerIsNoSlot DEF LoginInv, TimerWhileWaiting
    <3>2. slots[j] = "last" <=> loginTimer = j
      BY DEF LoginInv, TimerOwned
    <3>3. QED
      BY <2>1, <3>1, <3>2 DEF LoginInv, HTypeOK
  <2>4. QED
    BY <2>1, <2>2, <2>3 DEF LoginInv, TimerWhileWaiting, RegisteredHere, Immediate
<1>2. CASE Relogin(i)
  <2>1. /\ reg = "wait" /\ UNCHANGED <<state, reg, admitted>>
        /\ i = loginTimer /\ slots[i] # "free"
    BY <1>2 DEF Relogin, Armed, zvars
  <2>2. unanswered' \in 0 .. MaxUnanswered
    BY <1>2, SendLoginTyped DEF Relogin, LoginInv, HTypeOK
  <2>3. /\ slots' \in [Slot -> {"free", "last", "stale"}]
        /\ loginTimer' \in Slot \cup {NoTimer}
        /\ \A j \in Slot : slots'[j] = "last" <=> loginTimer' = j
    <3>1. CASE \E j \in Slot : /\ FreeSlot(j)
                              /\ slots' = [Aged EXCEPT ![j] = "last", ![i] = "free"]
                              /\ loginTimer' = j
      <4>1. PICK j \in Slot : /\ slots[j] = "free" /\ loginTimer' = j
                              /\ slots' = [Aged EXCEPT ![j] = "last", ![i] = "free"]
        BY <3>1 DEF FreeSlot
      <4>2. i # j
        BY <2>1, <4>1
      <4>3. QED
        BY <4>1, <4>2, AgedTyped DEF LoginInv
    <3>2. CASE slots' = [Aged EXCEPT ![i] = "free"] /\ loginTimer' = NoTimer
      BY <3>2, AgedTyped, NoTimerIsNoSlot DEF LoginInv
    <3>3. QED
      BY <1>2, <3>1, <3>2 DEF Relogin
  <2>4. HTypeOK'
    BY <2>1, <2>2, <2>3 DEF LoginInv, HTypeOK
  <2>5. QED
    BY <2>1, <2>3, <2>4 DEF LoginInv, TimerOwned, TimerWhileWaiting, RegisteredHere
<1> QED
  BY <1>1, <1>2

LEMMA LoginInductive == LoginInv /\ [Next]_vars => LoginInv'
<1> SUFFICES ASSUME LoginInv, [Next]_vars PROVE LoginInv'
  OBVIOUS
<1>0. network' = network
  BY NetworkStays
<1>1. CASE AbortConnect
  <2>1. state' # "connected" /\ HandlerIdle
    BY <1>1 DEF AbortConnect, ConnectTimeout
  <2>2. unanswered' \in 0 .. MaxUnanswered /\ admitted' \in BOOLEAN
    BY <1>1, NewSocketTyped DEF AbortConnect
  <2>3. QED
    BY <1>0, <2>1, <2>2, IdleKeeps
<1>2. CASE UNCHANGED <<state, hvars>>
  BY <1>0, <1>2 DEF hvars, LoginInv, HTypeOK, TimerOwned, TimerWhileWaiting, RegisteredHere, Immediate
<1>3. CASE TimerIgnored /\ UNCHANGED hvars
  <2>1. state' = state
    BY <1>3 DEF TimerIgnored
  <2>2. QED
    BY <1>2, <1>3, <2>1
<1>4. CASE UNCHANGED vars
  BY <1>2, <1>4 DEF vars, zvars
<1> QED
  BY <1>0, <1>1, <1>3, <1>4, StartKeeps, RedialKeeps, ConnectionStepsKeep, AnswersKeep, TimersKeep
     DEF Next

LEMMA LoginCorrect == Spec => []LoginInv
<1>1. Init => LoginInv
  <2> SUFFICES ASSUME Init PROVE LoginInv
    OBVIOUS
  <2>1. /\ reg = "unregistered" /\ loginTimer = NoTimer /\ unanswered = 0
        /\ slots = [i \in Slot |-> "free"]
    BY DEF Init
  <2>2. admitted \in BOOLEAN
    BY DEF Init
  <2>3. 0 \in 0 .. MaxUnanswered
    BY FgwClientAssumption
  <2>4. HTypeOK
    BY <2>1, <2>2, <2>3 DEF HTypeOK
  <2>5. QED
    BY <2>1, <2>4, NoTimerIsNoSlot DEF LoginInv, TimerOwned, TimerWhileWaiting, RegisteredHere
<1>2. QED
  BY <1>1, LoginInductive, PTL DEF Spec

(* Every variable of the gateway's connection and login keeps its type.    *)
THEOREM FgwTypeCorrect == Spec => []TypeOK
<1>1. ZInv /\ LoginInv => TypeOK
  BY DEF ZInv, LoginInv, TypeOK
<1>2. QED
  BY <1>1, ConnectionCorrect, LoginCorrect, PTL

(* The timer the handler remembers is its last login's, for any number of  *)
(* timer slots and any pace of reconnections.                              *)
THEOREM FgwTimerOwned == Spec => []TimerOwned
BY LoginCorrect, PTL DEF LoginInv

(* A gateway that believes it is registered on a live connection was       *)
(* admitted on it.                                                         *)
THEOREM FgwRegisteredHere == Spec => []RegisteredHere
BY LoginCorrect, PTL DEF LoginInv

-----------------------------------------------------------------------------
(* The login's timer                                                       *)

(* A login and the one it is repeated by fit beside the timers left over.  *)
EnoughSlots == MaxArmed + 2 <= MaxTimers

(* The network may connect only after so many timers have run out.         *)
Accountable ==
  /\ \A f \in FD : Writable(f) /\ sock[f] \in {"up", "eof"} => Cardinality(Armed) <= MaxArmed
  /\ state = "connected" => Cardinality(Armed) <= MaxArmed + 1

PaceInv == ~Immediate => Accountable /\ LoginUnderWay

LEMMA SlotsCounted ==
  ASSUME NEW S \in SUBSET Slot
  PROVE  /\ IsFiniteSet(S) /\ Cardinality(S) \in Nat
         /\ Cardinality(S) < MaxTimers => S # Slot
<1>1. IsFiniteSet(Slot) /\ Cardinality(Slot) = MaxTimers
  <2>1. 0 \in Int /\ MaxTimers - 1 \in Int /\ ~(0 > MaxTimers - 1) /\ (MaxTimers - 1) - 0 + 1 = MaxTimers
    BY FgwClientAssumption
  <2> QED
    BY <2>1, FS_Interval DEF Slot
<1>2. IsFiniteSet(S) /\ Cardinality(S) \in Nat
  BY <1>1, FS_Subset, FS_CardinalityType
<1> QED
  BY <1>1, <1>2, FgwClientAssumption

LEMMA ArmedCounted ==
  /\ IsFiniteSet(Armed) /\ Cardinality(Armed) \in Nat /\ Cardinality(Armed') \in Nat
  /\ Cardinality(Armed) < MaxTimers => Armed # Slot
<1>1. Armed \in SUBSET Slot /\ Armed' \in SUBSET Slot
  BY DEF Armed
<1> QED
  BY <1>1, SlotsCounted

(* fgwLogin with room for its timer.                                       *)
LEMMA ArmCounted ==
  ASSUME HTypeOK, ArmLoginTimer, Cardinality(Armed) <= MaxArmed, EnoughSlots
  PROVE  loginTimer' \in Armed' /\ Cardinality(Armed') <= MaxArmed + 1
<1>1. Armed # Slot
  BY ArmedCounted, FgwClientAssumption DEF EnoughSlots
<1>2. PICK i \in Slot : slots' = [Aged EXCEPT ![i] = "last"] /\ loginTimer' = i
  BY <1>1 DEF ArmLoginTimer
<1>3. Armed' = Armed \cup {i}
  BY <1>2, AgedTyped DEF Armed
<1>4. Cardinality(Armed') <= Cardinality(Armed) + 1
  BY <1>3, ArmedCounted, FS_AddElement
<1> QED
  BY <1>2, <1>3, <1>4, ArmedCounted, FgwClientAssumption

(* A repeated login takes one timer and gives one back.                    *)
LEMMA ReloginCounted ==
  ASSUME HTypeOK, NEW i \in Slot, Relogin(i)
  PROVE  /\ Cardinality(Armed') <= Cardinality(Armed)
         /\ Cardinality(Armed) < MaxTimers => loginTimer' \in Armed'
<1>1. i \in Armed
  BY DEF Relogin
<1>2. CASE \E j \in Slot : /\ FreeSlot(j)
                          /\ slots' = [Aged EXCEPT ![j] = "last", ![i] = "free"]
                          /\ loginTimer' = j
  <2>1. PICK j \in Slot : /\ slots[j] = "free" /\ loginTimer' = j
                          /\ slots' = [Aged EXCEPT ![j] = "last", ![i] = "free"]
    BY <1>2 DEF FreeSlot
  <2>2. j \notin Armed /\ i # j
    BY <1>1, <2>1 DEF Armed
  <2>3. Armed' = (Armed \cup {j}) \ {i}
    BY <1>1, <2>1, <2>2, AgedTyped DEF Armed
  <2>4. /\ IsFiniteSet(Armed \cup {j}) /\ i \in Armed \cup {j}
        /\ Cardinality(Armed \cup {j}) = Cardinality(Armed) + 1
    BY <1>1, <2>2, ArmedCounted, FS_AddElement
  <2>5. Cardinality(Armed') = Cardinality(Armed \cup {j}) - 1
    BY <2>3, <2>4, FS_RemoveElement
  <2> QED
    BY <2>1, <2>2, <2>3, <2>4, <2>5, ArmedCounted
<1>3. CASE Armed = Slot /\ slots' = [Aged EXCEPT ![i] = "free"]
  <2>1. Armed' = Armed \ {i}
    BY <1>1, <1>3, AgedTyped DEF Armed
  <2>2. Cardinality(Armed') = Cardinality(Armed) - 1
    BY <1>1, <2>1, ArmedCounted, FS_RemoveElement
  <2> QED
    BY <1>3, <2>2, ArmedCounted
<1> QED
  BY <1>2, <1>3 DEF Relogin

LEMMA FewerCounted ==
  ASSUME Armed' \subseteq Armed
  PROVE  Cardinality(Armed') <= Cardinality(Armed)
BY ArmedCounted, FS_Subset

(* A step of the timers.                                                   *)
LEMMA TimersKeepPace ==
  ASSUME Accountable, UNCHANGED <<state, event, sock, reg>>,
         Cardinality(Armed') <= Cardinality(Armed),
         state = "connected" => reg = "registered" \/ (reg = "wait" /\ loginTimer' \in Armed')
  PROVE  PaceInv'
<1>1. \A n \in Nat : Cardinality(Armed) <= n => Cardinality(Armed') <= n
  BY ArmedCounted
<1>2. Accountable'
  BY <1>1, FgwClientAssumption DEF Accountable, Writable
<1> QED
  BY <1>2 DEF PaceInv, LoginUnderWay

(* A step that does not end in a connected or connectable socket.          *)
LEMMA NotConnectedKeeps ==
  ASSUME state' # "connected",
         state' = "waiting" => \A f \in FD : sock'[f] \in {"free", "connecting"}
  PROVE  PaceInv'
BY DEF PaceInv, Accountable, LoginUnderWay, Writable

(* A step that leaves the socket and the login alone.                      *)
LEMMA QuietKeepsPace ==
  ASSUME PaceInv, UNCHANGED <<state, event, sock, network, reg, loginTimer, slots>>
  PROVE  PaceInv'
BY DEF PaceInv, Accountable, LoginUnderWay, Writable, Immediate, Armed

LEMMA DialKeepsPace ==
  ASSUME ZInv, DialPending \/ DialFail
  PROVE  PaceInv'
<1>1. CASE DialPending
  <2>1. PICK f \in FD : sock' = [AfterClose(fd) EXCEPT ![f] = "connecting"]
    BY <1>1 DEF DialPending
  <2>2. \A g \in FD : sock'[g] \in {"free", "connecting"}
    BY <2>1, ClosedAll
  <2> QED
    BY <1>1, <2>2, NotConnectedKeeps DEF DialPending
<1>2. CASE DialFail
  BY <1>2, NotConnectedKeeps DEF DialFail
<1> QED
  BY <1>1, <1>2

LEMMA PaceInductive ==
  ASSUME EnoughSlots, ZInv, LoginInv, PaceInv, [Next]_vars
  PROVE  PaceInv'
<1> SUFFICES ASSUME ~Immediate PROVE PaceInv'
  BY NetworkStays DEF PaceInv, Immediate
<1>0. HTypeOK /\ Accountable /\ LoginUnderWay /\ network' = network
  BY NetworkStays DEF LoginInv, PaceInv
<1>1. CASE Start
  <2>1. CASE StartFail
    BY <2>1, NotConnectedKeeps DEF StartFail
  <2>2. CASE StartPending
    BY <2>2, DialKeepsPace DEF StartPending
  <2> QED
    BY <1>1, <2>1, <2>2 DEF Start, StartOK, DialOK
<1>2. CASE Redial
  BY <1>2, DialKeepsPace
     DEF Redial, RetryOK, EofOK, DialOK, RetryPending, RetryFail, EofDial, EofFail
<1>3. CASE AbortConnect
  <2>1. state' = "waiting" /\ sock' = AfterClose(fd)
    BY <1>3 DEF AbortConnect, ConnectTimeout
  <2> QED
    BY <2>1, ClosedAll, NotConnectedKeeps
<1>4. CASE TimerIgnored /\ UNCHANGED hvars
  BY <1>4, QuietKeepsPace DEF TimerIgnored, hvars
<1>5. ASSUME NEW f \in FD, ConnectDone(f) PROVE PaceInv'
  <2>1. CASE Established(f) /\ OnConnected(unanswered)
    <3>1. Cardinality(Armed) <= MaxArmed
      BY <1>0, <2>1 DEF Established, Accountable
    <3>2. loginTimer' \in Armed' /\ Cardinality(Armed') <= MaxArmed + 1
      BY <1>0, <2>1, <3>1, ArmCounted DEF OnConnected
    <3>3. state' = "connected" /\ reg' = "wait"
      BY <2>1 DEF Established, OnConnected
    <3> QED
      BY <3>2, <3>3 DEF PaceInv, Accountable, LoginUnderWay, Writable
  <2>2. CASE ConnectFailed(f)
    BY <2>2, NotConnectedKeeps DEF ConnectFailed
  <2>3. CASE StillConnecting(f) /\ UNCHANGED hvars
    BY <2>3, QuietKeepsPace DEF StillConnecting, hvars
  <2> QED
    BY <1>5, <2>1, <2>2, <2>3 DEF ConnectDone
<1>6. ASSUME NEW f \in FD, Lost(f) PROVE PaceInv'
  BY <1>6, NotConnectedKeeps DEF Lost, PeerClosed, RecvFailed
<1>7. ASSUME NEW f \in FD, ReadAccept(f) PROVE PaceInv'
  <2>1. UNCHANGED <<state, event, sock>> /\ state = "connected"
    BY <1>7 DEF ReadAccept, Readable, zvars
  <2>2. Armed' \subseteq Armed /\ reg' = "registered"
    BY <1>0, <1>7, <2>1 DEF ReadAccept, HandlerIdle, Armed, LoginUnderWay
  <2>3. Cardinality(Armed') <= Cardinality(Armed)
    BY <2>2, FewerCounted
  <2>4. Accountable'
    BY <1>0, <2>1, <2>3, ArmedCounted, FgwClientAssumption DEF Accountable, Writable
  <2> QED
    BY <2>2, <2>4 DEF PaceInv, LoginUnderWay
<1>8. ASSUME NEW f \in FD, ReadRefusal(f) PROVE PaceInv'
  BY <1>8, QuietKeepsPace DEF ReadRefusal, zvars
<1>9. ASSUME NEW f \in FD, Environment(f) PROVE PaceInv'
  <2>1. UNCHANGED <<state, event, network, reg, loginTimer, slots>>
    BY <1>9 DEF Environment, Accepted, Refused, ServerCloses, Resets, Turns, hvars
  <2>2. CASE Accepted(f)
    <3>1. Cardinality(Armed) <= MaxArmed
      BY <1>9, <2>2 DEF Environment, Accepted, Refused, ServerCloses, Resets, Turns, ZInv, ZTypeOK
    <3> QED
      BY <1>0, <2>1, <3>1 DEF PaceInv, Accountable, LoginUnderWay, Immediate, Armed
  <2>3. CASE ~Accepted(f)
    <3>1. \A g \in FD : sock'[g] \in {"up", "eof"} => sock[g] \in {"up", "eof"}
      BY <1>9, <2>3 DEF Environment, Refused, ServerCloses, Resets, Turns, ZInv, ZTypeOK
    <3> QED
      BY <1>0, <2>1, <3>1 DEF PaceInv, Accountable, LoginUnderWay, Immediate, Armed, Writable
  <2> QED
    BY <2>2, <2>3
<1>10. ASSUME NEW i \in Slot, Relogin(i) PROVE PaceInv'
  <2>1. UNCHANGED <<state, event, sock, reg>> /\ reg = "wait"
    BY <1>10 DEF Relogin, zvars
  <2>2. /\ Cardinality(Armed') <= Cardinality(Armed)
        /\ Cardinality(Armed) < MaxTimers => loginTimer' \in Armed'
    BY <1>0, <1>10, ReloginCounted
  <2>3. state = "connected" => Cardinality(Armed) < MaxTimers
    BY <1>0, ArmedCounted, FgwClientAssumption DEF Accountable, EnoughSlots
  <2> QED
    BY <1>0, <2>1, <2>2, <2>3, TimersKeepPace
<1>11. ASSUME NEW i \in Slot, TimerRunsOut(i) PROVE PaceInv'
  <2>1. UNCHANGED <<state, event, sock, reg, loginTimer>> /\ ~(i = loginTimer /\ reg = "wait")
    BY <1>11 DEF TimerRunsOut, zvars
  <2>2. Armed' = Armed \ {i}
    BY <1>0, <1>11 DEF TimerRunsOut, Armed, HTypeOK
  <2>3. state = "connected" => reg = "registered" \/ (reg = "wait" /\ loginTimer' \in Armed')
    BY <1>0, <2>1, <2>2 DEF LoginUnderWay
  <2> QED
    BY <1>0, <2>1, <2>2, <2>3, FewerCounted, TimersKeepPace
<1>12. CASE UNCHANGED vars
  BY <1>12, QuietKeepsPace DEF vars, zvars, hvars
<1> QED
  BY <1>1, <1>2, <1>3, <1>4, <1>5, <1>6, <1>7, <1>8, <1>9, <1>10, <1>11, <1>12 DEF Next

(* Where lost connections follow each other slowly enough for the slots,   *)
(* a connected gateway is registered or will repeat its login, whatever    *)
(* timers earlier logins left behind.                                      *)
THEOREM FgwLoginUnderWay ==
  ASSUME EnoughSlots
  PROVE  Spec => []LoginUnderWay
<1>1. Init => PaceInv
  BY DEF Init, ZInit, PaceInv, Accountable, LoginUnderWay, Writable
<1>2. ZInv /\ LoginInv /\ PaceInv /\ [Next]_vars => PaceInv'
  BY PaceInductive
<1>3. PaceInv => LoginUnderWay
  BY DEF PaceInv, LoginUnderWay
<1> QED
  BY <1>1, <1>2, <1>3, ConnectionCorrect, LoginCorrect, PTL DEF Spec
=============================================================================
