-------------------------------- MODULE ZClient --------------------------------
(***************************************************************************)
(* The gateway's TCP client (libframework/zclient): a state machine that   *)
(* keeps one connection to the push server up, driven by one socket event, *)
(* one timer and the only thread of the process.  The kernel's side of a   *)
(* socket is modelled as far as the callbacks can tell it: still           *)
(* connecting, up, refused, closed by the peer, reset.                     *)
(*                                                                         *)
(* close() and its state FINISHED are left out: nothing in the gateway     *)
(* calls it.  Received data changes nothing in this class; FgwClient has   *)
(* the handler it is passed to.                                            *)
(***************************************************************************)
EXTENDS Naturals

CONSTANTS
  FD,        \* descriptor numbers the process can get for its socket
  Networks,  \* the networks the gateway may be put on
  NoFd, NoEvent

ASSUME ZClientAssumption ==
  /\ FD \subseteq Nat
  /\ NoFd \notin FD
  /\ Networks \subseteq {"calm", "slow", "rough"}

VARIABLES
  state,  \* state_; "new" before init(), "exited" when init() failed
  fd,     \* fd_
  event,  \* what socket_event_proxy_ waits for, or NoEvent
  timer,  \* whether timeout_event_proxy_ is pending
  hfd,    \* fd_ of the handler
  sock,   \* the kernel's state of each descriptor
  network \* the network this gateway is on

zvars == <<state, fd, event, timer, hfd, sock, network>>

(* On a slow network an attempt may outlast RETRY_INTERVAL; on a rough one *)
(* ::connect may also return 0 at once.                                    *)
SlowNetwork == network # "calm"
Immediate == network = "rough"

SockState == {"free", "connecting", "up", "refused", "eof", "reset"}

(* A pending event always watches one descriptor for one condition.  (The  *)
(* one-shot write event is not pending once it has fired.)                 *)
Event == [fd: FD, on: {"read", "write"}]

ZTypeOK ==
  /\ state \in {"new", "waiting", "connected", "disconnected", "exited"}
  /\ fd \in FD \cup {NoFd}
  /\ event \in Event \cup {NoEvent}
  /\ timer \in BOOLEAN
  /\ hfd \in FD \cup {NoFd}
  /\ sock \in [FD -> SockState]
  /\ network \in Networks

ZInit ==
  /\ state = "new"
  /\ fd = NoFd
  /\ event = NoEvent
  /\ timer = FALSE
  /\ hfd = NoFd
  /\ sock = [f \in FD |-> "free"]
  /\ network \in Networks

-----------------------------------------------------------------------------
(* Dialling: connect() and what onDisconnected makes of its result         *)

(* MUTANT: the descriptor is given up without a close().                   *)
MutAfterClose(d) == sock

(* The descriptors after disconnect() has closed fd_: closing one that is  *)
(* already free changes nothing.                                           *)
AfterClose(d) == [f \in FD |-> IF f = d THEN "free" ELSE sock[f]]

(* socket() returns the lowest free descriptor.                            *)
LowestFree(s, f) == s[f] = "free" /\ \A g \in FD : s[g] = "free" => f <= g

(* connect() returned OK: from is the parameter the caller was given, not  *)
(* the descriptor just opened, and the timer is left as it was.            *)
DialOK(from) ==
  /\ Immediate
  /\ \E f \in FD :
       /\ LowestFree(AfterClose(fd), f)
       /\ fd' = f
       /\ sock' = [AfterClose(fd) EXCEPT ![f] = "up"]
       /\ event' = [fd |-> f, on |-> "read"]
  /\ state' = "connected"
  /\ hfd' = from
  /\ UNCHANGED network

(* connect() returned ERR_IO_PENDING: the write event tells the result,    *)
(* the timer limits the wait.                                              *)
DialPending ==
  /\ \E f \in FD :
       /\ LowestFree(AfterClose(fd), f)
       /\ fd' = f
       /\ sock' = [AfterClose(fd) EXCEPT ![f] = "connecting"]
       /\ event' = [fd |-> f, on |-> "write"]
  /\ state' = "waiting"
  /\ timer' = TRUE
  /\ UNCHANGED <<hfd, network>>

(* connect() returned FAIL (no descriptor, or refused at once): it has     *)
(* closed what it opened, and the next attempt is scheduled.               *)
DialFail ==
  /\ fd' = NoFd
  /\ sock' = AfterClose(fd)
  /\ event' = NoEvent
  /\ state' = "disconnected"
  /\ timer' = TRUE
  /\ UNCHANGED <<hfd, network>>

(* ZClient::init: a failed first attempt ends the program.                 *)
StartOK == state = "new" /\ DialOK(NoFd) /\ UNCHANGED timer
StartPending == state = "new" /\ DialPending
StartFail ==
  /\ state = "new"
  /\ state' = "exited"
  /\ UNCHANGED <<fd, event, timer, hfd, sock, network>>

(* The timer fires in STATE_DISCONNECTED: onTimeoutPrivate cancels it and  *)
(* dials.                                                                  *)
RetryOK == state = "disconnected" /\ timer /\ DialOK(fd) /\ timer' = FALSE
RetryPending == state = "disconnected" /\ timer /\ DialPending
RetryFail == state = "disconnected" /\ timer /\ DialFail

(* The persistent read event of a connection the peer closed stays         *)
(* registered, and the end of the stream stays readable: the next turn of  *)
(* the loop dials, before the timer.                                       *)
EofPending == state = "disconnected" /\ event # NoEvent /\ event.on = "read" /\ sock[event.fd] = "eof"
EofOK == EofPending /\ DialOK(event.fd) /\ UNCHANGED timer
EofDial == EofPending /\ DialPending
EofFail == EofPending /\ DialFail

-----------------------------------------------------------------------------
(* Waiting for the connection: onWaitingForConnect, onTimeoutPrivate       *)

Writable(f) == state = "waiting" /\ event = [fd |-> f, on |-> "write"]

(* MUTANT: the handler keeps the descriptor it had.                        *)
MutEstablished(f) ==
  /\ Writable(f) /\ sock[f] \in {"up", "eof"}
  /\ timer' = FALSE
  /\ event' = [fd |-> f, on |-> "read"]
  /\ state' = "connected"
  /\ UNCHANGED <<fd, sock, hfd, network>>

(* MUTANT: the read event of the new connection is not registered.         *)
MutUnwatched(f) ==
  /\ Writable(f) /\ sock[f] \in {"up", "eof"}
  /\ timer' = FALSE
  /\ event' = NoEvent
  /\ state' = "connected"
  /\ hfd' = f
  /\ UNCHANGED <<fd, sock, network>>

(* SO_ERROR is 0.                                                          *)
Established(f) ==
  /\ Writable(f) /\ sock[f] \in {"up", "eof"}
  /\ timer' = FALSE
  /\ event' = [fd |-> f, on |-> "read"]
  /\ state' = "connected"
  /\ hfd' = f
  /\ UNCHANGED <<fd, sock, network>>

(* SO_ERROR is EINPROGRESS: the event is registered again, the timer is    *)
(* not.                                                                    *)
StillConnecting(f) ==
  /\ Writable(f) /\ sock[f] = "connecting"
  /\ timer' = FALSE
  /\ UNCHANGED <<state, fd, event, hfd, sock, network>>

(* MUTANT: the failure is only noted, no attempt is scheduled.             *)
MutConnectFailed(f) ==
  /\ Writable(f) /\ sock[f] \in {"refused", "reset"}
  /\ sock' = AfterClose(fd)
  /\ fd' = NoFd
  /\ event' = NoEvent
  /\ state' = "disconnected"
  /\ timer' = FALSE
  /\ UNCHANGED <<hfd, network>>

ConnectFailed(f) ==
  /\ Writable(f) /\ sock[f] \in {"refused", "reset"}
  /\ sock' = AfterClose(fd)
  /\ fd' = NoFd
  /\ event' = NoEvent
  /\ state' = "disconnected"
  /\ timer' = TRUE
  /\ UNCHANGED <<hfd, network>>

(* The timer fires in STATE_WAITING_FOR_CONNECT.                           *)
ConnectTimeout ==
  /\ SlowNetwork
  /\ state = "waiting" /\ timer
  /\ timer' = FALSE
  /\ sock' = AfterClose(fd)
  /\ fd' = NoFd
  /\ event' = NoEvent
  /\ UNCHANGED <<state, hfd, network>>

(* A timer left over from before an attempt that succeeded at once.        *)
TimerIgnored ==
  /\ state = "connected" /\ timer
  /\ timer' = FALSE
  /\ UNCHANGED <<state, fd, event, hfd, sock, network>>

-----------------------------------------------------------------------------
(* Connected: onConnected                                                  *)

Readable(f) == state = "connected" /\ event = [fd |-> f, on |-> "read"]

(* recv returned 0: neither the descriptor nor the event is given up.      *)
PeerClosed(f) ==
  /\ Readable(f) /\ sock[f] = "eof"
  /\ state' = "disconnected"
  /\ timer' = TRUE
  /\ UNCHANGED <<fd, event, hfd, sock, network>>

(* MUTANT: the error path marks the connection but schedules nothing.      *)
MutRecvFailed(f) ==
  /\ Readable(f) /\ sock[f] = "reset"
  /\ sock' = AfterClose(f)
  /\ state' = "disconnected"
  /\ UNCHANGED <<fd, event, hfd, timer, network>>

(* recv failed: the descriptor is closed, but fd_ and the event keep it.   *)
RecvFailed(f) ==
  /\ Readable(f) /\ sock[f] = "reset"
  /\ sock' = AfterClose(f)
  /\ state' = "disconnected"
  /\ timer' = TRUE
  /\ UNCHANGED <<fd, event, hfd, network>>

-----------------------------------------------------------------------------
(* The kernel and the server                                               *)

Turns(f, from, to) ==
  /\ sock[f] = from
  /\ sock' = [sock EXCEPT ![f] = to]
  /\ UNCHANGED <<state, fd, event, timer, hfd, network>>

Accepted(f)    == Turns(f, "connecting", "up")
Refused(f)     == Turns(f, "connecting", "refused")
ServerCloses(f) == Turns(f, "up", "eof")
Resets(f)      == Turns(f, "up", "reset")

Dials == \/ StartOK \/ StartPending \/ StartFail
         \/ RetryOK \/ RetryPending \/ RetryFail
         \/ EofOK \/ EofDial \/ EofFail

ZNext ==
  \/ Dials
  \/ ConnectTimeout
  \/ TimerIgnored
  \/ \E f \in FD :
       \/ Established(f) \/ StillConnecting(f) \/ ConnectFailed(f)
       \/ PeerClosed(f) \/ RecvFailed(f)
       \/ Accepted(f) \/ Refused(f) \/ ServerCloses(f) \/ Resets(f)

ZSpec == ZInit /\ [][ZNext]_zvars

-----------------------------------------------------------------------------
(* Properties                                                              *)

(* However attempts, refusals, resets and closes follow one another, the   *)
(* only descriptor the client holds is fd_.                                *)
NoDescriptorLeak == \A f \in FD : sock[f] # "free" => f = fd

(* A connected client listens on the very socket that is connected: it     *)
(* cannot miss its peer's close.                                           *)
ConnectedIsWatched ==
  state = "connected" =>
    /\ event = [fd |-> fd, on |-> "read"]
    /\ sock[fd] \in {"up", "eof", "reset"}

(* The handler writes to the connected socket, unless connect() completed  *)
(* at once and handed it the stale descriptor.                             *)
HandlerHasSocket == state = "connected" /\ ~Immediate => hfd = fd

(* A disconnected client has its next attempt scheduled.                   *)
RetryScheduled == state = "disconnected" => timer

(* Where attempts are answered within RETRY_INTERVAL the client never      *)
(* falls silent: it is connected, or dials, again and again                *)
(* (scheduleReconnect on every failure).                                   *)
NeverSilent ==
  \/ SlowNetwork
  \/ <>(state = "exited")
  \/ []<>(state = "connected")
  \/ []<><<Dials>>_zvars

(* What onTimeoutPrivate logs when an attempt times out: "connecting       *)
(* timeout, abort, waiting for reconnect".                                 *)
AbortIsRetried == state = "waiting" /\ fd = NoFd ~> fd # NoFd
=============================================================================
