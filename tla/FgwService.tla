------------------------------ MODULE FgwService ------------------------------
(***************************************************************************)
(* What the gateway promises the push server about the requests it is      *)
(* sent, seen from outside: each is answered at most once, and what was    *)
(* lost is not answered later.  Several can be lost together.              *)
(***************************************************************************)
EXTENDS Naturals

CONSTANT Request

VARIABLES
  phase,   \* of each request: how far it has come
  replies  \* of each request: how many answers reached the server

vars == <<phase, replies>>

Init ==
  /\ phase = [r \in Request |-> "unsent"]
  /\ replies = [r \in Request |-> 0]

Turn(R, from, to) ==
  /\ \A r \in R : phase[r] = from
  /\ phase' = [r \in Request |-> IF r \in R THEN to ELSE phase[r]]

Send(r) == Turn({r}, "unsent", "pending") /\ UNCHANGED replies
Reply(r) == Turn({r}, "pending", "answered") /\ replies' = [replies EXCEPT ![r] = 1]
Lose(R) == Turn(R, "pending", "lost") /\ UNCHANGED replies

Next == \/ \E r \in Request : Send(r) \/ Reply(r)
        \/ \E R \in SUBSET Request : Lose(R)

Spec == Init /\ [][Next]_vars
=============================================================================
