------------------------------ MODULE PushBroker ------------------------------
(***************************************************************************)
(* What the push server promises an API client, seen from outside: a       *)
(* request is answered at most once or is lost, and what was lost or       *)
(* answered stays so.                                                      *)
(***************************************************************************)
EXTENDS Naturals

CONSTANT Request

VARIABLES
  phase,    \* of each request: what the server knows about it
  answers   \* of each request: how many replies were written for it

vars == <<phase, answers>>

Phase == {"unsent", "pending", "answered", "lost"}

TypeOK == phase \in [Request -> Phase] /\ answers \in [Request -> 0 .. 1]

Init ==
  /\ phase = [r \in Request |-> "unsent"]
  /\ answers = [r \in Request |-> 0]

Accept(r) ==
  /\ phase[r] = "unsent"
  /\ phase' = [phase EXCEPT ![r] = "pending"]
  /\ UNCHANGED answers

(* At once, or after the gateway answered.                                 *)
Answer(r) ==
  /\ phase[r] \in {"unsent", "pending"}
  /\ phase' = [phase EXCEPT ![r] = "answered"]
  /\ answers' = [answers EXCEPT ![r] = @ + 1]

(* At once, if it was not a proper request, or later.                      *)
Lose(r) ==
  /\ phase[r] \in {"unsent", "pending"}
  /\ phase' = [phase EXCEPT ![r] = "lost"]
  /\ UNCHANGED answers

Next == \E r \in Request : Accept(r) \/ Answer(r) \/ Lose(r)

Spec == Init /\ [][Next]_vars
=============================================================================
