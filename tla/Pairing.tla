-------------------------------- MODULE Pairing --------------------------------
(***************************************************************************)
(* What the super router promises the connections that come to it: one     *)
(* that is given a part in a session keeps it and shares it with nobody,   *)
(* what it sends goes to the other party of its session if to anybody, and *)
(* the two are told so at the same moment, when both directions are        *)
(* joined; from then on only a party that leaves ends its own direction.   *)
(***************************************************************************)
CONSTANTS Conn, Session, Role, NoConn, Nowhere

Part == [s: Session, role: Role]

VARIABLES
  part,   \* the part of each connection, Nowhere for one that has none
  left,   \* connections that are gone
  wire,   \* where what a connection sends goes, or NoConn
  told    \* the parties that were told they are joined

vars == <<part, left, wire, told>>

Init ==
  /\ part = [c \in Conn |-> Nowhere]
  /\ left = {}
  /\ wire = [c \in Conn |-> NoConn]
  /\ told = {}

Partners(c, d) ==
  /\ c # d /\ part[c] # Nowhere /\ part[d] # Nowhere
  /\ part[c].s = part[d].s

(* Neither the connection nor its partner was told.                        *)
Untold(c) == c \notin told /\ \A d \in told : ~Partners(c, d)

Obtain(c, p) ==
  /\ c \notin left /\ part[c] = Nowhere /\ \A d \in Conn : part[d] # p
  /\ part' = [part EXCEPT ![c] = p]
  /\ UNCHANGED <<left, wire, told>>

Leave(c) ==
  /\ left' = left \cup {c}
  /\ UNCHANGED <<part, wire, told>>

Join(c, d) ==
  /\ Partners(c, d) /\ Untold(c)
  /\ wire' = [wire EXCEPT ![c] = d]
  /\ UNCHANGED <<part, left, told>>

(* An attempt to join comes to nothing, or the party is gone.              *)
Cut(c) ==
  /\ Untold(c) \/ c \in left
  /\ wire' = [wire EXCEPT ![c] = NoConn]
  /\ UNCHANGED <<part, left, told>>

(* Both are told, unless one is gone by then.                              *)
Tell(c, d) ==
  /\ Partners(c, d) /\ Untold(c) /\ c \notin left
  /\ wire[c] = d /\ (d \in left \/ wire[d] = c)
  /\ told' = told \cup ({c, d} \ left)
  /\ UNCHANGED <<part, left, wire>>

Next ==
  \/ \E c \in Conn, p \in Part : Obtain(c, p)
  \/ \E c \in Conn : Leave(c) \/ Cut(c)
  \/ \E c, d \in Conn : Join(c, d) \/ Tell(c, d)

Spec == Init /\ [][Next]_vars
=============================================================================
