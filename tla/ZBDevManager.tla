----------------------------- MODULE ZBDevManager -----------------------------
(***************************************************************************)
(* The gateway's table of ZigBee devices.  Two maps hold the same objects, *)
(* one by MAC and one by short address; a device keeps its MAC, its        *)
(* address changes when it rejoins the network.  An object is its MAC, and *)
(* of its fields only the address is kept.  reset() is not called.         *)
(***************************************************************************)
CONSTANTS Mac, Addr, NoMac, NoAddr

ASSUME ZBDevManagerAssumption == NoMac \notin Mac /\ NoAddr \notin Addr

VARIABLES
  addrOf,  \* mac_dev_map_: addr_ of the object found under a MAC
  devAt    \* addr_dev_map_: MAC of the object found under an address

tableVars == <<addrOf, devAt>>

TableTypeOK ==
  /\ addrOf \in [Mac -> Addr \cup {NoAddr}]
  /\ devAt \in [Addr -> Mac \cup {NoMac}]

TableInit ==
  /\ addrOf = [m \in Mac |-> NoAddr]
  /\ devAt = [a \in Addr |-> NoMac]

Known == {m \in Mac : addrOf[m] # NoAddr}

-----------------------------------------------------------------------------
(* add(m, a): the four combinations of what find() returns                 *)

(* MUTANT: the device stays reachable under the address it left.           *)
MutMoved(m, a) ==
  /\ m \in Known /\ devAt[a] = NoMac
  /\ devAt[addrOf[m]] = m
  /\ addrOf' = [addrOf EXCEPT ![m] = a]
  /\ devAt' = [devAt EXCEPT ![a] = m]

(* The device has a new address.  The assertions demand that the old one   *)
(* led to it.                                                              *)
Moved(m, a) ==
  /\ m \in Known /\ devAt[a] = NoMac
  /\ devAt[addrOf[m]] = m
  /\ addrOf' = [addrOf EXCEPT ![m] = a]
  /\ devAt' = [devAt EXCEPT ![addrOf[m]] = NoMac, ![a] = m]

Entered(m, a) ==
  /\ m \notin Known /\ devAt[a] = NoMac
  /\ addrOf' = [addrOf EXCEPT ![m] = a]
  /\ devAt' = [devAt EXCEPT ![a] = m]

(* "address has been token, huh?": the answer is a refusal.                *)
Refused(m, a) == m \notin Known /\ devAt[a] # NoMac /\ UNCHANGED tableVars

Updated(m, a) == m \in Known /\ devAt[a] = m /\ UNCHANGED tableVars

Add(m, a) == Moved(m, a) \/ Entered(m, a) \/ Refused(m, a) \/ Updated(m, a)

(* An assertion of add() fails: a known device has taken the address of    *)
(* another, or its own old address does not lead to it.                    *)
AddAborts(m, a) ==
  /\ m \in Known
  /\ IF devAt[a] = NoMac THEN devAt[addrOf[m]] # m ELSE devAt[a] # m

-----------------------------------------------------------------------------
(* The two lookups never disagree, however devices come, move, and ask for *)
(* addresses of others: each finds what the other finds.  (What the        *)
(* assertions of ZZBDevManager::add are about.)                            *)
LookupsAgree ==
  /\ \A m \in Mac : addrOf[m] # NoAddr => devAt[addrOf[m]] = m
  /\ \A a \in Addr : devAt[a] # NoMac => addrOf[devAt[a]] = a
=============================================================================
