---------------------------- MODULE MCSuperRouter ----------------------------
(* Instances of SuperRouter for TLC.                                         *)
EXTENDS SuperRouter, TLC

Symmetry == Permutations(Conn) \cup Permutations(Loop)
=============================================================================
