------------------------------- MODULE ZBFrames -------------------------------
(***************************************************************************)
(* The frames of the ZigBee serial protocol, read one byte at a time: what *)
(* the gateway's handler should be given of a stream of bytes, wherever    *)
(* the reads of the port divide it.  A frame is SynLen times Syn, a        *)
(* version, a length in two bytes, the rest of the head, and as much body  *)
(* as the length says; what comes between frames is skipped.  There is a   *)
(* buffer for BufSize bytes of a frame, the rest is dropped, and the       *)
(* handler is given ReadSize bytes at a time, before more is read.         *)
(***************************************************************************)
EXTENDS Integers, Sequences

CONSTANTS Syn, SynLen, Byte, Base, MinHeadLen, HeadLen, BufSize, ReadSize, MaxPiece

VARIABLES
  syn,      \* synchronize bytes seen
  frame,    \* what is kept of the current frame
  missing,  \* bytes the frame still lacks once its length is known
  piece,    \* what was read of the port and not looked at
  due,      \* what was found and not handed over, frame by frame
  handed,   \* what the last step gave the handler
  broken    \* a length came that two bytes cannot hold with the head added

vars == <<syn, frame, missing, piece, due, handed, broken>>

Pieces == UNION {[1 .. n -> Byte] : n \in 1 .. MaxPiece}

Start == [syn |-> 0, frame |-> <<>>, missing |-> 0, due |-> <<>>, broken |-> FALSE]

Kept(f, b) == IF Len(f) < BufSize THEN Append(f, b) ELSE f

(* One byte more.                                                          *)
Take(s, b) ==
  LET f == Kept(s.frame, b)
      length == f[2] * Base + f[3]
      more == [s EXCEPT !.frame = f]
  IN IF s.broken THEN s
     ELSE IF s.syn < SynLen THEN [s EXCEPT !.syn = IF b = Syn THEN s.syn + 1 ELSE 0]
     ELSE IF Len(f) < MinHeadLen THEN more
     ELSE IF Len(s.frame) < MinHeadLen
     THEN IF length + HeadLen >= Base * Base THEN [Start EXCEPT !.broken = TRUE]
          ELSE [more EXCEPT !.missing = length + HeadLen - MinHeadLen]
     ELSE IF s.missing > 1 THEN [more EXCEPT !.missing = s.missing - 1]
     ELSE [Start EXCEPT !.due = Append(s.due, f)]

(* The bytes of p one after the other: the states that s goes through.     *)
Taking(s, p) ==
  LET after[i \in 0 .. Len(p)] == IF i = 0 THEN s ELSE Take(after[i - 1], p[i])
  IN after

Run(s, p) == Taking(s, p)[Len(p)]

Init ==
  /\ syn = 0 /\ frame = <<>> /\ missing = 0
  /\ piece = <<>> /\ due = <<>> /\ handed = <<>> /\ broken = FALSE

Arrive(p) ==
  /\ ~broken /\ piece = <<>> /\ due = <<>>
  /\ piece' = p /\ handed' = <<>>
  /\ UNCHANGED <<syn, frame, missing, due, broken>>

(* Some bytes are looked at.                                               *)
Look(n) ==
  LET s == Run([syn |-> syn, frame |-> frame, missing |-> missing, due |-> due, broken |-> broken],
               SubSeq(piece, 1, n))
  IN /\ ~broken
     /\ syn' = s.syn /\ frame' = s.frame /\ missing' = s.missing
     /\ due' = s.due /\ broken' = s.broken
     /\ piece' = IF s.broken THEN <<>> ELSE SubSeq(piece, n + 1, Len(piece))
     /\ handed' = <<>>

(* The handler is given as much of what is due as it takes at a time.      *)
Hand ==
  LET f == Head(due)
      n == IF Len(f) < ReadSize THEN Len(f) ELSE ReadSize
  IN /\ piece = <<>> /\ due # <<>>
     /\ handed' = SubSeq(f, 1, n)
     /\ due' = IF n = Len(f) THEN Tail(due) ELSE <<SubSeq(f, n + 1, Len(f))>> \o Tail(due)
     /\ UNCHANGED <<syn, frame, missing, piece, broken>>

Next ==
  \/ \E p \in Pieces : Arrive(p)
  \/ \E n \in 1 .. Len(piece) : Look(n)
  \/ Hand

Spec == Init /\ [][Next]_vars
=============================================================================
