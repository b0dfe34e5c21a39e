------------------------------- MODULE ZBStream -------------------------------
(***************************************************************************)
(* How ZBStream cuts what ZSerial reads from the port into frames: a state *)
(* machine fed with pieces of any length, a buffer of fixed size, a length *)
(* of limited width.  ZSerial::onRead feeds a piece and then reads until   *)
(* nothing is left; an action is one turn of the loop in feed() or one     *)
(* call of read(), and nothing comes between those of one onRead.  A byte  *)
(* is a number below Base (256 in the code), so that a length of two bytes *)
(* is one below Base * Base.                                               *)
(***************************************************************************)
EXTENDS Integers, Sequences

CONSTANTS
  Base,         \* values of a byte
  Syn, SynLen,  \* ZB_SYN_BYTES: SynLen times the byte Syn (8 in the code)
  MinHeadLen,   \* MIN_HEAD_LEN: version and length
  HeadLen,      \* HEAD_LEN
  BufSize,      \* size of buf_ (4096 in the code)
  ReadSize,     \* size of ZSerial's buf_ (1024 in the code)
  MaxPiece      \* bound: bytes of one read of the port

ASSUME ZBStreamAssumption ==
  /\ Base \in Nat \ {0, 1} /\ Syn \in 0 .. Base - 1 /\ SynLen \in Nat \ {0}
  /\ MinHeadLen = 3 /\ HeadLen \in Nat /\ HeadLen > MinHeadLen
  /\ BufSize \in Nat /\ BufSize > MinHeadLen
  /\ ReadSize \in Nat \ {0} /\ MaxPiece \in Nat \ {0}

VARIABLES
  state,    \* state_
  idx,      \* idx_ of syn_matcher_
  expect,   \* expect_data_len_
  buf,      \* buf_, up to its position
  piece,    \* what is left of the piece in feed()
  ready,    \* received_data_list_
  handed,   \* what the last step passed to the handler
  wrapped,  \* auxiliary: a length wrapped when the head was added
  crashed   \* the process ended in a copy of a negative length

vars == <<state, idx, expect, buf, piece, ready, handed, wrapped, crashed>>

Byte == 0 .. Base - 1
Pieces == UNION {[1 .. n -> Byte] : n \in 1 .. MaxPiece}

TypeOK ==
  /\ state \in {"init", "head", "data"} /\ idx \in 0 .. SynLen
  /\ expect \in -MinHeadLen .. Base * Base
  /\ buf \in Seq(Byte) /\ Len(buf) <= BufSize
  /\ piece \in Seq(Byte) /\ Len(piece) <= MaxPiece
  /\ ready \in Seq(Seq(Byte)) /\ handed \in Seq(Byte) /\ Len(handed) <= ReadSize
  /\ wrapped \in BOOLEAN /\ crashed \in BOOLEAN

Init ==
  /\ state = "init" /\ idx = 0 /\ expect = 0 /\ buf = <<>>
  /\ piece = <<>> /\ ready = <<>> /\ handed = <<>>
  /\ wrapped = FALSE /\ crashed = FALSE

-----------------------------------------------------------------------------
First(p, n) == SubSeq(p, 1, n)
Rest(p, n) == SubSeq(p, n + 1, Len(p))

(* MUTANT: the room that is left is not looked at.                         *)
MutPut(b, p) == b \o p

(* ZDataBuffer::put copies what there is room for.                         *)
Put(b, p) == IF Len(b) + Len(p) <= BufSize THEN b \o p ELSE b \o First(p, BufSize - Len(b))

(* onRead begins: the last one has handed over all it had.                 *)
Receive(p) ==
  /\ ~crashed /\ piece = <<>> /\ ready = <<>>
  /\ piece' = p /\ handed' = <<>>
  /\ UNCHANGED <<state, idx, expect, buf, ready, wrapped, crashed>>

(* A turn of the loop in feed() that uses n bytes.                         *)
Feed(s, n) ==
  /\ ~crashed /\ piece # <<>> /\ state = s
  /\ piece' = Rest(piece, n) /\ handed' = <<>>

(* doInit: the run of synchronize bytes; one that does not match starts    *)
(* the search again behind it.                                             *)
SynFound(n) ==
  /\ Feed("init", n)
  /\ idx + n = SynLen /\ \A i \in 1 .. n : piece[i] = Syn
  /\ idx' = SynLen /\ expect' = MinHeadLen /\ state' = "head"
  /\ UNCHANGED <<buf, ready, wrapped, crashed>>

SynPart ==
  /\ Feed("init", Len(piece))
  /\ idx + Len(piece) < SynLen /\ \A i \in 1 .. Len(piece) : piece[i] = Syn
  /\ idx' = idx + Len(piece)
  /\ UNCHANGED <<state, expect, buf, ready, wrapped, crashed>>

SynLost(n) ==
  /\ Feed("init", n)
  /\ idx + n <= SynLen /\ (\A i \in 1 .. n - 1 : piece[i] = Syn) /\ piece[n] # Syn
  /\ idx' = 0
  /\ UNCHANGED <<state, expect, buf, ready, wrapped, crashed>>

(* MUTANT: the bytes that have come are still expected.                    *)
MutPartly(s) ==
  /\ Feed(s, Len(piece)) /\ Len(piece) < expect
  /\ buf' = Put(buf, piece)
  /\ UNCHANGED <<state, idx, expect, ready, wrapped, crashed>>

(* Both waiting states keep what has come of what they expect.             *)
Partly(s) ==
  /\ Feed(s, Len(piece)) /\ Len(piece) < expect
  /\ buf' = Put(buf, piece) /\ expect' = expect - Len(piece)
  /\ UNCHANGED <<state, idx, ready, wrapped, crashed>>

(* MUTANT: the length is taken for that of head and body.                  *)
MutHeadComplete ==
  /\ Len(piece) >= expect /\ Feed("head", expect)
  /\ buf' = Put(buf, First(piece, expect))
  /\ expect' = buf'[2] * Base + buf'[3] - MinHeadLen /\ state' = "data"
  /\ UNCHANGED <<idx, ready, wrapped, crashed>>

(* doWaitingForHead, when all has come: msg_len has 16 bits.               *)
HeadComplete ==
  LET length == buf'[2] * Base + buf'[3]
      msg_len == (length + HeadLen) % (Base * Base)
  IN /\ Len(piece) >= expect /\ Feed("head", expect)
     /\ buf' = Put(buf, First(piece, expect))
     /\ expect' = msg_len - MinHeadLen /\ state' = "data"
     /\ wrapped' = (wrapped \/ msg_len # length + HeadLen)
     /\ UNCHANGED <<idx, ready, crashed>>

(* doWaitingForData, when all has come.                                    *)
FrameComplete ==
  /\ expect \in 0 .. Len(piece) /\ Feed("data", expect)
  /\ ready' = Append(ready, Put(buf, First(piece, expect)))
  /\ buf' = <<>> /\ idx' = 0 /\ state' = "init"
  /\ UNCHANGED <<expect, wrapped, crashed>>

(* A negative length goes through to memcpy.                               *)
NegativeCopy ==
  /\ Feed("data", Len(piece)) /\ expect < 0
  /\ crashed' = TRUE
  /\ UNCHANGED <<state, idx, expect, buf, ready, wrapped>>

(* MUTANT: what does not fit the caller's buffer is dropped.               *)
MutRead ==
  LET data == Head(ready) IN
  /\ ~crashed /\ piece = <<>> /\ ready # <<>>
  /\ handed' = (IF Len(data) > ReadSize THEN First(data, ReadSize) ELSE data) /\ ready' = Tail(ready)
  /\ UNCHANGED <<state, idx, expect, buf, piece, wrapped, crashed>>

(* read(), called until it returns nothing, and the handler's onRead: a    *)
(* frame that does not fit the caller's buffer comes in parts.             *)
Read ==
  LET data == Head(ready) IN
  /\ ~crashed /\ piece = <<>> /\ ready # <<>>
  /\ \/ /\ Len(data) > ReadSize
        /\ handed' = First(data, ReadSize)
        /\ ready' = <<Rest(data, ReadSize)>> \o Tail(ready)
     \/ /\ Len(data) <= ReadSize
        /\ handed' = data /\ ready' = Tail(ready)
  /\ UNCHANGED <<state, idx, expect, buf, piece, wrapped, crashed>>

Next ==
  \/ \E p \in Pieces : Receive(p)
  \/ \E n \in 0 .. Len(piece) : SynFound(n)
  \/ SynPart
  \/ \E n \in 1 .. Len(piece) : SynLost(n)
  \/ Partly("head") \/ HeadComplete
  \/ Partly("data") \/ FrameComplete \/ NegativeCopy
  \/ Read

(* The ZigBee module does not stop sending.                                *)
Spec == Init /\ [][Next]_vars /\ WF_vars(Next)

-----------------------------------------------------------------------------
(* Properties                                                              *)

(* The process dies of what it reads only after a length of more than      *)
(* 65535 with the head.                                                    *)
CrashNeedsWrap == crashed => wrapped

Frames == INSTANCE ZBFrames WITH
  syn     <- IF wrapped THEN 0 ELSE idx,
  frame   <- IF wrapped THEN <<>> ELSE buf,
  missing <- IF state = "data" /\ ~wrapped THEN expect ELSE 0,
  piece   <- IF wrapped THEN <<>> ELSE piece,
  due     <- IF wrapped THEN <<>> ELSE ready,
  handed  <- IF wrapped THEN <<>> ELSE handed,
  broken  <- wrapped

(* However the reads divide the bytes, the handler is given the frames     *)
(* they make, in order, each once, cut only to the two buffers' sizes.     *)
ImplementsFrames == Frames!Spec

(* A length that promises too much swallows a limited number of bytes: as  *)
(* long as bytes come, the machine ends a frame or looks for one again and *)
(* again ("TODO: add timeout cleaning, for auto-recovering").              *)
LooksAgain == []<>(handed # <<>> \/ state = "init" \/ crashed)
=============================================================================
