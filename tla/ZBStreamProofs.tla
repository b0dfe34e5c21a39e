--------------------------- MODULE ZBStreamProofs ---------------------------
(***************************************************************************)
(* Theorems about ZBStream, and that it implements ZBFrames.               *)
(***************************************************************************)
EXTENDS ZBStream, FiniteSetTheorems, SequenceTheorems, TLAPS

-----------------------------------------------------------------------------
(* Induction over a range of numbers, in the form of sets.                 *)

LEMMA LeastNumber ==
  ASSUME NEW T \in SUBSET Nat, T # {}
  PROVE  \E m \in T : \A k \in T : m <= k
<1> DEFINE A == {0 .. t : t \in T}
<1>1. A \subseteq FiniteSubsetsOf(Nat) /\ A # {}
  <2>1. ASSUME NEW t \in T PROVE IsFiniteSet(0 .. t) /\ 0 .. t \in SUBSET Nat
    BY FS_Interval
  <2> QED
    BY <2>1 DEF FiniteSubsetsOf
<1>2. PICK X \in A : \A Y \in A : ~ (<<Y, X>> \in StrictSubsetOrdering(Nat))
  <2> HIDE DEF A
  <2> QED
    BY <1>1, FS_StrictSubsetOrderingWellFounded, WFMin
<1>3. PICK m \in T : X = 0 .. m
  OBVIOUS
<1>4. ASSUME NEW k \in T, k < m
      PROVE  FALSE
  <2>1. 0 .. k \in SUBSET Nat /\ 0 .. m \in SUBSET Nat /\ 0 .. k \subseteq 0 .. m
    BY <1>4
  <2>2. m \in 0 .. m /\ m \notin 0 .. k
    BY <1>4
  <2>3. 0 .. k \in A
    OBVIOUS
  <2>4. ~ (<<0 .. k, 0 .. m>> \in StrictSubsetOrdering(Nat))
    BY <1>2, <1>3, <2>3
  <2> HIDE DEF A
  <2> QED
    BY <2>1, <2>2, <2>4 DEF StrictSubsetOrdering
<1> QED
  BY <1>4

LEMMA RangeInduction ==
  ASSUME NEW n \in Nat, NEW T, 0 \in T, \A i \in 0 .. n - 1 : i \in T => i + 1 \in T
  PROVE  0 .. n \subseteq T
<1> DEFINE B == (0 .. n) \ T
<1>1. SUFFICES ASSUME B # {} PROVE FALSE
  OBVIOUS
<1>2. PICK m \in B : \A k \in B : m <= k
  <2>1. B \in SUBSET Nat
    OBVIOUS
  <2> HIDE DEF B
  <2> QED
    BY <1>1, <2>1, LeastNumber
<1>3. m \in 1 .. n
  BY <1>2
<1>4. m - 1 \in T
  <2>1. m - 1 \notin B
    BY <1>2, <1>3
  <2> QED
    BY <1>3, <2>1
<1> QED
  BY <1>2, <1>3, <1>4

-----------------------------------------------------------------------------
(* Arithmetic of lengths, and pieces cut in two.                           *)

LEMMA Wrapping ==
  ASSUME NEW x \in Nat, NEW w \in Nat \ {0}
  PROVE  /\ x % w \in 0 .. w - 1
         /\ x % w = x <=> x < w
<1>1. x % w \in 0 .. w - 1
  OBVIOUS
<1>2. x < w => x % w = x
  OBVIOUS
<1> QED
  BY <1>1, <1>2

LEMMA LengthIsNat ==
  ASSUME NEW a \in Byte, NEW b \in Byte
  PROVE  a * Base + b \in Nat /\ Base * Base \in Nat \ {0}
  BY ZBStreamAssumption DEF Byte

LEMMA Cut ==
  ASSUME NEW p \in Seq(Byte), NEW n \in 0 .. Len(p)
  PROVE  /\ First(p, n) \in Seq(Byte) /\ Len(First(p, n)) = n
         /\ \A i \in 1 .. n : First(p, n)[i] = p[i]
         /\ Rest(p, n) \in Seq(Byte) /\ Len(Rest(p, n)) = Len(p) - n
         /\ First(p, Len(p)) = p /\ First(p, 0) = <<>> /\ Rest(p, Len(p)) = <<>>
<1>1. \A i \in 1 .. Len(p) : p[i] \in Byte
  BY ElementOfSeq
<1>2. /\ First(p, n) \in Seq(Byte) /\ Len(First(p, n)) = n
      /\ \A i \in 1 .. n : First(p, n)[i] = p[i]
  BY <1>1, SubSeqProperties DEF First
<1>3. Rest(p, n) \in Seq(Byte) /\ Len(Rest(p, n)) = Len(p) - n
  BY <1>1, SubSeqProperties DEF Rest
<1>4. First(p, Len(p)) = p /\ First(p, 0) = <<>> /\ Rest(p, Len(p)) = <<>>
  BY SubSeqFull, SubSeqEmpty DEF First, Rest
<1> QED
  BY <1>2, <1>3, <1>4

LEMMA PutFits ==
  ASSUME NEW b \in Seq(Byte), Len(b) <= BufSize, NEW p \in Seq(Byte)
  PROVE  /\ Put(b, p) \in Seq(Byte)
         /\ Len(Put(b, p)) = IF Len(b) + Len(p) <= BufSize THEN Len(b) + Len(p) ELSE BufSize
<1>1. CASE Len(b) + Len(p) <= BufSize
  BY <1>1, ConcatProperties DEF Put
<1>2. CASE Len(b) + Len(p) > BufSize
  <2>1. BufSize - Len(b) \in 0 .. Len(p)
    BY <1>2, ZBStreamAssumption
  <2>2. First(p, BufSize - Len(b)) \in Seq(Byte) /\ Len(First(p, BufSize - Len(b))) = BufSize - Len(b)
    BY <2>1, Cut
  <2> QED
    BY <1>2, <2>2, ConcatProperties, ZBStreamAssumption DEF Put
<1> QED
  BY <1>1, <1>2, ZBStreamAssumption

-----------------------------------------------------------------------------
(* The types, and what each state of the machine means.                    *)

StateMeaning ==
  /\ state = "init" => idx < SynLen /\ buf = <<>>
  /\ state = "head" => idx = SynLen /\ expect >= 1 /\ Len(buf) + expect = MinHeadLen
  /\ state = "data" => idx = SynLen /\ Len(buf) >= MinHeadLen /\ (wrapped \/ expect >= 1)

StreamInv == TypeOK /\ StateMeaning /\ CrashNeedsWrap

LEMMA StreamInit == Init => StreamInv
<1> SUFFICES ASSUME Init PROVE StreamInv
  OBVIOUS
<1>1. <<>> \in Seq(Byte) /\ <<>> \in Seq(Seq(Byte)) /\ Len(<<>>) = 0
  BY EmptySeq
<1>2. 0 \in -MinHeadLen .. Base * Base
  <2>1. Base * Base \in Nat
    BY ZBStreamAssumption
  <2> QED
    BY <2>1, ZBStreamAssumption
<1>3. TypeOK
  <2> HIDE DEF Byte
  <2>1. 0 \in 0 .. SynLen /\ 0 <= BufSize /\ 0 <= MaxPiece /\ 0 <= ReadSize
    BY ZBStreamAssumption
  <2> QED
    BY <1>1, <1>2, <2>1 DEF Init, TypeOK
<1> QED
  BY <1>3, ZBStreamAssumption DEF Init, StreamInv, StateMeaning, CrashNeedsWrap

LEMMA ReceiveKeeps ==
  ASSUME StreamInv, NEW p \in Pieces, Receive(p)
  PROVE  StreamInv'
<1>1. p \in Seq(Byte) /\ Len(p) <= MaxPiece
  <2>1. PICK n \in 1 .. MaxPiece : p \in [1 .. n -> Byte]
    BY DEF Pieces
  <2> QED
    BY <2>1, ZBStreamAssumption
<1>2. <<>> \in Seq(Byte) /\ Len(<<>>) = 0 /\ 0 <= ReadSize
  BY EmptySeq, ZBStreamAssumption
<1>3. TypeOK'
  BY <1>1, <1>2 DEF StreamInv, TypeOK, Receive
<1> QED
  BY <1>3 DEF StreamInv, TypeOK, Receive, StateMeaning, CrashNeedsWrap

(* What a turn of feed() does to the piece.                                *)
LEMMA FeedKeeps ==
  ASSUME TypeOK, NEW s, NEW n \in 0 .. Len(piece), Feed(s, n)
  PROVE  /\ piece' \in Seq(Byte) /\ Len(piece)' <= MaxPiece
         /\ handed' \in Seq(Byte) /\ Len(handed)' <= ReadSize
         /\ ~crashed /\ state = s /\ Len(piece) \in Nat \ {0}
<1>1. piece \in Seq(Byte) /\ Len(piece) <= MaxPiece
  BY DEF TypeOK
<1>2. Len(piece) \in Nat \ {0}
  BY <1>1, EmptySeq DEF Feed
<1>3. Rest(piece, n) \in Seq(Byte) /\ Len(Rest(piece, n)) = Len(piece) - n
  BY <1>1, Cut
<1>4. Len(Rest(piece, n)) <= MaxPiece
  BY <1>1, <1>2, <1>3, ZBStreamAssumption
<1>5. <<>> \in Seq(Byte) /\ Len(<<>>) <= ReadSize
  BY EmptySeq, ZBStreamAssumption
<1> QED
  BY <1>2, <1>3, <1>4, <1>5 DEF Feed

LEMMA HeadFits == MinHeadLen \in -MinHeadLen .. Base * Base
<1>1. Base >= 2 /\ Base \in Nat
  BY ZBStreamAssumption
<1>2. Base * Base >= 2 * Base /\ Base * Base \in Nat
  BY <1>1
<1> QED
  BY <1>1, <1>2, ZBStreamAssumption

LEMMA InitKeeps ==
  ASSUME StreamInv,
         \/ \E n \in 0 .. Len(piece) : SynFound(n)
         \/ SynPart
         \/ \E n \in 1 .. Len(piece) : SynLost(n)
  PROVE  StreamInv'
<1> USE DEF StreamInv
<1>1. piece \in Seq(Byte) /\ Len(piece) \in Nat
  BY LenProperties DEF TypeOK
<1>2. CASE \E n \in 0 .. Len(piece) : SynFound(n)
  <2>1. PICK n \in 0 .. Len(piece) : SynFound(n)
    BY <1>2
  <2>2. Feed("init", n)
    BY <2>1 DEF SynFound
  <2>3. TypeOK'
    BY <2>1, <2>2, FeedKeeps, HeadFits, ZBStreamAssumption DEF SynFound, TypeOK
  <2> QED
    BY <2>1, <2>2, <2>3, FeedKeeps, EmptySeq, ZBStreamAssumption
       DEF SynFound, TypeOK, StateMeaning, CrashNeedsWrap
<1>3. CASE SynPart
  <2>1. Feed("init", Len(piece)) /\ Len(piece) \in 0 .. Len(piece)
    BY <1>1, <1>3 DEF SynPart
  <2>2. TypeOK'
    BY <1>3, <2>1, FeedKeeps, ZBStreamAssumption DEF SynPart, TypeOK
  <2> QED
    BY <1>3, <2>1, <2>2, FeedKeeps, ZBStreamAssumption
       DEF SynPart, TypeOK, StateMeaning, CrashNeedsWrap
<1>4. CASE \E n \in 1 .. Len(piece) : SynLost(n)
  <2>1. PICK n \in 1 .. Len(piece) : SynLost(n)
    BY <1>4
  <2>2. Feed("init", n) /\ n \in 0 .. Len(piece)
    BY <1>1, <2>1 DEF SynLost
  <2>3. TypeOK'
    BY <2>1, <2>2, FeedKeeps, ZBStreamAssumption DEF SynLost, TypeOK
  <2> QED
    BY <2>1, <2>2, <2>3, FeedKeeps, ZBStreamAssumption
       DEF SynLost, TypeOK, StateMeaning, CrashNeedsWrap
<1> QED
  BY <1>2, <1>3, <1>4

LEMMA PartlyKeeps ==
  ASSUME StreamInv, NEW s \in {"head", "data"}, Partly(s)
  PROVE  StreamInv'
<1> USE DEF StreamInv
<1>1. piece \in Seq(Byte) /\ Len(piece) \in Nat /\ buf \in Seq(Byte) /\ Len(buf) \in Nat /\ Len(buf) <= BufSize
  BY LenProperties DEF TypeOK
<1>2. Feed(s, Len(piece)) /\ Len(piece) \in 0 .. Len(piece)
  BY <1>1 DEF Partly
<1>3. /\ Put(buf, piece) \in Seq(Byte)
      /\ Len(Put(buf, piece)) = IF Len(buf) + Len(piece) <= BufSize THEN Len(buf) + Len(piece) ELSE BufSize
  BY <1>1, PutFits
<1>4. expect - Len(piece) \in -MinHeadLen .. Base * Base /\ expect - Len(piece) >= 1
  <2>1. expect \in Int /\ expect <= Base * Base /\ Base * Base \in Int
    BY ZBStreamAssumption DEF TypeOK
  <2>2. Len(piece) < expect
    BY DEF Partly
  <2> HIDE DEF StreamInv
  <2> QED
    BY <1>1, <2>1, <2>2, ZBStreamAssumption
<1>5. TypeOK'
  BY <1>1, <1>2, <1>3, <1>4, FeedKeeps, ZBStreamAssumption DEF Partly, TypeOK
<1>6. StateMeaning'
  <2>1. /\ buf' = Put(buf, piece) /\ expect' = expect - Len(piece)
        /\ state' = state /\ idx' = idx /\ wrapped' = wrapped /\ state = s
    BY <1>2, FeedKeeps DEF Partly
  <2>2. expect \in Int
    BY ZBStreamAssumption DEF TypeOK
  <2>3. CASE s = "head"
    <3>1. idx = SynLen /\ Len(buf) + expect = MinHeadLen
      BY <2>1, <2>3 DEF StateMeaning
    <3>2. Len(buf) + Len(piece) <= BufSize
      BY <1>1, <1>4, <2>2, <3>1, ZBStreamAssumption
    <3>3. Len(Put(buf, piece)) + (expect - Len(piece)) = MinHeadLen
      BY <1>1, <1>3, <2>2, <3>1, <3>2
    <3> QED
      BY <1>4, <2>1, <2>3, <3>1, <3>3 DEF StateMeaning
  <2>4. CASE s = "data"
    <3>1. idx = SynLen /\ Len(buf) >= MinHeadLen
      BY <2>1, <2>4 DEF StateMeaning
    <3>2. Len(Put(buf, piece)) >= MinHeadLen
      BY <1>1, <1>3, <3>1, ZBStreamAssumption
    <3> QED
      BY <1>4, <2>1, <2>4, <3>1, <3>2 DEF StateMeaning
  <2> QED
    BY <2>3, <2>4
<1> QED
  BY <1>5, <1>6 DEF Partly, CrashNeedsWrap

(* What the head tells: the buffer then, the length and what is left of it. *)
LEMMA HeadTells ==
  ASSUME StreamInv, HeadComplete
  PROVE  /\ expect \in 0 .. Len(piece) /\ Feed("head", expect)
         /\ buf' \in Seq(Byte) /\ Len(buf') = MinHeadLen
         /\ buf'[2] * Base + buf'[3] \in Nat
         /\ (buf'[2] * Base + buf'[3] + HeadLen) % (Base * Base) \in 0 .. Base * Base - 1
         /\ (buf'[2] * Base + buf'[3] + HeadLen) % (Base * Base) = buf'[2] * Base + buf'[3] + HeadLen
              <=> buf'[2] * Base + buf'[3] + HeadLen < Base * Base
<1> USE DEF StreamInv
<1>1. piece \in Seq(Byte) /\ Len(piece) \in Nat /\ buf \in Seq(Byte) /\ Len(buf) \in Nat /\ Len(buf) <= BufSize
  BY LenProperties DEF TypeOK
<1>2. Len(piece) >= expect /\ Feed("head", expect) /\ buf' = Put(buf, First(piece, expect))
  BY DEF HeadComplete
<1>3. state = "head" /\ expect \in 1 .. MinHeadLen /\ Len(buf) + expect = MinHeadLen
  BY <1>1, <1>2, ZBStreamAssumption DEF Feed, StateMeaning, TypeOK
<1>4. expect \in 0 .. Len(piece)
  BY <1>1, <1>2, <1>3, ZBStreamAssumption
<1>5. First(piece, expect) \in Seq(Byte) /\ Len(First(piece, expect)) = expect
  BY <1>1, <1>4, Cut
<1>6. buf' \in Seq(Byte) /\ Len(buf') = MinHeadLen
  <2>1. Len(buf) + Len(First(piece, expect)) = MinHeadLen /\ MinHeadLen <= BufSize
    BY <1>3, <1>5, ZBStreamAssumption
  <2>2. Put(buf, First(piece, expect)) \in Seq(Byte) /\ Len(Put(buf, First(piece, expect))) = MinHeadLen
    BY <1>1, <1>5, <2>1, PutFits
  <2> HIDE DEF StreamInv
  <2> QED
    BY <1>2, <2>2
<1>7. buf'[2] \in Byte /\ buf'[3] \in Byte
  <2>1. 2 \in 1 .. Len(buf') /\ 3 \in 1 .. Len(buf')
    BY <1>6, ZBStreamAssumption
  <2> HIDE DEF StreamInv
  <2> QED
    BY <1>6, <2>1, ElementOfSeq
<1>8. buf'[2] * Base + buf'[3] \in Nat /\ Base * Base \in Nat \ {0}
  BY <1>7, LengthIsNat
<1>9. buf'[2] * Base + buf'[3] + HeadLen \in Nat
  BY <1>8, ZBStreamAssumption
<1> HIDE DEF StreamInv
<1> QED
  BY <1>2, <1>4, <1>6, <1>8, <1>9, Wrapping

LEMMA HeadKeeps ==
  ASSUME StreamInv, HeadComplete
  PROVE  StreamInv'
<1> DEFINE msg_len == (buf'[2] * Base + buf'[3] + HeadLen) % (Base * Base)
<1>1. /\ expect \in 0 .. Len(piece) /\ Feed("head", expect)
      /\ buf' \in Seq(Byte) /\ Len(buf') = MinHeadLen
      /\ msg_len \in 0 .. Base * Base - 1
  BY HeadTells
<1>2. Base * Base \in Nat /\ buf'[2] * Base + buf'[3] \in Nat
  BY HeadTells, ZBStreamAssumption
<1>3. /\ expect' = msg_len - MinHeadLen
      /\ wrapped' = (wrapped \/ msg_len # buf'[2] * Base + buf'[3] + HeadLen)
      /\ state' = "data" /\ idx' = idx /\ ready' = ready /\ crashed' = crashed
  BY DEF HeadComplete
<1> HIDE DEF msg_len
<1>4. expect' \in -MinHeadLen .. Base * Base /\ (wrapped' \/ expect' >= 1)
  <2> DEFINE W == Base * Base
             length == buf'[2] * Base + buf'[3]
  <2>1. W \in Nat /\ length \in Nat /\ msg_len \in 0 .. W - 1
    BY <1>1, <1>2
  <2>2. expect' = msg_len - MinHeadLen /\ (wrapped' \/ msg_len = length + HeadLen)
    BY <1>3
  <2> HIDE DEF W, length
  <2>3. expect' \in -MinHeadLen .. W /\ (wrapped' \/ expect' >= 1)
    BY <2>1, <2>2, ZBStreamAssumption
  <2> QED
    BY <2>3 DEF W
<1>5. TypeOK'
  BY <1>1, <1>3, <1>4, FeedKeeps, ZBStreamAssumption DEF StreamInv, TypeOK
<1>6. state = "head" /\ idx = SynLen
  BY <1>1 DEF Feed, StreamInv, StateMeaning
<1> QED
  BY <1>1, <1>3, <1>4, <1>5, <1>6, FeedKeeps, ZBStreamAssumption
     DEF StreamInv, TypeOK, StateMeaning, CrashNeedsWrap

LEMMA FrameKeeps ==
  ASSUME StreamInv, FrameComplete
  PROVE  StreamInv'
<1>1. /\ piece \in Seq(Byte) /\ buf \in Seq(Byte) /\ Len(buf) <= BufSize
      /\ ready \in Seq(Seq(Byte)) /\ idx \in 0 .. SynLen
  BY DEF StreamInv, TypeOK
<1>2. expect \in 0 .. Len(piece) /\ Feed("data", expect)
  BY DEF FrameComplete
<1>3. First(piece, expect) \in Seq(Byte)
  BY <1>1, <1>2, Cut
<1>4. Append(ready, Put(buf, First(piece, expect))) \in Seq(Seq(Byte))
  BY <1>1, <1>3, PutFits, AppendProperties
<1>5. <<>> \in Seq(Byte) /\ Len(<<>>) = 0 /\ 0 \in 0 .. SynLen /\ 0 <= BufSize
  BY EmptySeq, ZBStreamAssumption
<1>6. TypeOK'
  BY <1>2, <1>4, <1>5, FeedKeeps DEF StreamInv, TypeOK, FrameComplete
<1> QED
  BY <1>2, <1>6, FeedKeeps, ZBStreamAssumption
     DEF StreamInv, TypeOK, FrameComplete, StateMeaning, CrashNeedsWrap

LEMMA CopyKeeps ==
  ASSUME StreamInv, NegativeCopy
  PROVE  StreamInv'
<1>1. Feed("data", Len(piece)) /\ Len(piece) \in 0 .. Len(piece)
  BY LenProperties DEF StreamInv, TypeOK, NegativeCopy
<1>2. TypeOK'
  BY <1>1, FeedKeeps DEF StreamInv, TypeOK, NegativeCopy
<1> QED
  BY <1>1, <1>2, FeedKeeps, ZBStreamAssumption
     DEF StreamInv, TypeOK, NegativeCopy, StateMeaning, CrashNeedsWrap

LEMMA ReadKeeps ==
  ASSUME StreamInv, Read
  PROVE  StreamInv'
<1>1. ready \in Seq(Seq(Byte)) /\ ready # <<>>
  BY DEF StreamInv, TypeOK, Read
<1>2. Head(ready) \in Seq(Byte) /\ Tail(ready) \in Seq(Seq(Byte)) /\ Len(Head(ready)) \in Nat
  BY <1>1, HeadTailProperties, LenProperties
<1>3. handed' \in Seq(Byte) /\ Len(handed') <= ReadSize /\ ready' \in Seq(Seq(Byte))
  <2>1. CASE Len(Head(ready)) > ReadSize /\ handed' = First(Head(ready), ReadSize)
             /\ ready' = <<Rest(Head(ready), ReadSize)>> \o Tail(ready)
    <3>1. ReadSize \in 0 .. Len(Head(ready)) /\ ReadSize \in Nat
      BY <1>2, <2>1, ZBStreamAssumption
    <3>2. First(Head(ready), ReadSize) \in Seq(Byte) /\ Len(First(Head(ready), ReadSize)) = ReadSize
          /\ Rest(Head(ready), ReadSize) \in Seq(Byte)
      BY <1>2, <3>1, Cut
    <3>3. <<Rest(Head(ready), ReadSize)>> \in Seq(Seq(Byte))
      BY <3>2
    <3>4. ready' \in Seq(Seq(Byte))
      BY <1>2, <2>1, <3>3, ConcatProperties
    <3> QED
      BY <2>1, <3>1, <3>2, <3>4
  <2>2. CASE Len(Head(ready)) <= ReadSize /\ handed' = Head(ready) /\ ready' = Tail(ready)
    BY <1>2, <2>2
  <2> QED
    BY <2>1, <2>2 DEF Read
<1>4. TypeOK'
  BY <1>3 DEF StreamInv, TypeOK, Read
<1> QED
  BY <1>4 DEF StreamInv, TypeOK, Read, StateMeaning, CrashNeedsWrap

LEMMA StreamInductive == StreamInv /\ [Next]_vars => StreamInv'
<1> SUFFICES ASSUME StreamInv, [Next]_vars
             PROVE  StreamInv'
  OBVIOUS
<1>1. CASE UNCHANGED vars
  BY <1>1 DEF vars, StreamInv, TypeOK, StateMeaning, CrashNeedsWrap
<1>2. CASE Next
  BY <1>2, ReceiveKeeps, InitKeeps, PartlyKeeps, HeadKeeps, FrameKeeps, CopyKeeps, ReadKeeps DEF Next
<1> QED
  BY <1>1, <1>2

(* Every variable keeps its type: what is kept of a frame never outgrows   *)
(* the buffer, what is passed on never the reader's, and the expected      *)
(* length is never below that of a head.                                   *)
THEOREM StreamTypeCorrect == Spec => []TypeOK
<1>1. StreamInv => TypeOK
  BY DEF StreamInv
<1> QED
  BY StreamInit, StreamInductive, <1>1, PTL DEF Spec

(* The copy of a negative length comes only after a length that wrapped,   *)
(* whatever the bytes and the pieces they come in.                         *)
THEOREM StreamCrashNeedsWrap == Spec => []CrashNeedsWrap
<1>1. StreamInv => CrashNeedsWrap
  BY DEF StreamInv
<1> QED
  BY StreamInit, StreamInductive, <1>1, PTL DEF Spec

-----------------------------------------------------------------------------
(* A run of bytes, one after the other: the states it goes through, and    *)
(* what they are in each of the three states of the machine.               *)

LEMMA Running ==
  ASSUME NEW s, NEW p \in Seq(Byte)
  PROVE  /\ Frames!Taking(s, p)[0] = s
         /\ \A i \in 0 .. Len(p) - 1 :
              Frames!Taking(s, p)[i + 1] = Frames!Take(Frames!Taking(s, p)[i], p[i + 1])
<1> DEFINE Goes(g, n) == g = [i \in 0 .. n |-> IF i = 0 THEN s ELSE Frames!Take(g[i - 1], p[i])]
           T == {n \in 0 .. Len(p) : \E g : Goes(g, n)}
<1>1. Len(p) \in Nat
  BY LenProperties
<1>2. 0 \in T
  <2> DEFINE h == [i \in 0 .. 0 |-> s]
  <2>1. h = [i \in 0 .. 0 |-> IF i = 0 THEN s ELSE Frames!Take(h[i - 1], p[i])]
    OBVIOUS
  <2>2. Goes(h, 0)
    BY <2>1
  <2> HIDE DEF h, Goes
  <2> QED
    BY <1>1, <2>2
<1>3. ASSUME NEW n \in 0 .. Len(p) - 1, n \in T
      PROVE  n + 1 \in T
  <2>1. PICK g : Goes(g, n)
    BY <1>3
  <2> DEFINE h == [i \in 0 .. n + 1 |-> IF i = n + 1 THEN Frames!Take(g[n], p[n + 1]) ELSE g[i]]
  <2>2. \A i \in 0 .. n + 1 : h[i] = IF i = 0 THEN s ELSE Frames!Take(h[i - 1], p[i])
    <3>1. TAKE i \in 0 .. n + 1
    <3>2. CASE i = n + 1
      <4>1. h[i] = Frames!Take(g[n], p[n + 1]) /\ h[i - 1] = g[n] /\ i # 0
        BY <1>1, <3>2
      <4> QED
        BY <3>2, <4>1
    <3>3. CASE i # n + 1
      <4>1. h[i] = g[i] /\ i \in 0 .. n
        BY <1>1, <3>3
      <4>2. i # 0 => h[i - 1] = g[i - 1]
        BY <1>1, <4>1
      <4> HIDE DEF h
      <4> QED
        BY <2>1, <4>1, <4>2
    <3> QED
      BY <3>2, <3>3
  <2>3. Goes(h, n + 1)
    <3>1. h = [i \in 0 .. n + 1 |-> h[i]]
      OBVIOUS
    <3> HIDE DEF h
    <3> QED
      BY <2>2, <3>1
  <2>4. n + 1 \in 0 .. Len(p)
    BY <1>1
  <2> HIDE DEF h, Goes
  <2> QED
    BY <2>3, <2>4
<1>4. \E g : Goes(g, Len(p))
  <2> HIDE DEF T
  <2>1. 0 .. Len(p) \subseteq T
    BY <1>1, <1>2, <1>3, RangeInduction
  <2>2. Len(p) \in T
    BY <1>1, <2>1
  <2> USE DEF T
  <2> QED
    BY <2>2
<1>5. Goes(Frames!Taking(s, p), Len(p))
  BY <1>4 DEF Frames!Taking
<1> HIDE DEF T
<1>6. \A i \in 0 .. Len(p) : Frames!Taking(s, p)[i] = IF i = 0 THEN s ELSE Frames!Take(Frames!Taking(s, p)[i - 1], p[i])
  BY <1>5
<1>7. ASSUME NEW i \in 0 .. Len(p) - 1
      PROVE  Frames!Taking(s, p)[i + 1] = Frames!Take(Frames!Taking(s, p)[i], p[i + 1])
  <2>1. i + 1 \in 0 .. Len(p) /\ i + 1 # 0 /\ (i + 1) - 1 = i
    BY <1>1
  <2> HIDE DEF Goes
  <2> QED
    BY <1>6, <2>1
<1> QED
  BY <1>1, <1>6, <1>7

(* A state of the reading, and one in which no length was too large.  Some *)
(* values have names: the provers see them better as terms.                *)
ReadingState(y, f, m, d, c) == [syn |-> y, frame |-> f, missing |-> m, due |-> d, broken |-> c]
Sound == FALSE
Unsound == TRUE
At(y, f, m, d) == ReadingState(y, f, m, d, Sound)

LEMMA Parts ==
  ASSUME NEW y, NEW f, NEW m, NEW d, NEW c
  PROVE  /\ ReadingState(y, f, m, d, c).syn = y /\ ReadingState(y, f, m, d, c).frame = f
         /\ ReadingState(y, f, m, d, c).missing = m /\ ReadingState(y, f, m, d, c).due = d
         /\ ReadingState(y, f, m, d, c).broken = c
  BY DEF ReadingState

LEMMA AtParts ==
  ASSUME NEW y, NEW f, NEW m, NEW d
  PROVE  /\ At(y, f, m, d).syn = y /\ At(y, f, m, d).frame = f /\ At(y, f, m, d).missing = m
         /\ At(y, f, m, d).due = d /\ ~ At(y, f, m, d).broken
<1>1. ~ Sound
  BY DEF Sound
<1> QED
  BY <1>1, Parts DEF At

LEMMA AtFrame ==
  ASSUME NEW y, NEW f, NEW m, NEW d, NEW z
  PROVE  [At(y, f, m, d) EXCEPT !.frame = z] = At(y, z, m, d)
  BY DEF At, ReadingState

LEMMA AtMissing ==
  ASSUME NEW y, NEW f, NEW m, NEW d, NEW z
  PROVE  [At(y, f, m, d) EXCEPT !.missing = z] = At(y, f, z, d)
  BY DEF At, ReadingState

LEMMA Starts ==
  ASSUME NEW q
  PROVE  /\ [Frames!Start EXCEPT !.due = q] = ReadingState(0, <<>>, 0, q, Sound)
         /\ [Frames!Start EXCEPT !.broken = TRUE] = ReadingState(0, <<>>, 0, <<>>, Unsound)
<1>1. Frames!Start = ReadingState(0, <<>>, 0, <<>>, Sound)
  BY DEF Frames!Start, ReadingState, Sound
<1>2. [ReadingState(0, <<>>, 0, <<>>, Sound) EXCEPT !.due = q] = ReadingState(0, <<>>, 0, q, Sound)
  BY DEF ReadingState
<1>3. [ReadingState(0, <<>>, 0, <<>>, Sound) EXCEPT !.broken = Unsound] = ReadingState(0, <<>>, 0, <<>>, Unsound)
  BY DEF ReadingState
<1>4. [Frames!Start EXCEPT !.broken = TRUE] = [Frames!Start EXCEPT !.broken = Unsound]
  BY DEF Unsound
<1> QED
  BY <1>1, <1>2, <1>3, <1>4

LEMMA TakeSyn ==
  ASSUME NEW y \in 0 .. SynLen - 1, NEW b, NEW d
  PROVE  Frames!Take(At(y, <<>>, 0, d), b) = At(IF b = Syn THEN y + 1 ELSE 0, <<>>, 0, d)
<1>1. At(y, <<>>, 0, d).syn < SynLen /\ ~ At(y, <<>>, 0, d).broken /\ At(y, <<>>, 0, d).syn = y
  BY AtParts, ZBStreamAssumption
<1>2. Frames!Take(At(y, <<>>, 0, d), b)
        = [At(y, <<>>, 0, d) EXCEPT !.syn = IF b = Syn THEN At(y, <<>>, 0, d).syn + 1 ELSE 0]
  BY <1>1 DEF Frames!Take
<1>3. [At(y, <<>>, 0, d) EXCEPT !.syn = IF b = Syn THEN y + 1 ELSE 0] = At(IF b = Syn THEN y + 1 ELSE 0, <<>>, 0, d)
  BY DEF At, ReadingState
<1> QED
  BY <1>1, <1>2, <1>3

LEMMA TakeHead ==
  ASSUME NEW f \in Seq(Byte), NEW b \in Byte, NEW d, NEW u, Len(f) < MinHeadLen - 1
  PROVE  Frames!Take(At(SynLen, f, u, d), b) = At(SynLen, Append(f, b), u, d)
<1>1. Frames!Kept(f, b) = Append(f, b) /\ Len(Append(f, b)) < MinHeadLen
  <2>1. Len(f) \in Nat /\ Len(Append(f, b)) = Len(f) + 1 /\ Len(f) < BufSize
    BY ZBStreamAssumption, LenProperties, AppendProperties
  <2> QED
    BY <2>1, ZBStreamAssumption DEF Frames!Kept
<1>2. /\ ~ At(SynLen, f, u, d).broken /\ ~ (At(SynLen, f, u, d).syn < SynLen)
      /\ At(SynLen, f, u, d).frame = f
  BY AtParts, ZBStreamAssumption
<1>3. Frames!Take(At(SynLen, f, u, d), b) = [At(SynLen, f, u, d) EXCEPT !.frame = Append(f, b)]
  BY <1>1, <1>2 DEF Frames!Take
<1> DEFINE g == Append(f, b)
<1>4. [At(SynLen, f, u, d) EXCEPT !.frame = g] = At(SynLen, g, u, d)
  <2> HIDE DEF g
  <2> QED
    BY AtFrame
<1> QED
  BY <1>3, <1>4

LEMMA TakeLength ==
  ASSUME NEW f \in Seq(Byte), NEW b \in Byte, NEW d, NEW u, Len(f) = MinHeadLen - 1
  PROVE  LET g == Append(f, b)
             length == g[2] * Base + g[3]
         IN Frames!Take(At(SynLen, f, u, d), b) =
              IF length + HeadLen >= Base * Base THEN ReadingState(0, <<>>, 0, <<>>, Unsound)
              ELSE At(SynLen, g, length + HeadLen - MinHeadLen, d)
<1> DEFINE g == Append(f, b)
           length == g[2] * Base + g[3]
           k == length + HeadLen - MinHeadLen
<1>1. Frames!Kept(f, b) = g /\ ~ (Len(g) < MinHeadLen) /\ Len(f) < MinHeadLen
  <2>1. Len(f) \in Nat /\ Len(g) = Len(f) + 1
    BY LenProperties, AppendProperties
  <2> QED
    BY <2>1, ZBStreamAssumption DEF Frames!Kept
<1>2. /\ ~ At(SynLen, f, u, d).broken /\ ~ (At(SynLen, f, u, d).syn < SynLen)
      /\ At(SynLen, f, u, d).frame = f
  BY AtParts, ZBStreamAssumption
<1>3. Frames!Take(At(SynLen, f, u, d), b) =
        IF length + HeadLen >= Base * Base THEN [Frames!Start EXCEPT !.broken = TRUE]
        ELSE [[At(SynLen, f, u, d) EXCEPT !.frame = g] EXCEPT !.missing = k]
  BY <1>1, <1>2 DEF Frames!Take
<1>4. [[At(SynLen, f, u, d) EXCEPT !.frame = g] EXCEPT !.missing = k] = At(SynLen, g, k, d)
  <2> HIDE DEF g, length, k
  <2>1. [At(SynLen, f, u, d) EXCEPT !.frame = g] = At(SynLen, g, u, d)
    BY AtFrame
  <2>2. [At(SynLen, g, u, d) EXCEPT !.missing = k] = At(SynLen, g, k, d)
    BY AtMissing
  <2> QED
    BY <2>1, <2>2
<1>5. [Frames!Start EXCEPT !.broken = TRUE] = ReadingState(0, <<>>, 0, <<>>, Unsound)
  BY Starts
<1> QED
  BY <1>3, <1>4, <1>5

LEMMA TakeMore ==
  ASSUME NEW f \in Seq(Byte), NEW b \in Byte, Len(f) >= MinHeadLen, NEW d, NEW m \in Nat, m > 1
  PROVE  Frames!Take(At(SynLen, f, m, d), b) = At(SynLen, Frames!Kept(f, b), m - 1, d)
<1> DEFINE g == Frames!Kept(f, b)
<1>1. ~ (Len(g) < MinHeadLen) /\ ~ (Len(f) < MinHeadLen)
  <2>1. Len(f) \in Nat /\ Len(Append(f, b)) = Len(f) + 1
    BY LenProperties, AppendProperties
  <2> QED
    BY <2>1, ZBStreamAssumption DEF Frames!Kept
<1>2. /\ ~ At(SynLen, f, m, d).broken /\ ~ (At(SynLen, f, m, d).syn < SynLen)
      /\ At(SynLen, f, m, d).frame = f /\ At(SynLen, f, m, d).missing = m
  BY AtParts, ZBStreamAssumption
<1>3. Frames!Take(At(SynLen, f, m, d), b) = [[At(SynLen, f, m, d) EXCEPT !.frame = g] EXCEPT !.missing = m - 1]
  <2>1. Frames!Kept(At(SynLen, f, m, d).frame, b) = g
    BY <1>2
  <2> HIDE DEF g
  <2> QED
    BY <1>1, <1>2, <2>1 DEF Frames!Take
<1>4. [[At(SynLen, f, m, d) EXCEPT !.frame = g] EXCEPT !.missing = m - 1] = At(SynLen, g, m - 1, d)
  <2> HIDE DEF g
  <2>1. [At(SynLen, f, m, d) EXCEPT !.frame = g] = At(SynLen, g, m, d)
    BY AtFrame
  <2>2. [At(SynLen, g, m, d) EXCEPT !.missing = m - 1] = At(SynLen, g, m - 1, d)
    BY AtMissing
  <2> QED
    BY <2>1, <2>2
<1> QED
  BY <1>3, <1>4

LEMMA TakeEnd ==
  ASSUME NEW f \in Seq(Byte), NEW b \in Byte, Len(f) >= MinHeadLen, NEW d, NEW m, m = 1
  PROVE  Frames!Take(At(SynLen, f, m, d), b)
           = ReadingState(0, <<>>, 0, Append(d, Frames!Kept(f, b)), Sound)
<1> DEFINE g == Frames!Kept(f, b)
<1>1. ~ (Len(g) < MinHeadLen) /\ ~ (Len(f) < MinHeadLen)
  <2>1. Len(f) \in Nat /\ Len(Append(f, b)) = Len(f) + 1
    BY LenProperties, AppendProperties
  <2> QED
    BY <2>1, ZBStreamAssumption DEF Frames!Kept
<1>2. /\ ~ At(SynLen, f, m, d).broken /\ ~ (At(SynLen, f, m, d).syn < SynLen)
      /\ At(SynLen, f, m, d).frame = f /\ ~ (At(SynLen, f, m, d).missing > 1)
      /\ At(SynLen, f, m, d).due = d
  BY AtParts, ZBStreamAssumption
<1>3. Frames!Take(At(SynLen, f, m, d), b) = [Frames!Start EXCEPT !.due = Append(d, g)]
  <2>1. Frames!Kept(At(SynLen, f, m, d).frame, b) = g
    BY <1>2
  <2> HIDE DEF g
  <2> QED
    BY <1>1, <1>2, <2>1 DEF Frames!Take
<1>4. [Frames!Start EXCEPT !.due = Append(d, g)] = ReadingState(0, <<>>, 0, Append(d, g), Sound)
  <2> DEFINE q == Append(d, g)
  <2> HIDE DEF q
  <2> QED
    BY Starts
<1> QED
  BY <1>3, <1>4

(* A byte more put into the buffer, however they come.                     *)
LEMMA PutRoom ==
  ASSUME NEW b \in Seq(Byte), Len(b) <= BufSize, NEW q \in Seq(Byte), NEW i \in 0 .. Len(q)
  PROVE  /\ Len(b) + i <= BufSize => Put(b, First(q, i)) = b \o First(q, i)
         /\ Len(b) + i > BufSize => Put(b, First(q, i)) = b \o First(q, BufSize - Len(b))
<1>1. Len(First(q, i)) = i /\ Len(b) \in Nat /\ Len(q) \in Nat
  BY Cut, LenProperties
<1>2. ASSUME Len(b) + i > BufSize
      PROVE  First(First(q, i), BufSize - Len(b)) = First(q, BufSize - Len(b))
  <2> DEFINE r == BufSize - Len(b)
  <2>1. r \in 0 .. i - 1
    BY <1>1, <1>2, ZBStreamAssumption
  <2> SUFFICES First(First(q, i), r) = First(q, r)
    OBVIOUS
  <2> HIDE DEF r
  <2>2. CASE r = 0
    <3>1. SubSeq(First(q, i), 1, 0) = <<>> /\ SubSeq(q, 1, 0) = <<>>
      BY SubSeqEmpty
    <3> QED
      BY <2>2, <3>1 DEF First
  <2>3. CASE r # 0
    <3>1. r \in 1 .. i - 1 + 1 /\ 1 \in 1 .. i - 1 + 1 /\ i \in 1 .. Len(q) /\ 1 \in 1 .. Len(q)
      BY <1>1, <2>1, <2>3
    <3>2. SubSeq(SubSeq(q, 1, i), 1, r) = SubSeq(q, 1 + 1 - 1, 1 + r - 1)
      BY <3>1, SubSeqOfSubSeq
    <3>3. 1 + 1 - 1 = 1 /\ 1 + r - 1 = r
      BY <2>1
    <3> QED
      BY <3>2, <3>3 DEF First
  <2> QED
    BY <2>2, <2>3
<1>3. CASE Len(b) + i <= BufSize
  BY <1>1, <1>3, ZBStreamAssumption DEF Put
<1>4. CASE Len(b) + i > BufSize
  <2>1. ~ (Len(b) + Len(First(q, i)) <= BufSize) /\ ~ (Len(b) + i <= BufSize)
    BY <1>1, <1>4, ZBStreamAssumption
  <2>2. Put(b, First(q, i)) = b \o First(First(q, i), BufSize - Len(b))
    BY <2>1 DEF Put
  <2> QED
    BY <1>2, <1>4, <2>1, <2>2
<1> QED
  BY <1>1, <1>3, <1>4, ZBStreamAssumption

LEMMA PutByte ==
  ASSUME NEW b \in Seq(Byte), Len(b) <= BufSize, NEW q \in Seq(Byte), NEW i \in 0 .. Len(q) - 1
  PROVE  Put(b, First(q, i + 1)) = Frames!Kept(Put(b, First(q, i)), q[i + 1])
<1> DEFINE c == Put(b, First(q, i))
<1>1. /\ Len(b) \in Nat /\ Len(q) \in Nat /\ i \in 0 .. Len(q) /\ i + 1 \in 1 .. Len(q)
      /\ i + 1 \in 0 .. Len(q)
  BY LenProperties
<1>2. q[i + 1] \in Byte /\ First(q, i) \in Seq(Byte) /\ Len(First(q, i)) = i
  BY <1>1, ElementOfSeq, Cut
<1>3. c \in Seq(Byte) /\ Len(c) = IF Len(b) + i <= BufSize THEN Len(b) + i ELSE BufSize
  BY <1>2, PutFits
<1>4. CASE Len(b) + i + 1 <= BufSize
  <2>1. First(q, i + 1) = First(q, i) \o <<q[i + 1]>>
    <3>1. 1 \in 1 .. Len(q) /\ i + 1 \in 1 .. Len(q) /\ (i + 1) - 1 = i
      BY <1>1
    <3>2. SubSeq(q, 1, i + 1) = SubSeq(q, 1, (i + 1) - 1) \o <<q[i + 1]>>
      BY <3>1, SubSeqRecursiveSecond
    <3> QED
      BY <3>1, <3>2 DEF First
  <2>2. Put(b, First(q, i + 1)) = b \o First(q, i + 1) /\ c = b \o First(q, i)
    <3>1. Len(b) + (i + 1) <= BufSize /\ Len(b) + i <= BufSize
      BY <1>1, <1>4, ZBStreamAssumption
    <3> QED
      BY <1>1, <3>1, PutRoom
  <2>3. <<q[i + 1]>> \in Seq(Byte)
    BY <1>2
  <2>4. b \o (First(q, i) \o <<q[i + 1]>>) = (b \o First(q, i)) \o <<q[i + 1]>>
    BY <1>2, <2>3, ConcatAssociative
  <2>5. Append(c, q[i + 1]) = c \o <<q[i + 1]>>
    <3> HIDE DEF c
    <3> QED
      BY <1>2, <1>3, AppendIsConcat
  <2>6. Len(c) < BufSize
    <3> HIDE DEF c
    <3> QED
      BY <1>1, <1>3, <1>4, ZBStreamAssumption
  <2> QED
    BY <2>1, <2>2, <2>4, <2>5, <2>6 DEF Frames!Kept
<1>5. CASE Len(b) + i + 1 > BufSize
  <2>1. Put(b, First(q, i + 1)) = b \o First(q, BufSize - Len(b))
    <3>1. Len(b) + (i + 1) > BufSize
      BY <1>1, <1>5, ZBStreamAssumption
    <3> QED
      BY <1>1, <3>1, PutRoom
  <2>2. c = b \o First(q, BufSize - Len(b))
    <3>1. CASE Len(b) + i <= BufSize
      <4>1. i = BufSize - Len(b)
        BY <1>1, <1>5, <3>1, ZBStreamAssumption
      <4> QED
        BY <1>1, <3>1, <4>1, PutRoom
    <3>2. CASE Len(b) + i > BufSize
      BY <1>1, <3>2, PutRoom
    <3> QED
      BY <1>1, <3>1, <3>2, ZBStreamAssumption
  <2>3. ~ (Len(c) < BufSize)
    <3> HIDE DEF c
    <3> QED
      BY <1>1, <1>3, <1>5, ZBStreamAssumption
  <2> QED
    BY <2>1, <2>2, <2>3 DEF Frames!Kept
<1> QED
  BY <1>1, <1>4, <1>5, ZBStreamAssumption

LEMMA PutNothing ==
  ASSUME NEW b \in Seq(Byte), Len(b) <= BufSize
  PROVE  Put(b, <<>>) = b
<1>1. Len(b) \in Nat /\ Len(<<>>) = 0 /\ b \o <<>> = b
  BY LenProperties, EmptySeq, ConcatEmptySeq
<1> QED
  BY <1>1, ZBStreamAssumption DEF Put

LEMMA SynRun ==
  ASSUME NEW y \in Nat, NEW q \in Seq(Byte), NEW n \in 0 .. Len(q), NEW d,
         y + n <= SynLen, \A i \in 1 .. n : q[i] = Syn
  PROVE  \A i \in 0 .. n : Frames!Taking(At(y, <<>>, 0, d), q)[i] = At(y + i, <<>>, 0, d)
<1> DEFINE run == Frames!Taking(At(y, <<>>, 0, d), q)
           T == {i \in 0 .. n : run[i] = At(y + i, <<>>, 0, d)}
<1>1. Len(q) \in Nat /\ n \in Nat
  BY LenProperties
<1>2. run[0] = At(y, <<>>, 0, d) /\ \A i \in 0 .. Len(q) - 1 : run[i + 1] = Frames!Take(run[i], q[i + 1])
  BY Running
<1> HIDE DEF run
<1>3. 0 \in T
  BY <1>1, <1>2
<1>4. ASSUME NEW i \in 0 .. n - 1, i \in T
      PROVE  i + 1 \in T
  <2>1. y + i \in 0 .. SynLen - 1 /\ i + 1 \in 1 .. n /\ i \in 0 .. Len(q) - 1 /\ y + (i + 1) = (y + i) + 1
    BY <1>1, ZBStreamAssumption
  <2>2. run[i] = At(y + i, <<>>, 0, d) /\ q[i + 1] = Syn
    BY <1>4, <2>1
  <2>3. Frames!Take(At(y + i, <<>>, 0, d), Syn) = At((y + i) + 1, <<>>, 0, d)
    BY <2>1, TakeSyn
  <2>4. run[i + 1] = At(y + (i + 1), <<>>, 0, d)
    BY <1>2, <2>1, <2>2, <2>3
  <2> QED
    BY <1>1, <2>1, <2>4
<1>5. 0 .. n \subseteq T
  <2> HIDE DEF T
  <2> QED
    BY <1>1, <1>3, <1>4, RangeInduction
<1> QED
  BY <1>5 DEF run

LEMMA HeadRun ==
  ASSUME NEW b \in Seq(Byte), NEW q \in Seq(Byte), NEW n \in 0 .. Len(q), NEW u, NEW d,
         Len(b) + n < MinHeadLen
  PROVE  \A i \in 0 .. n :
           Frames!Taking(At(SynLen, b, u, d), q)[i] = At(SynLen, Put(b, First(q, i)), u, d)
<1> DEFINE run == Frames!Taking(At(SynLen, b, u, d), q)
           T == {i \in 0 .. n : run[i] = At(SynLen, Put(b, First(q, i)), u, d)}
<1>1. Len(q) \in Nat /\ n \in Nat /\ Len(b) \in Nat /\ Len(b) <= BufSize
  BY LenProperties, ZBStreamAssumption
<1>2. run[0] = At(SynLen, b, u, d) /\ \A i \in 0 .. Len(q) - 1 : run[i + 1] = Frames!Take(run[i], q[i + 1])
  BY Running
<1> HIDE DEF run
<1>3. 0 \in T
  BY <1>1, <1>2, PutNothing, Cut
<1>4. ASSUME NEW i \in 0 .. n - 1, i \in T
      PROVE  i + 1 \in T
  <2> DEFINE f == Put(b, First(q, i))
  <2>1. i + 1 \in 1 .. Len(q) /\ i \in 0 .. Len(q) - 1 /\ i \in 0 .. Len(q)
    BY <1>1
  <2>2. q[i + 1] \in Byte /\ First(q, i) \in Seq(Byte) /\ Len(First(q, i)) = i
    BY <2>1, ElementOfSeq, Cut
  <2>3. Len(b) + i <= BufSize /\ Len(b) + i < MinHeadLen - 1
    BY <1>1, ZBStreamAssumption
  <2>4. f \in Seq(Byte) /\ Len(f) = Len(b) + i
    BY <1>1, <2>2, <2>3, PutFits
  <2>5. Put(b, First(q, i + 1)) = Frames!Kept(f, q[i + 1])
    BY <1>1, PutByte
  <2> HIDE DEF f
  <2>6. Frames!Kept(f, q[i + 1]) = Append(f, q[i + 1])
    <3>1. Len(f) < BufSize
      BY <1>1, <2>3, <2>4, ZBStreamAssumption
    <3> QED
      BY <3>1 DEF Frames!Kept
  <2>7. Frames!Take(At(SynLen, f, u, d), q[i + 1]) = At(SynLen, Append(f, q[i + 1]), u, d)
    <3>1. Len(f) < MinHeadLen - 1
      BY <2>3, <2>4
    <3> QED
      <4> DEFINE e == q[i + 1]
      <4>1. e \in Byte /\ f \in Seq(Byte)
        BY <2>2, <2>4
      <4> HIDE DEF e
      <4>2. Frames!Take(At(SynLen, f, u, d), e) = At(SynLen, Append(f, e), u, d)
        BY <3>1, <4>1, TakeHead
      <4> QED
        BY <4>2 DEF e
  <2>8. run[i] = At(SynLen, f, u, d)
    BY <1>4 DEF f
  <2>9. run[i + 1] = At(SynLen, Put(b, First(q, i + 1)), u, d)
    BY <1>2, <2>1, <2>5, <2>6, <2>7, <2>8
  <2> QED
    BY <1>1, <2>9
<1>5. 0 .. n \subseteq T
  <2> HIDE DEF T
  <2> QED
    BY <1>1, <1>3, <1>4, RangeInduction
<1> QED
  BY <1>5 DEF run

LEMMA DataRun ==
  ASSUME NEW b \in Seq(Byte), NEW q \in Seq(Byte), NEW n \in 0 .. Len(q), NEW m \in Nat, NEW d,
         Len(b) >= MinHeadLen, Len(b) <= BufSize, n < m
  PROVE  \A i \in 0 .. n :
           Frames!Taking(At(SynLen, b, m, d), q)[i] = At(SynLen, Put(b, First(q, i)), m - i, d)
<1> DEFINE run == Frames!Taking(At(SynLen, b, m, d), q)
           T == {i \in 0 .. n : run[i] = At(SynLen, Put(b, First(q, i)), m - i, d)}
<1>1. Len(q) \in Nat /\ n \in Nat /\ Len(b) \in Nat /\ m - 0 = m
  BY LenProperties
<1>2. run[0] = At(SynLen, b, m, d) /\ \A i \in 0 .. Len(q) - 1 : run[i + 1] = Frames!Take(run[i], q[i + 1])
  BY Running
<1> HIDE DEF run
<1>3. 0 \in T
  BY <1>1, <1>2, PutNothing, Cut
<1>4. ASSUME NEW i \in 0 .. n - 1, i \in T
      PROVE  i + 1 \in T
  <2> DEFINE f == Put(b, First(q, i))
  <2>1. i + 1 \in 1 .. Len(q) /\ i \in 0 .. Len(q) - 1 /\ i \in 0 .. Len(q)
    BY <1>1
  <2>2. q[i + 1] \in Byte /\ First(q, i) \in Seq(Byte) /\ Len(First(q, i)) = i
    BY <2>1, ElementOfSeq, Cut
  <2>3. m - i \in Nat \ {0} /\ m - i > 1 /\ (m - i) - 1 = m - (i + 1)
    BY <1>1
  <2>4. f \in Seq(Byte) /\ Len(f) >= MinHeadLen /\ Len(f) <= BufSize
    <3>1. /\ f \in Seq(Byte)
          /\ Len(f) = IF Len(b) + i <= BufSize THEN Len(b) + i ELSE BufSize
      BY <2>2, PutFits
    <3> HIDE DEF f
    <3> QED
      BY <1>1, <3>1, ZBStreamAssumption
  <2>5. Put(b, First(q, i + 1)) = Frames!Kept(f, q[i + 1])
    BY <1>1, PutByte
  <2> HIDE DEF f
  <2>6. Frames!Take(At(SynLen, f, m - i, d), q[i + 1]) = At(SynLen, Frames!Kept(f, q[i + 1]), (m - i) - 1, d)
    <3> DEFINE k == m - i
    <3>1. k \in Nat \ {0} /\ k > 1
      BY <2>3
    <3> HIDE DEF k
    <3>2. Frames!Take(At(SynLen, f, k, d), q[i + 1]) = At(SynLen, Frames!Kept(f, q[i + 1]), k - 1, d)
      <4> DEFINE e == q[i + 1]
      <4>1. e \in Byte /\ f \in Seq(Byte)
        BY <2>2, <2>4, <3>1
      <4> HIDE DEF e
      <4>2. Frames!Take(At(SynLen, f, k, d), e) = At(SynLen, Frames!Kept(f, e), k - 1, d)
        BY <2>4, <3>1, <4>1, TakeMore
      <4> QED
        BY <4>2 DEF e
    <3> QED
      BY <3>2 DEF k
  <2>7. run[i] = At(SynLen, f, m - i, d)
    BY <1>4 DEF f
  <2>8. run[i + 1] = At(SynLen, Put(b, First(q, i + 1)), m - (i + 1), d)
    BY <1>2, <2>1, <2>3, <2>5, <2>6, <2>7
  <2> QED
    BY <1>1, <2>8
<1>5. 0 .. n \subseteq T
  <2> HIDE DEF T
  <2> QED
    BY <1>1, <1>3, <1>4, RangeInduction
<1> QED
  BY <1>5 DEF run

-----------------------------------------------------------------------------
(* A step of the machine is a look at the bytes it uses, or hands over     *)
(* what is due.                                                            *)

Lacking == IF state = "data" /\ ~wrapped THEN expect ELSE 0

Reading == [syn |-> IF wrapped THEN 0 ELSE idx, frame |-> IF wrapped THEN <<>> ELSE buf,
            missing |-> Lacking, due |-> IF wrapped THEN <<>> ELSE ready, broken |-> wrapped]

LEMMA ReadingIsAt ==
  ASSUME wrapped = FALSE
  PROVE  Reading = At(idx, buf, Lacking, ready)
  BY DEF Reading, At, ReadingState, Sound

LEMMA LookSteps ==
  ASSUME wrapped = FALSE, wrapped' = FALSE, NEW n \in 1 .. Len(piece),
         piece' = Rest(piece, n), handed' = <<>>,
         Frames!Run(At(idx, buf, Lacking, ready), First(piece, n)) = At(idx', buf', Lacking', ready')
  PROVE  Frames!Next
<1>1. PICK s : s = Frames!Run(Reading, First(piece, n))
  OBVIOUS
<1>2. PICK y, f, m, d : y = idx' /\ f = buf' /\ m = Lacking' /\ d = ready'
  OBVIOUS
<1>3. s = At(y, f, m, d)
  <2>1. Reading = At(idx, buf, Lacking, ready)
    BY ReadingIsAt
  <2> QED
    BY <1>1, <1>2, <2>1
<1>4. s.syn = y /\ s.frame = f /\ s.missing = m /\ s.due = d /\ s.broken = FALSE
  <2>1. s.broken = Sound
    BY <1>3, Parts DEF At
  <2> QED
    BY <1>3, <2>1, AtParts DEF Sound
<1>5. /\ (IF wrapped THEN <<>> ELSE piece) = piece /\ (IF wrapped' THEN <<>> ELSE piece') = Rest(piece, n)
      /\ (IF wrapped' THEN <<>> ELSE handed') = <<>> /\ (IF wrapped' THEN 0 ELSE idx') = y
      /\ (IF wrapped' THEN <<>> ELSE buf') = f /\ (IF wrapped' THEN <<>> ELSE ready') = d
      /\ (IF state' = "data" /\ ~ wrapped' THEN expect' ELSE 0) = m
  BY <1>2 DEF Lacking
<1>6. Frames!Look(n)
  <2>1. s = Frames!Run(Reading, SubSeq(IF wrapped THEN <<>> ELSE piece, 1, n))
    BY <1>1, <1>5 DEF First
  <2>2. Rest(piece, n) = SubSeq(IF wrapped THEN <<>> ELSE piece, n + 1, Len(IF wrapped THEN <<>> ELSE piece))
    BY <1>5 DEF Rest
  <2>3. wrapped' = s.broken /\ ~ wrapped /\ ~ s.broken
    BY <1>4
  <2>4. /\ (IF wrapped' THEN 0 ELSE idx') = s.syn /\ (IF wrapped' THEN <<>> ELSE buf') = s.frame
        /\ (IF state' = "data" /\ ~ wrapped' THEN expect' ELSE 0) = s.missing
        /\ (IF wrapped' THEN <<>> ELSE ready') = s.due
        /\ (IF wrapped' THEN <<>> ELSE piece')
              = IF s.broken THEN <<>>
                ELSE SubSeq(IF wrapped THEN <<>> ELSE piece, n + 1, Len(IF wrapped THEN <<>> ELSE piece))
    BY <1>4, <1>5, <2>2, <2>3
  <2> QED
    BY <1>5, <2>1, <2>3, <2>4 DEF Frames!Look, Reading, Lacking
<1> QED
  BY <1>5, <1>6 DEF Frames!Next

LEMMA LookBreaks ==
  ASSUME wrapped = FALSE, wrapped' = TRUE, NEW n \in 1 .. Len(piece), handed' = <<>>,
         Frames!Run(At(idx, buf, Lacking, ready), First(piece, n)) = ReadingState(0, <<>>, 0, <<>>, Unsound)
  PROVE  Frames!Next
<1>1. PICK s : s = Frames!Run(Reading, First(piece, n))
  OBVIOUS
<1>2. s = ReadingState(0, <<>>, 0, <<>>, Unsound)
  <2>1. Reading = At(idx, buf, Lacking, ready)
    BY ReadingIsAt
  <2> QED
    BY <1>1, <2>1
<1>3. s.syn = 0 /\ s.frame = <<>> /\ s.missing = 0 /\ s.due = <<>> /\ s.broken = TRUE
  <2>1. s.syn = 0 /\ s.frame = <<>> /\ s.missing = 0 /\ s.due = <<>> /\ s.broken = Unsound
    BY <1>2, Parts
  <2> QED
    BY <2>1 DEF Unsound
<1>4. (IF wrapped THEN <<>> ELSE piece) = piece
  OBVIOUS
<1>5. Frames!Look(n)
  <2>1. s = Frames!Run(Reading, SubSeq(IF wrapped THEN <<>> ELSE piece, 1, n))
    BY <1>1, <1>4 DEF First
  <2>2. /\ wrapped' = s.broken /\ ~ wrapped
        /\ (IF wrapped' THEN 0 ELSE idx') = s.syn /\ (IF wrapped' THEN <<>> ELSE buf') = s.frame
        /\ (IF state' = "data" /\ ~ wrapped' THEN expect' ELSE 0) = s.missing
        /\ (IF wrapped' THEN <<>> ELSE ready') = s.due
        /\ (IF wrapped' THEN <<>> ELSE piece')
              = IF s.broken THEN <<>>
                ELSE SubSeq(IF wrapped THEN <<>> ELSE piece, n + 1, Len(IF wrapped THEN <<>> ELSE piece))
        /\ (IF wrapped' THEN <<>> ELSE handed') = <<>>
    BY <1>3
  <2> QED
    BY <2>1, <2>2 DEF Frames!Look, Reading, Lacking
<1> QED
  BY <1>4, <1>5 DEF Frames!Next

(* After a length that wrapped nothing more is promised.                   *)
LEMMA WrappedStutters ==
  ASSUME wrapped = TRUE, Next
  PROVE  UNCHANGED Frames!vars
<1>1. wrapped' = TRUE
  BY DEF Next, Receive, SynFound, SynPart, SynLost, Partly, HeadComplete, FrameComplete, NegativeCopy, Read
<1> QED
  BY <1>1 DEF Frames!vars

LEMMA RunEnds ==
  ASSUME NEW s, NEW q \in Seq(Byte), q # <<>>
  PROVE  Frames!Run(s, q) = Frames!Take(Frames!Taking(s, q)[Len(q) - 1], q[Len(q)])
<1>1. Len(q) \in Nat \ {0}
  BY EmptySeq
<1>2. Len(q) - 1 \in 0 .. Len(q) - 1 /\ (Len(q) - 1) + 1 = Len(q)
  BY <1>1
<1>3. Frames!Taking(s, q)[(Len(q) - 1) + 1] = Frames!Take(Frames!Taking(s, q)[Len(q) - 1], q[(Len(q) - 1) + 1])
  BY <1>2, Running
<1> QED
  BY <1>2, <1>3 DEF Frames!Run

LEMMA SynFoundLooks ==
  ASSUME StreamInv, wrapped = FALSE, NEW n \in 0 .. Len(piece), SynFound(n)
  PROVE  Frames!Next
<1> DEFINE q == First(piece, n)
<1>1. /\ piece \in Seq(Byte) /\ Len(piece) \in Nat /\ Feed("init", n) /\ state = "init"
      /\ buf = <<>> /\ idx \in 0 .. SynLen - 1 /\ idx + n = SynLen /\ \A i \in 1 .. n : piece[i] = Syn
  BY LenProperties, ZBStreamAssumption DEF StreamInv, TypeOK, StateMeaning, SynFound, Feed
<1>2. n \in 1 .. Len(piece)
  BY <1>1, ZBStreamAssumption
<1>3. q \in Seq(Byte) /\ Len(q) = n /\ \A i \in 1 .. n : q[i] = Syn
  BY <1>1, Cut
<1>4. Frames!Run(At(idx, <<>>, 0, ready), q) = At(SynLen, <<>>, 0, ready)
  <2> HIDE DEF q
  <2>1. idx \in Nat /\ idx + n <= SynLen /\ n \in 0 .. Len(q) /\ n \in 0 .. n
    BY <1>1, <1>2, <1>3, ZBStreamAssumption
  <2>2. Frames!Taking(At(idx, <<>>, 0, ready), q)[n] = At(idx + n, <<>>, 0, ready)
    BY <1>3, <2>1, SynRun
  <2> QED
    BY <1>1, <1>3, <2>2 DEF Frames!Run
<1>5. /\ Lacking = 0 /\ Lacking' = 0 /\ idx' = SynLen /\ buf' = buf /\ ready' = ready /\ wrapped' = FALSE
      /\ piece' = Rest(piece, n) /\ handed' = <<>>
  BY <1>1 DEF Lacking, SynFound, Feed
<1>6. Frames!Run(At(idx, buf, Lacking, ready), First(piece, n)) = At(idx', buf', Lacking', ready')
  BY <1>1, <1>4, <1>5
<1> QED
  BY <1>2, <1>5, <1>6, LookSteps

LEMMA SynPartLooks ==
  ASSUME StreamInv, wrapped = FALSE, SynPart
  PROVE  Frames!Next
<1> DEFINE n == Len(piece)
           q == First(piece, n)
<1>1. /\ piece \in Seq(Byte) /\ n \in Nat /\ Feed("init", n) /\ state = "init" /\ piece # <<>>
      /\ buf = <<>> /\ idx \in 0 .. SynLen - 1 /\ idx + n < SynLen /\ \A i \in 1 .. n : piece[i] = Syn
  BY LenProperties, ZBStreamAssumption DEF StreamInv, TypeOK, StateMeaning, SynPart, Feed
<1>2. n \in 1 .. Len(piece)
  BY <1>1, EmptySeq
<1>3. q \in Seq(Byte) /\ Len(q) = n /\ \A i \in 1 .. n : q[i] = Syn
  <2>1. q = piece
    BY <1>1, <1>2, Cut
  <2> HIDE DEF q
  <2> QED
    BY <1>1, <2>1
<1>4. Frames!Run(At(idx, <<>>, 0, ready), q) = At(idx + n, <<>>, 0, ready)
  <2> HIDE DEF q
  <2>1. idx \in Nat /\ idx + n <= SynLen /\ n \in 0 .. Len(q) /\ n \in 0 .. n
    BY <1>1, <1>2, <1>3, ZBStreamAssumption
  <2>2. Frames!Taking(At(idx, <<>>, 0, ready), q)[n] = At(idx + n, <<>>, 0, ready)
    BY <1>3, <2>1, SynRun
  <2> QED
    BY <1>3, <2>2 DEF Frames!Run
<1>5. /\ Lacking = 0 /\ Lacking' = 0 /\ idx' = idx + n /\ buf' = buf /\ ready' = ready /\ wrapped' = FALSE
      /\ piece' = Rest(piece, n) /\ handed' = <<>>
  BY <1>1 DEF Lacking, SynPart, Feed
<1>6. Frames!Run(At(idx, buf, Lacking, ready), First(piece, n)) = At(idx', buf', Lacking', ready')
  BY <1>1, <1>4, <1>5
<1> QED
  BY <1>2, <1>5, <1>6, LookSteps

LEMMA SynLostLooks ==
  ASSUME StreamInv, wrapped = FALSE, NEW n \in 1 .. Len(piece), SynLost(n)
  PROVE  Frames!Next
<1> DEFINE q == First(piece, n)
<1>1. /\ piece \in Seq(Byte) /\ Len(piece) \in Nat /\ Feed("init", n) /\ state = "init"
      /\ buf = <<>> /\ idx \in 0 .. SynLen - 1 /\ idx + n <= SynLen
      /\ \A i \in 1 .. n - 1 : piece[i] = Syn
      /\ piece[n] # Syn
  BY LenProperties, ZBStreamAssumption DEF StreamInv, TypeOK, StateMeaning, SynLost, Feed
<1>2. /\ q \in Seq(Byte) /\ Len(q) = n /\ q # <<>> /\ q[n] # Syn
      /\ \A i \in 1 .. n - 1 : q[i] = Syn
  <2>1. n \in 0 .. Len(piece) /\ n \in 1 .. n /\ \A i \in 1 .. n - 1 : i \in 1 .. n
    BY <1>1
  <2>2. q \in Seq(Byte) /\ Len(q) = n /\ \A i \in 1 .. n : q[i] = piece[i]
    BY <1>1, <2>1, Cut
  <2> HIDE DEF q
  <2> QED
    BY <1>1, <2>1, <2>2, EmptySeq
<1>3. Frames!Run(At(idx, <<>>, 0, ready), q) = At(0, <<>>, 0, ready)
  <2> HIDE DEF q
  <2>1. idx \in Nat /\ idx + (n - 1) <= SynLen /\ n - 1 \in 0 .. Len(q) /\ n - 1 \in 0 .. n - 1
        /\ idx + (n - 1) \in 0 .. SynLen - 1
    BY <1>1, <1>2, ZBStreamAssumption
  <2>2. Frames!Taking(At(idx, <<>>, 0, ready), q)[n - 1] = At(idx + (n - 1), <<>>, 0, ready)
    BY <1>2, <2>1, SynRun
  <2>3. Frames!Take(At(idx + (n - 1), <<>>, 0, ready), q[n]) = At(0, <<>>, 0, ready)
    <3> DEFINE e == q[n]
    <3>1. e # Syn
      BY <1>2
    <3> HIDE DEF e
    <3>2. Frames!Take(At(idx + (n - 1), <<>>, 0, ready), e) = At(0, <<>>, 0, ready)
      BY <2>1, <3>1, TakeSyn
    <3> QED
      BY <3>2 DEF e
  <2> QED
    BY <1>2, <2>2, <2>3, RunEnds
<1>4. /\ Lacking = 0 /\ Lacking' = 0 /\ idx' = 0 /\ buf' = buf /\ ready' = ready /\ wrapped' = FALSE
      /\ piece' = Rest(piece, n) /\ handed' = <<>>
  BY <1>1 DEF Lacking, SynLost, Feed
<1>5. Frames!Run(At(idx, buf, Lacking, ready), First(piece, n)) = At(idx', buf', Lacking', ready')
  BY <1>1, <1>3, <1>4
<1> QED
  BY <1>4, <1>5, LookSteps

LEMMA PartHeadLooks ==
  ASSUME StreamInv, wrapped = FALSE, Partly("head")
  PROVE  Frames!Next
<1> DEFINE n == Len(piece)
           q == First(piece, n)
<1>1. /\ piece \in Seq(Byte) /\ n \in Nat /\ Feed("head", n) /\ state = "head" /\ piece # <<>>
      /\ buf \in Seq(Byte) /\ Len(buf) \in Nat /\ idx = SynLen
      /\ n < expect /\ expect \in Int /\ Len(buf) + expect = MinHeadLen
  BY LenProperties, ZBStreamAssumption DEF StreamInv, TypeOK, StateMeaning, Partly, Feed
<1>2. n \in 1 .. Len(piece)
  BY <1>1, EmptySeq
<1>3. q \in Seq(Byte) /\ Len(q) = n /\ q = piece
  BY <1>1, <1>2, Cut
<1>4. Frames!Run(At(SynLen, buf, 0, ready), q) = At(SynLen, Put(buf, q), 0, ready)
  <2> HIDE DEF q
  <2>1. n \in 0 .. Len(q) /\ n \in 0 .. n /\ Len(buf) + n < MinHeadLen
    BY <1>1, <1>2, <1>3, ZBStreamAssumption
  <2>2. Frames!Taking(At(SynLen, buf, 0, ready), q)[n] = At(SynLen, Put(buf, First(q, n)), 0, ready)
    BY <1>1, <1>3, <2>1, HeadRun
  <2>3. First(q, n) = q
    BY <1>3, <2>1, Cut
  <2> QED
    BY <1>3, <2>2, <2>3 DEF Frames!Run
<1>5. /\ Lacking = 0 /\ Lacking' = 0 /\ idx' = idx /\ buf' = Put(buf, piece) /\ ready' = ready /\ wrapped' = FALSE
      /\ piece' = Rest(piece, n) /\ handed' = <<>>
  BY <1>1 DEF Lacking, Partly, Feed
<1>6. Frames!Run(At(idx, buf, Lacking, ready), First(piece, n)) = At(idx', buf', Lacking', ready')
  BY <1>1, <1>3, <1>4, <1>5
<1> QED
  BY <1>2, <1>5, <1>6, LookSteps

LEMMA PartDataLooks ==
  ASSUME StreamInv, wrapped = FALSE, Partly("data")
  PROVE  Frames!Next
<1> DEFINE n == Len(piece)
           q == First(piece, n)
<1>1. /\ piece \in Seq(Byte) /\ n \in Nat /\ Feed("data", n) /\ state = "data" /\ piece # <<>>
      /\ buf \in Seq(Byte) /\ Len(buf) \in Nat /\ Len(buf) <= BufSize /\ idx = SynLen
      /\ n < expect /\ expect \in Nat /\ Len(buf) >= MinHeadLen
  BY LenProperties, ZBStreamAssumption DEF StreamInv, TypeOK, StateMeaning, Partly, Feed
<1>2. n \in 1 .. Len(piece)
  BY <1>1, EmptySeq
<1>3. q \in Seq(Byte) /\ Len(q) = n /\ q = piece
  BY <1>1, <1>2, Cut
<1>4. Frames!Run(At(SynLen, buf, expect, ready), q) = At(SynLen, Put(buf, q), expect - n, ready)
  <2> HIDE DEF q
  <2>1. n \in 0 .. Len(q) /\ n \in 0 .. n
    BY <1>1, <1>2, <1>3
  <2>2. Frames!Taking(At(SynLen, buf, expect, ready), q)[n] = At(SynLen, Put(buf, First(q, n)), expect - n, ready)
    BY <1>1, <1>3, <2>1, DataRun
  <2>3. First(q, n) = q
    BY <1>3, <2>1, Cut
  <2> QED
    BY <1>3, <2>2, <2>3 DEF Frames!Run
<1>5. /\ Lacking = expect /\ Lacking' = expect - n /\ idx' = idx /\ buf' = Put(buf, piece) /\ ready' = ready
      /\ wrapped' = FALSE /\ piece' = Rest(piece, n) /\ handed' = <<>>
  BY <1>1 DEF Lacking, Partly, Feed
<1>6. Frames!Run(At(idx, buf, Lacking, ready), First(piece, n)) = At(idx', buf', Lacking', ready')
  BY <1>1, <1>3, <1>4, <1>5
<1> QED
  BY <1>2, <1>5, <1>6, LookSteps

LEMMA HeadLooks ==
  ASSUME StreamInv, wrapped = FALSE, HeadComplete
  PROVE  Frames!Next
<1> DEFINE n == expect
           q == First(piece, n)
           r == n - 1
           length == buf'[2] * Base + buf'[3]
<1>1. /\ piece \in Seq(Byte) /\ Len(piece) \in Nat /\ Feed("head", n) /\ state = "head"
      /\ buf \in Seq(Byte) /\ Len(buf) \in Nat /\ Len(buf) <= BufSize /\ idx = SynLen
      /\ n \in 1 .. Len(piece) /\ Len(buf) + n = MinHeadLen
  BY HeadTells, LenProperties, ZBStreamAssumption DEF StreamInv, TypeOK, StateMeaning, HeadComplete, Feed
<1>2. q \in Seq(Byte) /\ Len(q) = n /\ q # <<>>
  <2>1. n \in 0 .. Len(piece)
    BY <1>1
  <2>2. q \in Seq(Byte) /\ Len(q) = n
    BY <1>1, <2>1, Cut
  <2> HIDE DEF q
  <2> QED
    BY <1>1, <2>2, EmptySeq
<1>3. buf' = Put(buf, q) /\ length \in Nat
  BY HeadTells DEF HeadComplete
<1> DEFINE f == Put(buf, First(q, r))
           e == q[n]
<1>4. /\ f \in Seq(Byte) /\ Len(f) = MinHeadLen - 1 /\ e \in Byte
      /\ buf' = Append(f, e)
  <2>1. r \in 0 .. Len(q) /\ r \in 0 .. Len(q) - 1 /\ n \in 1 .. Len(q) /\ r + 1 = n
    BY <1>1, <1>2
  <2> HIDE DEF q
  <2>2. e \in Byte /\ First(q, r) \in Seq(Byte) /\ Len(First(q, r)) = r
    BY <1>2, <2>1, ElementOfSeq, Cut
  <2>3. f \in Seq(Byte) /\ Len(f) = MinHeadLen - 1
    <3>1. Len(buf) + r = MinHeadLen - 1 /\ Len(buf) + r <= BufSize
      BY <1>1, ZBStreamAssumption
    <3> HIDE DEF r
    <3> QED
      BY <1>1, <2>2, <3>1, PutFits
  <2>4. Put(buf, First(q, r + 1)) = Frames!Kept(f, q[r + 1])
    BY <1>1, <1>2, <2>1, PutByte
  <2>5. Frames!Kept(f, e) = Append(f, e)
    <3>1. Len(f) < BufSize
      <4> HIDE DEF f
      <4> QED
        BY <2>3, ZBStreamAssumption
    <3> QED
      BY <3>1 DEF Frames!Kept
  <2>6. First(q, n) = q
    BY <1>2, <2>1, Cut
  <2> QED
    BY <1>3, <2>1, <2>2, <2>3, <2>4, <2>5, <2>6
<1>5. Frames!Run(At(SynLen, buf, 0, ready), q) = Frames!Take(At(SynLen, f, 0, ready), e)
  <2> HIDE DEF q
  <2>1. r \in 0 .. Len(q) /\ r \in 0 .. r /\ Len(buf) + r < MinHeadLen
    BY <1>1, <1>2, ZBStreamAssumption
  <2>2. Frames!Taking(At(SynLen, buf, 0, ready), q)[r] = At(SynLen, f, 0, ready)
    <3> HIDE DEF r
    <3> QED
      BY <1>1, <1>2, <2>1, HeadRun
  <2> QED
    BY <1>2, <2>2, RunEnds
<1> HIDE DEF f, e
<1>6. Frames!Take(At(SynLen, f, 0, ready), e)
        = IF length + HeadLen >= Base * Base THEN ReadingState(0, <<>>, 0, <<>>, Unsound)
          ELSE At(SynLen, buf', length + HeadLen - MinHeadLen, ready)
  BY <1>4, TakeLength
<1>7. /\ Lacking = 0 /\ idx' = idx /\ ready' = ready /\ state' = "data"
      /\ piece' = Rest(piece, n) /\ handed' = <<>>
      /\ expect' = ((length + HeadLen) % (Base * Base)) - MinHeadLen
      /\ wrapped' = ((length + HeadLen) % (Base * Base) # length + HeadLen)
  BY <1>1 DEF Lacking, HeadComplete, Feed
<1>8. (length + HeadLen) % (Base * Base) = length + HeadLen <=> length + HeadLen < Base * Base
  BY HeadTells
<1>9. length \in Nat /\ length + HeadLen \in Nat /\ Base * Base \in Nat
  BY <1>3, ZBStreamAssumption
<1> HIDE DEF length
<1>10. length + HeadLen >= Base * Base <=> ~ (length + HeadLen < Base * Base)
  <2> DEFINE x == length + HeadLen
             w == Base * Base
  <2>1. x \in Nat /\ w \in Nat
    BY <1>9
  <2> HIDE DEF x, w
  <2>2. x >= w <=> ~ (x < w)
    BY <2>1
  <2> QED
    BY <2>2 DEF x, w
<1>11. CASE length + HeadLen >= Base * Base
  <2>1. (length + HeadLen) % (Base * Base) # length + HeadLen
    BY <1>8, <1>10, <1>11
  <2>2. wrapped' = TRUE
    BY <1>7, <2>1
  <2>3. Frames!Run(At(idx, buf, Lacking, ready), First(piece, n)) = ReadingState(0, <<>>, 0, <<>>, Unsound)
    BY <1>1, <1>5, <1>6, <1>7, <1>11
  <2> QED
    BY <1>1, <1>7, <2>2, <2>3, LookBreaks
<1>12. CASE length + HeadLen < Base * Base
  <2> DEFINE told == (length + HeadLen) % (Base * Base)
  <2>1. told = length + HeadLen
    BY <1>8, <1>12
  <2>2. wrapped' = (told # length + HeadLen)
    BY <1>7
  <2>3. expect' = told - MinHeadLen
    BY <1>7
  <2> HIDE DEF told
  <2>4. expect' = length + HeadLen - MinHeadLen
    BY <1>9, <2>1, <2>3, ZBStreamAssumption
  <2>5. (told # length + HeadLen) = FALSE
    BY <2>1
  <2>6. wrapped' = FALSE /\ expect' = length + HeadLen - MinHeadLen
    BY <2>2, <2>4, <2>5
  <2>7. Lacking' = length + HeadLen - MinHeadLen
    BY <1>7, <2>6 DEF Lacking
  <2>8. Frames!Run(At(idx, buf, Lacking, ready), First(piece, n)) = At(idx', buf', Lacking', ready')
    BY <1>1, <1>5, <1>6, <1>7, <1>10, <1>12, <2>7
  <2> QED
    BY <1>1, <1>7, <2>6, <2>8, LookSteps
<1> QED
  BY <1>10, <1>11, <1>12

LEMMA FrameLooks ==
  ASSUME StreamInv, wrapped = FALSE, FrameComplete
  PROVE  Frames!Next
<1> DEFINE n == expect
           q == First(piece, n)
           r == n - 1
<1>1. /\ piece \in Seq(Byte) /\ Len(piece) \in Nat /\ Feed("data", n) /\ state = "data"
      /\ buf \in Seq(Byte) /\ Len(buf) \in Nat /\ Len(buf) <= BufSize /\ idx = SynLen
      /\ n \in 1 .. Len(piece) /\ Len(buf) >= MinHeadLen
  BY LenProperties, ZBStreamAssumption DEF StreamInv, TypeOK, StateMeaning, FrameComplete, Feed
<1>2. q \in Seq(Byte) /\ Len(q) = n /\ q # <<>>
  <2>1. n \in 0 .. Len(piece)
    BY <1>1
  <2>2. q \in Seq(Byte) /\ Len(q) = n
    BY <1>1, <2>1, Cut
  <2> HIDE DEF q
  <2> QED
    BY <1>1, <2>2, EmptySeq
<1> DEFINE f == Put(buf, First(q, r))
           e == q[n]
<1>3. /\ f \in Seq(Byte) /\ Len(f) >= MinHeadLen /\ e \in Byte
      /\ Put(buf, q) = Frames!Kept(f, e)
  <2>1. r \in 0 .. Len(q) /\ r \in 0 .. Len(q) - 1 /\ n \in 1 .. Len(q) /\ r + 1 = n /\ n \in 0 .. Len(q)
    BY <1>1, <1>2
  <2> HIDE DEF q
  <2>2. e \in Byte /\ First(q, r) \in Seq(Byte) /\ Len(First(q, r)) = r
    BY <1>2, <2>1, ElementOfSeq, Cut
  <2>3. f \in Seq(Byte) /\ Len(f) >= MinHeadLen
    <3>1. /\ f \in Seq(Byte)
          /\ Len(f) = IF Len(buf) + r <= BufSize THEN Len(buf) + r ELSE BufSize
      BY <1>1, <2>2, PutFits
    <3> HIDE DEF f
    <3> QED
      BY <1>1, <2>1, <3>1, ZBStreamAssumption
  <2>4. Put(buf, First(q, r + 1)) = Frames!Kept(f, q[r + 1])
    BY <1>1, <1>2, <2>1, PutByte
  <2>5. First(q, n) = q
    BY <1>2, <2>1, Cut
  <2> QED
    BY <2>1, <2>2, <2>3, <2>4, <2>5
<1>4. Frames!Run(At(SynLen, buf, n, ready), q) = Frames!Take(At(SynLen, f, 1, ready), e)
  <2> HIDE DEF q
  <2>1. r \in 0 .. Len(q) /\ r \in 0 .. r /\ r < n /\ n \in Nat /\ n - r = 1
    BY <1>1, <1>2
  <2>2. Frames!Taking(At(SynLen, buf, n, ready), q)[r] = At(SynLen, f, n - r, ready)
    <3> HIDE DEF r
    <3> QED
      BY <1>1, <1>2, <2>1, DataRun
  <2> QED
    BY <1>2, <2>1, <2>2, RunEnds
<1>5. Frames!Take(At(SynLen, f, 1, ready), e) = ReadingState(0, <<>>, 0, Append(ready, Put(buf, q)), Sound)
  <2>1. PICK one : one = 1
    OBVIOUS
  <2> HIDE DEF f, e
  <2>2. Frames!Take(At(SynLen, f, one, ready), e) = ReadingState(0, <<>>, 0, Append(ready, Frames!Kept(f, e)), Sound)
    BY <1>3, <2>1, TakeEnd
  <2> QED
    BY <1>3, <2>1, <2>2
<1>6. /\ Lacking = n /\ idx' = 0 /\ ready' = Append(ready, Put(buf, q)) /\ buf' = <<>> /\ Lacking' = 0
      /\ piece' = Rest(piece, n) /\ handed' = <<>> /\ wrapped' = FALSE
  BY <1>1 DEF Lacking, FrameComplete, Feed
<1> HIDE DEF f, e, q
<1>7. At(idx', buf', Lacking', ready') = ReadingState(0, <<>>, 0, Append(ready, Put(buf, q)), Sound)
  BY <1>6 DEF At
<1>8. Frames!Run(At(idx, buf, Lacking, ready), First(piece, n)) = At(idx', buf', Lacking', ready')
  BY <1>1, <1>4, <1>5, <1>6, <1>7 DEF q
<1> QED
  BY <1>1, <1>6, <1>8, LookSteps

LEMMA ReceiveArrives ==
  ASSUME StreamInv, wrapped = FALSE, NEW p \in Pieces, Receive(p)
  PROVE  Frames!Next
<1>1. p \in Frames!Pieces
  BY DEF Pieces, Frames!Pieces
<1>2. Frames!Arrive(p)
  <2>1. wrapped' = FALSE /\ ~ wrapped /\ UNCHANGED <<state, idx, expect, buf, ready, wrapped>>
    BY DEF Receive
  <2>2. piece = <<>> /\ ready = <<>> /\ piece' = p /\ handed' = <<>>
    BY DEF Receive
  <2> QED
    BY <2>1, <2>2 DEF Frames!Arrive
<1> QED
  BY <1>1, <1>2 DEF Frames!Next

LEMMA ReadHands ==
  ASSUME StreamInv, wrapped = FALSE, Read
  PROVE  Frames!Next
<1>1. /\ piece = <<>> /\ ready # <<>> /\ ready \in Seq(Seq(Byte))
      /\ UNCHANGED <<state, idx, expect, buf, piece, wrapped>>
  BY DEF StreamInv, TypeOK, Read
<1>2. Head(ready) \in Seq(Byte) /\ Len(Head(ready)) \in Nat
  BY <1>1, HeadTailProperties, LenProperties
<1> DEFINE f == Head(ready)
           n == IF Len(f) < ReadSize THEN Len(f) ELSE ReadSize
<1>3. /\ handed' = SubSeq(f, 1, n)
      /\ ready' = IF n = Len(f) THEN Tail(ready) ELSE <<SubSeq(f, n + 1, Len(f))>> \o Tail(ready)
  <2>1. CASE Len(f) > ReadSize /\ handed' = First(f, ReadSize)
             /\ ready' = <<Rest(f, ReadSize)>> \o Tail(ready)
    <3>1. n = ReadSize /\ n # Len(f)
      BY <1>2, <2>1, ZBStreamAssumption
    <3> QED
      BY <2>1, <3>1 DEF First, Rest
  <2>2. CASE Len(f) <= ReadSize /\ handed' = f /\ ready' = Tail(ready)
    <3>1. n = Len(f)
      BY <1>2, <2>2, ZBStreamAssumption
    <3>2. SubSeq(f, 1, Len(f)) = f
      <4> HIDE DEF f
      <4> QED
        BY <1>2, SubSeqFull DEF f
    <3> QED
      BY <2>2, <3>1, <3>2
  <2> QED
    BY <2>1, <2>2 DEF Read
<1>4. Frames!Hand
  <2>1. wrapped' = FALSE /\ ~ wrapped
    BY <1>1
  <2> QED
    BY <1>1, <1>3, <2>1 DEF Frames!Hand
<1> QED
  BY <1>4 DEF Frames!Next

LEMMA StepReads ==
  ASSUME StreamInv, [Next]_vars
  PROVE  [Frames!Next]_(Frames!vars)
<1>1. CASE UNCHANGED vars
  BY <1>1 DEF vars, Frames!vars
<1>2. CASE Next /\ wrapped = TRUE
  BY <1>2, WrappedStutters
<1>3. CASE Next /\ wrapped = FALSE
  <2>1. ASSUME NEW p \in Pieces, Receive(p)
        PROVE  Frames!Next
    BY <1>3, <2>1, ReceiveArrives
  <2>2. ASSUME NEW n \in 0 .. Len(piece), SynFound(n)
        PROVE  Frames!Next
    BY <1>3, <2>2, SynFoundLooks
  <2>3. ASSUME NEW n \in 1 .. Len(piece), SynLost(n)
        PROVE  Frames!Next
    BY <1>3, <2>3, SynLostLooks
  <2>4. ASSUME NegativeCopy
        PROVE  FALSE
    <3>1. state = "data" /\ expect < 0 /\ expect \in Int
      BY <2>4, ZBStreamAssumption DEF NegativeCopy, Feed, StreamInv, TypeOK
    <3> QED
      BY <1>3, <3>1 DEF StreamInv, StateMeaning
  <2> QED
    BY <1>3, <2>1, <2>2, <2>3, <2>4, SynPartLooks, PartHeadLooks, PartDataLooks, HeadLooks,
       FrameLooks, ReadHands DEF Next
<1> QED
  BY <1>1, <1>2, <1>3 DEF StreamInv, TypeOK

(* However the port's bytes are divided into reads, and whatever they are, *)
(* feed() and read() give the handler what reading them one by one gives:  *)
(* the frames in order, each once, cut only to the sizes of the buffers,   *)
(* as long as no length wraps.                                             *)
THEOREM StreamImplementsFrames == Spec => ImplementsFrames
<1>1. Init => Frames!Init
  BY DEF Init, Frames!Init
<1>2. StreamInv /\ [Next]_vars => [Frames!Next]_(Frames!vars)
  BY StepReads
<1> QED
  BY StreamInit, StreamInductive, <1>1, <1>2, PTL DEF Spec, ImplementsFrames, Frames!Spec
=============================================================================
