-------------------------- MODULE DataStreamProofs --------------------------
(***************************************************************************)
(* Proofs about DataStream, for any bytes, any data and any bound: the     *)
(* read position stays inside the vector, and the stream implements the    *)
(* queue of bytes of ByteQueue, call by call.                              *)
(***************************************************************************)
EXTENDS DataStream, SequenceTheorems, TLAPS

(* The invariant: with the types of the vector and the position, which     *)
(* every call computes with, the position stays inside by itself.          *)
Vector(v, p) == v \in Seq(Byte) /\ p \in Nat /\ p <= Len(v)
VectorInv == Vector(vch, nReadPos)

(* Parts of a sequence, as the calls cut it.                               *)
LEMMA CutType ==
  ASSUME NEW s \in Seq(Byte), NEW n \in Nat, n <= Len(s)
  PROVE  /\ First(s, n) \in Seq(Byte) /\ Len(First(s, n)) = n
         /\ After(s, n) \in Seq(Byte) /\ Len(After(s, n)) = Len(s) - n
  BY DEF First, After

(* Sequences of bytes put one behind the other.                            *)
LEMMA JoinType ==
  ASSUME NEW s \in Seq(Byte), NEW t \in Seq(Byte)
  PROVE  s \o t \in Seq(Byte) /\ Len(s \o t) = Len(s) + Len(t)
  OBVIOUS

(* Copies of one byte.                                                     *)
LEMMA CopiesType ==
  ASSUME NEW n \in Nat, NEW b \in Byte
  PROVE  Copies(n, b) \in Seq(Byte) /\ Len(Copies(n, b)) = n
<1>1. Copies(n, b) \in [1 .. n -> Byte]
  BY DEF Copies
<1> QED
  BY <1>1

(* A call that leaves both variables alone, or clears the vector.          *)
LEMMA KeptOrCleared ==
  ASSUME VectorInv, UNCHANGED <<vch, nReadPos>> \/ Cleared
  PROVE  VectorInv'
<1>1. CASE UNCHANGED <<vch, nReadPos>>
  BY <1>1 DEF VectorInv, Vector
<1>2. CASE Cleared
  <2>1. <<>> \in Seq(Byte) /\ Len(<<>>) = 0
    OBVIOUS
  <2> QED
    BY <1>2, <2>1 DEF Cleared, VectorInv, Vector
<1> QED
  BY <1>1, <1>2

(* The vector grows at its end and the position stays.                     *)
LEMMA Grows ==
  ASSUME VectorInv, NEW data \in Seq(Byte), vch' = vch \o data, nReadPos' = nReadPos
  PROVE  VectorInv'
  BY JoinType DEF VectorInv, Vector
-----------------------------------------------------------------------------
(* Every call of the stream subset keeps the invariant.                    *)
LEMMA StreamSubsetKeeps == VectorInv /\ StreamSubset => VectorInv'
<1> SUFFICES ASSUME VectorInv, StreamSubset PROVE VectorInv'
  OBVIOUS
<1>1. vch \in Seq(Byte) /\ Len(vch) \in Nat /\ nReadPos \in Nat /\ nReadPos <= Len(vch)
  BY DEF VectorInv, Vector
<1>2. ASSUME NEW n \in 0 .. MaxLength, Advance(n) PROVE VectorInv'
  <2>1. n \in Nat
    BY StreamAssumption
  <2>2. CASE nReadPos + n < Len(vch)
    BY <1>1, <1>2, <2>1, <2>2 DEF Advance, VectorInv, Vector
  <2>3. CASE ~ (nReadPos + n < Len(vch))
    BY <1>2, <2>3, KeptOrCleared DEF Advance
  <2> QED
    BY <2>2, <2>3
<1>3. ASSUME NEW data \in Data, write(data) PROVE VectorInv'
  BY <1>3, Grows, StreamAssumption DEF write
<1>4. ASSUME NEW n \in 0 .. MaxLength, read(n) \/ ignore(n) PROVE VectorInv'
  BY <1>4, <1>2 DEF read, ignore
<1>5. ASSUME NEW n \in 0 .. MaxLength, Rewind(n) PROVE VectorInv'
  <2>1. n \in Nat
    BY StreamAssumption
  <2>2. vch' = vch /\ nReadPos' = IF n > nReadPos THEN nReadPos ELSE nReadPos - n
    BY <1>5 DEF Rewind
  <2> QED
    BY <1>1, <2>1, <2>2 DEF VectorInv, Vector
<1>6. ASSUME Compact PROVE VectorInv'
  BY <1>1, <1>6, CutType DEF Compact, VectorInv, Vector
<1>7. ASSUME NEW bit \in BOOLEAN, clearState(bit) \/ exceptions(bit) PROVE VectorInv'
  BY <1>7, KeptOrCleared DEF clearState, exceptions
<1>8. ASSUME NEW other \in Others, plus(other) \/ stream(other) PROVE VectorInv'
  <2>1. /\ other.vch \in Seq(Byte) /\ other.nReadPos \in Nat
        /\ other.nReadPos <= Len(other.vch)
    BY StreamAssumption DEF StreamType
  <2>2. After(other.vch, other.nReadPos) \in Seq(Byte)
    BY <2>1, CutType
  <2> QED
    BY <1>8, <2>1, <2>2, Grows DEF plus, stream
<1> QED
  BY <1>3, <1>4, <1>5, <1>6, <1>7, <1>8 DEF StreamSubset

(* Every call of the vector subset keeps the invariant.                    *)
LEMMA VectorSubsetKeeps == VectorInv /\ VectorSubset => VectorInv'
<1> SUFFICES ASSUME VectorInv, VectorSubset PROVE VectorInv'
  OBVIOUS
<1>1. vch \in Seq(Byte) /\ Len(vch) \in Nat /\ nReadPos \in Nat /\ nReadPos <= Len(vch)
  BY DEF VectorInv, Vector
<1>2. size \in Nat /\ Len(vch) = nReadPos + size
  BY <1>1 DEF size
<1>3. ASSUME clear PROVE VectorInv'
  BY <1>3, KeptOrCleared DEF clear
<1>4. ASSUME NEW n \in 0 .. MaxLength, resize(n) PROVE VectorInv'
  <2>1. n \in Nat
    BY StreamAssumption
  <2>2. nReadPos' = nReadPos
    BY <1>4 DEF resize
  <2>3. CASE n <= size
    <3>1. /\ First(vch, n + nReadPos) \in Seq(Byte)
          /\ Len(First(vch, n + nReadPos)) = n + nReadPos
      BY <1>1, <1>2, <2>1, <2>3, CutType
    <3>2. vch' = First(vch, n + nReadPos)
      BY <1>4, <2>3 DEF resize
    <3> QED
      BY <1>1, <2>1, <2>2, <3>1, <3>2 DEF VectorInv, Vector
  <2>4. CASE ~ (n <= size)
    <3>1. Zeros(n - size) \in Seq(Byte)
      BY <1>2, <2>1, <2>4, CopiesType, StreamAssumption DEF Zeros
    <3>2. vch' = vch \o Zeros(n - size)
      BY <1>4, <2>4 DEF resize
    <3> QED
      BY <2>2, <3>1, <3>2, Grows
  <2> QED
    BY <2>3, <2>4
<1>5. ASSUME NEW pos \in 0 .. size, NEW n \in 0 .. 2, NEW b \in Byte, insert(pos, n, b)
      PROVE  VectorInv'
  <2> DEFINE front == First(vch, nReadPos + pos)
             back  == After(vch, nReadPos + pos)
  <2>1. /\ front \in Seq(Byte) /\ Len(front) = nReadPos + pos
        /\ back \in Seq(Byte)
    BY <1>1, <1>2, CutType
  <2>2. Copies(n, b) \in Seq(Byte) /\ Len(Copies(n, b)) = n
    BY CopiesType
  <2>3. vch' = front \o Copies(n, b) \o back /\ nReadPos' = nReadPos
    BY <1>5 DEF insert
  <2> HIDE DEF front, back
  <2>4. /\ front \o Copies(n, b) \o back \in Seq(Byte)
        /\ Len(front \o Copies(n, b) \o back) >= Len(front)
    BY <2>1, <2>2, JoinType
  <2> QED
    BY <1>1, <2>1, <2>3, <2>4 DEF VectorInv, Vector
<1>6. ASSUME NEW pos \in 0 .. size, NEW data \in Data, insertRange(pos, data)
      PROVE  VectorInv'
  <2>1. data \in Seq(Byte) /\ Len(data) \in Nat
    BY StreamAssumption
  <2>2. CASE pos = 0 /\ Len(data) <= nReadPos
    <3> DEFINE front == First(vch, nReadPos - Len(data))
               back  == After(vch, nReadPos)
    <3>1. /\ front \in Seq(Byte) /\ Len(front) = nReadPos - Len(data)
          /\ back \in Seq(Byte)
      <4>1. nReadPos - Len(data) \in Nat /\ nReadPos - Len(data) <= Len(vch)
        BY <1>1, <2>1, <2>2
      <4> QED
        BY <1>1, <4>1, CutType
    <3>2. vch' = front \o data \o back /\ nReadPos' = nReadPos - Len(data)
      BY <1>6, <2>2 DEF insertRange
    <3> HIDE DEF front, back
    <3>3. /\ front \o data \o back \in Seq(Byte)
          /\ Len(front \o data \o back) >= Len(front)
      BY <2>1, <3>1, JoinType
    <3> QED
      BY <1>1, <2>1, <2>2, <3>1, <3>2, <3>3 DEF VectorInv, Vector
  <2>3. CASE ~ (pos = 0 /\ Len(data) <= nReadPos)
    BY <1>6, <2>1, <2>3, Grows DEF insertRange
  <2> QED
    BY <2>2, <2>3
<1>7. ASSUME NEW i \in 0 .. size, NEW j \in i .. size, i > 0,
             vch' = First(vch, nReadPos + i) \o After(vch, nReadPos + j),
             nReadPos' = nReadPos
      PROVE  VectorInv'
  <2>1. /\ First(vch, nReadPos + i) \in Seq(Byte)
        /\ Len(First(vch, nReadPos + i)) = nReadPos + i
        /\ After(vch, nReadPos + j) \in Seq(Byte)
    BY <1>1, <1>2, CutType
  <2>2. vch' \in Seq(Byte) /\ Len(vch') >= nReadPos + i
    BY <1>7, <2>1, JoinType
  <2> QED
    BY <1>1, <1>7, <2>2 DEF VectorInv, Vector
<1>8. ASSUME NEW pos \in 0 .. size, eraseAt(pos) PROVE VectorInv'
  <2>1. pos < size
    BY <1>8 DEF eraseAt
  <2>2. CASE pos > 0
    <3>1. pos + 1 \in pos .. size /\ nReadPos + pos + 1 = nReadPos + (pos + 1)
      BY <1>1, <1>2, <2>1
    <3>2. /\ vch' = First(vch, nReadPos + pos) \o After(vch, nReadPos + (pos + 1))
          /\ nReadPos' = nReadPos
      BY <1>8, <2>2, <3>1 DEF eraseAt
    <3> QED
      BY <1>7, <2>2, <3>1, <3>2
  <2>3. CASE ~ (pos > 0) /\ nReadPos + 1 >= Len(vch)
    BY <1>8, <2>3, KeptOrCleared DEF eraseAt
  <2>4. CASE ~ (pos > 0) /\ ~ (nReadPos + 1 >= Len(vch))
    <3>1. vch' = vch /\ nReadPos' = nReadPos + 1
      BY <1>8, <2>4 DEF eraseAt
    <3> QED
      BY <1>1, <2>4, <3>1 DEF VectorInv, Vector
  <2> QED
    BY <2>2, <2>3, <2>4
<1>9. ASSUME NEW i \in 0 .. size, NEW j \in i .. size, erase(i, j) PROVE VectorInv'
  <2>1. CASE i > 0
    BY <1>7, <1>9, <2>1 DEF erase
  <2>2. CASE ~ (i > 0) /\ j = size
    BY <1>9, <2>2, KeptOrCleared DEF erase
  <2>3. CASE ~ (i > 0) /\ j # size
    <3>1. vch' = vch /\ nReadPos' = nReadPos + j
      BY <1>9, <2>3 DEF erase
    <3> QED
      BY <1>1, <1>2, <3>1 DEF VectorInv, Vector
  <2> QED
    BY <2>1, <2>2, <2>3
<1> QED
  BY <1>3, <1>4, <1>5, <1>6, <1>8, <1>9 DEF VectorSubset

(* The invariant holds after any sequence of calls of both subsets. *)
LEMMA VectorAlways == Spec => []VectorInv
<1>1. Init => VectorInv
  <2> SUFFICES ASSUME Init PROVE VectorInv
    OBVIOUS
  <2>1. vch \in Seq(Byte) /\ nReadPos = 0
    BY StreamAssumption DEF Init
  <2> QED
    BY <2>1 DEF VectorInv, Vector
<1>2. VectorInv /\ [Next]_vars => VectorInv'
  <2>1. VectorInv /\ UNCHANGED vars => VectorInv'
    BY KeptOrCleared DEF vars
  <2> QED
    BY <2>1, StreamSubsetKeeps, VectorSubsetKeeps DEF Next
<1> QED
  BY <1>1, <1>2, PTL DEF Spec

(* The read position of a CDataStream never leaves its vector, for any     *)
(* bytes and any sequence of calls of both subsets.                        *)
THEOREM PositionStaysInside == Spec => []PositionInside
<1>1. VectorInv => PositionInside
  BY DEF VectorInv, Vector, PositionInside
<1> QED
  BY <1>1, VectorAlways, PTL
-----------------------------------------------------------------------------
(* How the parts of a sequence fit together: it is what it begins with and *)
(* what comes after that.                                                  *)
LEMMA SplitSeq ==
  ASSUME NEW s \in Seq(Byte), NEW n \in Nat, n <= Len(s)
  PROVE  s = First(s, n) \o After(s, n)
<1> DEFINE f == First(s, n)
           a == After(s, n)
<1>1. /\ f \in Seq(Byte) /\ Len(f) = n /\ a \in Seq(Byte) /\ Len(a) = Len(s) - n
      /\ Len(s) \in Nat
  BY CutType
<1>2. \A i \in 1 .. n : f[i] = s[i]
  BY SubSeqProperties, LenProperties DEF First
<1>3. \A i \in 1 .. Len(s) - n : a[i] = s[n + i]
  BY SubSeqProperties, LenProperties DEF After
<1> HIDE DEF f, a
<1>4. /\ f \o a \in Seq(Byte) /\ Len(f \o a) = Len(s)
      /\ \A i \in 1 .. Len(s) : (f \o a)[i] = IF i <= n THEN f[i] ELSE a[i - n]
  BY <1>1, ConcatProperties
<1>5. \A i \in 1 .. Len(s) : (f \o a)[i] = s[i]
  <2> SUFFICES ASSUME NEW i \in 1 .. Len(s) PROVE (f \o a)[i] = s[i]
    OBVIOUS
  <2>1. CASE i <= n
    BY <1>2, <1>4, <2>1
  <2>2. CASE ~ (i <= n)
    <3>1. i - n \in 1 .. Len(s) - n /\ n + (i - n) = i
      BY <1>1, <2>2
    <3> QED
      BY <1>3, <1>4, <2>2, <3>1
  <2> QED
    BY <2>1, <2>2
<1> QED
  BY <1>4, <1>5, SeqEqual DEF f, a

(* Two sequences put together come apart again where they were joined.     *)
LEMMA Unsplit ==
  ASSUME NEW b \in Seq(Byte), NEW c \in Seq(Byte)
  PROVE  First(b \o c, Len(b)) = b /\ After(b \o c, Len(b)) = c
<1> DEFINE s == b \o c
           n == Len(b)
<1>1. /\ s \in Seq(Byte) /\ Len(s) = n + Len(c) /\ n \in Nat /\ Len(c) \in Nat
      /\ \A i \in 1 .. n : s[i] = b[i]
      /\ \A i \in 1 .. Len(c) : s[n + i] = c[i]
  BY ConcatProperties, LenProperties
<1> HIDE DEF s, n
<1>2. /\ First(s, n) \in Seq(Byte) /\ Len(First(s, n)) = n
      /\ After(s, n) \in Seq(Byte) /\ Len(After(s, n)) = Len(c)
  BY <1>1, CutType
<1>3. \A i \in 1 .. n : First(s, n)[i] = b[i]
  BY <1>1, SubSeqProperties DEF First
<1>4. \A i \in 1 .. Len(c) : After(s, n)[i] = c[i]
  BY <1>1, SubSeqProperties DEF After
<1>5. First(s, n) = b
  BY <1>2, <1>3, SeqEqual DEF n
<1>6. After(s, n) = c
  BY <1>2, <1>4, SeqEqual
<1> QED
  BY <1>5, <1>6 DEF s, n

(* Nothing, and all, of a sequence.                                        *)
LEMMA NoneOrAll ==
  ASSUME NEW s \in Seq(Byte)
  PROVE  /\ First(s, 0) = <<>> /\ After(s, 0) = s
         /\ First(s, Len(s)) = s /\ After(s, Len(s)) = <<>>
<1>1. <<>> \in Seq(Byte) /\ Len(<<>>) = 0 /\ s \o <<>> = s /\ <<>> \o s = s
  BY ConcatEmptySeq
<1>2. First(<<>> \o s, 0) = <<>> /\ After(<<>> \o s, 0) = s
  BY <1>1, Unsplit
<1>3. First(s \o <<>>, Len(s)) = s /\ After(s \o <<>>, Len(s)) = <<>>
  BY <1>1, Unsplit
<1> QED
  BY <1>1, <1>2, <1>3

(* No copies of a byte are no bytes. *)
LEMMA NoCopies == \A b : Copies(0, b) = <<>>
  BY DEF Copies

(* Cutting p bytes off and n of what is left is cutting p + n bytes off.   *)
LEMMA CutTwice ==
  ASSUME NEW s \in Seq(Byte), NEW p \in Nat, NEW n \in Nat, p + n <= Len(s)
  PROVE  /\ First(s, p + n) = First(s, p) \o First(After(s, p), n)
         /\ After(s, p + n) = After(After(s, p), n)
<1> DEFINE b == First(s, p)
           c == After(s, p)
           f == First(c, n)
           a == After(c, n)
<1>1. b \in Seq(Byte) /\ Len(b) = p /\ c \in Seq(Byte) /\ Len(c) = Len(s) - p
  BY CutType
<1>2. s = b \o c
  BY SplitSeq
<1> HIDE DEF b, c
<1>3. f \in Seq(Byte) /\ Len(f) = n /\ a \in Seq(Byte) /\ c = f \o a
  BY <1>1, CutType, SplitSeq
<1> HIDE DEF f, a
<1>4. /\ b \o f \in Seq(Byte) /\ Len(b \o f) = p + n
      /\ s = (b \o f) \o a
  <2>0. b \in Seq(Byte) /\ f \in Seq(Byte) /\ a \in Seq(Byte)
    BY <1>1, <1>3
  <2>1. (b \o f) \o a = b \o (f \o a)
    BY <2>0, ConcatAssociative
  <2> QED
    BY <1>1, <1>2, <1>3, <2>1, JoinType
<1> DEFINE q == b \o f
<1>5. q = b \o f
  OBVIOUS
<1> HIDE DEF q
<1>6. First(s, p + n) = q /\ After(s, p + n) = a
  BY <1>3, <1>4, <1>5, Unsplit
<1> QED
  BY <1>5, <1>6 DEF a, f, b, c
-----------------------------------------------------------------------------
(* The state of the queue that a state of the stream stands for.           *)
Behind == First(vch, nReadPos)

(* The two parts, their types and lengths. *)
LEMMA Parts ==
  ASSUME VectorInv
  PROVE  /\ vch \in Seq(Byte) /\ nReadPos \in Nat /\ size \in Nat
         /\ Len(vch) = nReadPos + size
         /\ Behind \in Seq(Byte) /\ Len(Behind) = nReadPos
         /\ Content \in Seq(Byte) /\ Len(Content) = size
         /\ vch = Behind \o Content
<1>1. vch \in Seq(Byte) /\ nReadPos \in Nat /\ nReadPos <= Len(vch) /\ Len(vch) \in Nat
  BY DEF VectorInv, Vector
<1>2. size \in Nat /\ Len(vch) = nReadPos + size /\ size = Len(vch) - nReadPos
  BY <1>1 DEF size
<1>3. /\ Behind \in Seq(Byte) /\ Len(Behind) = nReadPos
      /\ Content \in Seq(Byte) /\ Len(Content) = Len(vch) - nReadPos
  BY <1>1, CutType DEF Behind, Content
<1>4. vch = Behind \o Content
  BY <1>1, SplitSeq DEF Behind, Content
<1> QED
  BY <1>1, <1>2, <1>3, <1>4

(* The queue after a call, read off the vector that the call has made.     *)
LEMMA Parted ==
  ASSUME NEW b \in Seq(Byte), NEW c \in Seq(Byte), vch' = b \o c, nReadPos' = Len(b)
  PROVE  Content' = c /\ Behind' = b
  BY Unsplit DEF Content, Behind

(* A cleared stream has nothing before its position nor behind it. *)
LEMMA Dropped ==
  ASSUME Cleared
  PROVE  Content' = <<>> /\ Behind' = <<>>
<1>1. <<>> \in Seq(Byte)
  OBVIOUS
<1> QED
  BY <1>1, NoneOrAll DEF Cleared, Content, Behind

(* Bytes put at the end are put at the end of the content. *)
LEMMA Joined ==
  ASSUME VectorInv, NEW data \in Seq(Byte), vch' = vch \o data, nReadPos' = nReadPos
  PROVE  Content' = Content \o data /\ Behind' = Behind
<1>1. /\ Behind \in Seq(Byte) /\ Len(Behind) = nReadPos /\ Content \in Seq(Byte)
      /\ vch = Behind \o Content
  BY Parts
<1>2. Content \o data \in Seq(Byte)
  BY <1>1, JoinType
<1>3. vch' = Behind \o (Content \o data)
  BY <1>1, ConcatAssociative
<1> QED
  BY <1>1, <1>2, <1>3, Parted

(* Moving the position takes bytes from the front of the content. *)
LEMMA FrontTaken ==
  ASSUME VectorInv, NEW n \in Nat, n <= size, vch' = vch, nReadPos' = nReadPos + n
  PROVE  Content' = After(Content, n) /\ Behind' = Behind \o First(Content, n)
<1>1. vch \in Seq(Byte) /\ nReadPos \in Nat /\ nReadPos + n <= Len(vch)
  BY Parts
<1> QED
  BY <1>1, CutTwice DEF Content, Behind

(* First and After are those of ByteQueue.                                 *)
LEMMA SameCuts ==
  \A s, n : Queue!First(s, n) = First(s, n) /\ Queue!After(s, n) = After(s, n)
  BY DEF First, After, Queue!First, Queue!After

(* Both modules fill up with the same zeros. *)
LEMMA SameZeros == \A n : Queue!Zeros(n) = Zeros(n)
  BY DEF Zeros, Copies, Queue!Zeros
-----------------------------------------------------------------------------
(* What a call records of itself. *)
LEMMA Recorded ==
  ASSUME NEW op, NEW arg, NEW end, NEW bytes, Returns(op, arg, end, bytes)
  PROVE  /\ Queue!Called(op) /\ Queue!argument = arg
         /\ Queue!outcome = end /\ Queue!returned = bytes
  BY DEF Returns, Queue!Called, Queue!argument, Queue!outcome, Queue!returned

(* Bytes put at the end. *)
LEMMA PutStep ==
  ASSUME VectorInv, NEW data \in Seq(Byte),
         vch' = vch \o data, nReadPos' = nReadPos, StateKept
  PROVE  Queue!Put(data)
  BY Joined DEF Queue!Put, Queue!StateKept, StateKept, Behind

(* write is Put. *)
LEMMA WriteStep ==
  ASSUME VectorInv, NEW data \in Data, write(data)
  PROVE  Queue!Next
<1>1. Queue!Called("write") /\ Queue!argument = data
  BY Recorded DEF write, Call
<1>2. Queue!Put(data)
  BY PutStep, StreamAssumption DEF write
<1> QED
  BY <1>1, <1>2 DEF Queue!Next

(* n bytes leave the front: the position moves on, or, when nothing would  *)
(* be left, the vector goes and with it the bytes that were kept.          *)
LEMMA TakesFrontStep ==
  ASSUME VectorInv, NEW n \in Nat, n <= size,
         \/ vch' = vch /\ nReadPos' = nReadPos + n
         \/ n = size /\ Cleared
  PROVE  Queue!TakesFront(n)
<1>1. CASE vch' = vch /\ nReadPos' = nReadPos + n
  BY <1>1, FrontTaken, SameCuts DEF Queue!TakesFront, Behind
<1>2. CASE n = size /\ Cleared
  <2>1. After(Content, n) = <<>>
    BY <1>2, Parts, NoneOrAll
  <2> QED
    BY <1>2, <2>1, Dropped, SameCuts DEF Queue!TakesFront, Behind
<1> QED
  BY <1>1, <1>2

(* read and ignore. *)
LEMMA AdvanceStep ==
  ASSUME VectorInv, NEW n \in Nat, Advance(n), ~ Throws(n)
  PROVE  Queue!TakesFront(Queue!Fewer(n, Len(Content)))
<1>1. /\ nReadPos \in Nat /\ size \in Nat /\ Len(vch) = nReadPos + size
      /\ Len(Content) = size
  BY Parts
<1>2. CASE n < size
  <2>1. nReadPos + n < Len(vch)
    BY <1>1, <1>2
  <2>2. vch' = vch /\ nReadPos' = nReadPos + n
    BY <2>1 DEF Advance
  <2>3. Queue!Fewer(n, Len(Content)) = n
    BY <1>1, <1>2 DEF Queue!Fewer
  <2> QED
    BY <1>1, <1>2, <2>2, <2>3, TakesFrontStep
<1>3. CASE ~ (n < size)
  <2>1. /\ ~ (nReadPos + n < Len(vch))
        /\ nReadPos + n > Len(vch) <=> n > size
    BY <1>1, <1>3
  <2>2. Cleared
    BY <2>1 DEF Advance, Throws
  <2>3. Queue!Fewer(n, Len(Content)) = size
    BY <1>1, <1>3 DEF Queue!Fewer
  <2> QED
    BY <1>1, <2>2, <2>3, TakesFrontStep
<1> QED
  BY <1>2, <1>3

(* A call that throws for want of bytes leaves them all. *)
LEMMA AdvanceThrows ==
  ASSUME VectorInv, NEW n \in Nat, Advance(n), Throws(n)
  PROVE  vch' = vch /\ nReadPos' = nReadPos
<1>1. ~ (nReadPos + n < Len(vch)) /\ nReadPos + n > Len(vch) /\ exceptmask
  BY Parts DEF Throws
<1> QED
  BY <1>1 DEF Advance

(* The queue is kept where the vector and the position are. *)
LEMMA QueueKept ==
  ASSUME vch' = vch, nReadPos' = nReadPos
  PROVE  Content' = Content /\ Behind' = Behind
  BY DEF Content, Behind

(* What read returns. *)
LEMMA ReadBytes ==
  ASSUME VectorInv, NEW n \in Nat
  PROVE  (IF n > size THEN Content \o Zeros(n - size) ELSE First(Content, n))
           = Queue!First(Content, Queue!Fewer(n, Len(Content)))
               \o Queue!Zeros(n - Queue!Fewer(n, Len(Content)))
<1>1. size \in Nat /\ Len(Content) = size /\ Content \in Seq(Byte)
  BY Parts
<1>2. CASE n > size
  <2>1. Queue!Fewer(n, Len(Content)) = size /\ First(Content, size) = Content
    BY <1>1, <1>2, NoneOrAll DEF Queue!Fewer
  <2> QED
    BY <1>2, <2>1, SameCuts, SameZeros
<1>3. CASE ~ (n > size)
  <2>1. Queue!Fewer(n, Len(Content)) = n /\ n - n = 0
    BY <1>1, <1>3 DEF Queue!Fewer
  <2>2. Zeros(0) = <<>>
    BY NoCopies DEF Zeros
  <2>3. First(Content, n) \in Seq(Byte)
    BY <1>1, <1>3, CutType
  <2>4. First(Content, n) \o <<>> = First(Content, n)
    BY <2>3, ConcatEmptySeq
  <2> QED
    BY <1>3, <2>1, <2>2, <2>4, SameCuts, SameZeros
<1> QED
  BY <1>2, <1>3

(* read and ignore are Take. *)
LEMMA TakeStep ==
  ASSUME VectorInv, NEW n \in Nat, read(n) \/ ignore(n)
  PROVE  Queue!Next
<1>1. /\ Advance(n) /\ failed' = (failed \/ n > size) /\ exceptmask' = exceptmask
      /\ Len(Content) = size
  BY Parts DEF read, ignore, FailsShort
<1>2. PICK op \in {"read", "ignore"} : \E bytes :
        /\ Returns(op, n, IF Throws(n) THEN "throws" ELSE "ok", bytes)
        /\ op = "read" /\ ~ Throws(n) =>
             bytes = IF n > size THEN Content \o Zeros(n - size) ELSE First(Content, n)
  BY Zenon DEF read, ignore, Call
<1>3. /\ Queue!Called(op) /\ Queue!argument = n
      /\ Queue!outcome = IF Throws(n) THEN "throws" ELSE "ok"
      /\ op = "read" /\ ~ Throws(n) =>
           Queue!returned = IF n > size THEN Content \o Zeros(n - size)
                                        ELSE First(Content, n)
  BY <1>2, Recorded
<1>4. CASE Throws(n)
  <2>1. Content' = Content /\ Behind' = Behind
    BY <1>1, <1>4, AdvanceThrows, QueueKept
  <2>2. n > Len(Content) /\ exceptmask
    BY <1>1, <1>4 DEF Throws
  <2>3. Queue!Take(op, n)
    BY <1>1, <1>3, <1>4, <2>1, <2>2 DEF Queue!Take, Behind
  <2> QED
    BY <1>3, <2>3 DEF Queue!Next
<1>5. CASE ~ Throws(n)
  <2>1. Queue!TakesFront(Queue!Fewer(n, Len(Content)))
    BY <1>1, <1>5, AdvanceStep
  <2>2. ~ (n > Len(Content) /\ exceptmask)
    BY <1>1, <1>5 DEF Throws
  <2>3. op = "read" => Queue!returned =
                      Queue!First(Content, Queue!Fewer(n, Len(Content)))
                        \o Queue!Zeros(n - Queue!Fewer(n, Len(Content)))
    BY <1>3, <1>5, ReadBytes
  <2>4. Queue!outcome = "ok"
    BY <1>3, <1>5
  <2>5. Queue!Take(op, n)
    BY <1>1, <1>3, <2>1, <2>2, <2>3, <2>4 DEF Queue!Take
  <2> QED
    BY <1>3, <2>5 DEF Queue!Next
<1> QED
  BY <1>4, <1>5

(* Going back k bytes short of the cut at p.                               *)
LEMMA CutBack ==
  ASSUME NEW s \in Seq(Byte), NEW p \in Nat, p <= Len(s), NEW k \in Nat, k <= p
  PROVE  /\ First(s, k) = First(First(s, p), k)
         /\ After(s, k) = After(First(s, p), k) \o After(s, p)
<1> DEFINE f == First(s, p)
           a == After(s, p)
           ff == First(f, k)
           fa == After(f, k)
<1>1. f \in Seq(Byte) /\ Len(f) = p /\ a \in Seq(Byte) /\ s = f \o a
  BY CutType, SplitSeq
<1> HIDE DEF f, a
<1>2. ff \in Seq(Byte) /\ Len(ff) = k /\ fa \in Seq(Byte) /\ f = ff \o fa
  BY <1>1, CutType, SplitSeq
<1> HIDE DEF ff, fa
<1>3. a \in Seq(Byte) /\ ff \in Seq(Byte) /\ fa \in Seq(Byte)
  BY <1>1, <1>2
<1>4. (ff \o fa) \o a = ff \o (fa \o a) /\ fa \o a \in Seq(Byte)
  BY <1>3, ConcatAssociative, JoinType
<1>5. First(ff \o (fa \o a), k) = ff /\ After(ff \o (fa \o a), k) = fa \o a
  BY <1>2, <1>4, Unsplit
<1> QED
  BY <1>1, <1>2, <1>4, <1>5 DEF ff, fa, f, a

(* Rewind brings back what is behind, or cannot. *)
LEMMA RewindStep ==
  ASSUME VectorInv, NEW n \in Nat, Rewind(n)
  PROVE  Queue!Next
<1>1. /\ nReadPos \in Nat /\ vch \in Seq(Byte) /\ nReadPos <= Len(vch)
      /\ Len(Behind) = nReadPos
  BY Parts
<1>2. /\ Queue!Called("rewind") /\ Queue!argument = n
      /\ Queue!outcome = IF n > nReadPos THEN "false" ELSE "ok"
  BY Recorded DEF Rewind, Call
<1>3. vch' = vch /\ failed' = failed /\ exceptmask' = exceptmask
  BY DEF Rewind, StateKept
<1>4. CASE n > nReadPos
  <2>1. nReadPos' = nReadPos
    BY <1>4 DEF Rewind
  <2>2. Content' = Content /\ Behind' = Behind
    BY <1>3, <2>1, QueueKept
  <2>3. Queue!Rewind(n)
    BY <1>1, <1>2, <1>3, <1>4, <2>2 DEF Queue!Rewind, Queue!StateKept, Behind
  <2> QED
    BY <1>2, <2>3 DEF Queue!Next
<1>5. CASE ~ (n > nReadPos)
  <2> DEFINE k == nReadPos - n
  <2>1. k \in Nat /\ k <= nReadPos /\ nReadPos' = k
    BY <1>1, <1>5 DEF Rewind
  <2> HIDE DEF k
  <2>2. Behind' = First(Behind, k) /\ Content' = After(Behind, k) \o Content
    BY <1>1, <1>3, <2>1, CutBack DEF Behind, Content
  <2>3. Queue!outcome = "ok" /\ n <= Len(Behind) /\ k = Len(Behind) - n
    BY <1>1, <1>2, <1>5 DEF k
  <2>4. Queue!Rewind(n)
    BY <1>2, <1>3, <2>2, <2>3, SameCuts DEF Queue!Rewind, Queue!StateKept, Behind
  <2> QED
    BY <1>2, <2>4 DEF Queue!Next
<1> QED
  BY <1>4, <1>5

(* Compact forgets it. *)
LEMMA CompactStep ==
  ASSUME VectorInv, Compact
  PROVE  Queue!Next
<1>1. vch' = Content /\ nReadPos' = 0 /\ Content \in Seq(Byte)
  BY Parts DEF Compact, Content
<1>2. Content' = Content /\ Behind' = <<>>
  BY <1>1, NoneOrAll DEF Content, Behind
<1>3. Queue!Called("compact") /\ failed' = failed /\ exceptmask' = exceptmask
  BY Recorded DEF Compact, Call, StateKept
<1>4. Queue!Compact
  BY <1>2, <1>3 DEF Queue!Compact, Queue!StateKept, Behind
<1> QED
  BY <1>4 DEF Queue!Next

(* The calls that are about the error state only. *)
LEMMA SetStateStep ==
  ASSUME NEW bit \in BOOLEAN, clearState(bit) \/ exceptions(bit)
  PROVE  Queue!Next
<1>1. Content' = Content /\ Behind' = Behind
  BY QueueKept DEF clearState, exceptions
<1>2. CASE clearState(bit)
  <2>1. Queue!Called("clearState") /\ Queue!argument = bit
    BY <1>2, Recorded DEF clearState, Call
  <2>2. failed' = bit /\ exceptmask' = exceptmask
    BY <1>2 DEF clearState
  <2> QED
    BY <1>1, <2>1, <2>2, Zenon DEF Queue!SetState, Queue!Next, Behind
<1>3. CASE exceptions(bit)
  <2>1. /\ Queue!Called("exceptions") /\ Queue!argument = bit
        /\ Queue!outcome = IF failed /\ bit THEN "throws" ELSE "ok"
    BY <1>3, Recorded DEF exceptions, Call
  <2>2. exceptmask' = bit /\ failed' = failed
    BY <1>3 DEF exceptions
  <2> QED
    BY <1>1, <2>1, <2>2, Zenon DEF Queue!SetState, Queue!Next, Behind
<1> QED
  BY <1>2, <1>3

(* operator += and operator <<. *)
LEMMA AddStep ==
  ASSUME VectorInv, NEW other \in Others, plus(other) \/ stream(other)
  PROVE  Queue!Next
<1>1. /\ other.vch \in Seq(Byte) /\ After(other.vch, other.nReadPos) \in Seq(Byte)
  <2>1. /\ other.vch \in Seq(Byte) /\ other.nReadPos \in Nat
        /\ other.nReadPos <= Len(other.vch)
    BY StreamAssumption DEF StreamType
  <2> QED
    BY <2>1, CutType
<1>2. CASE plus(other)
  <2>1. Queue!Called("plus") /\ Queue!argument = other
    BY <1>2, Recorded DEF plus, Call
  <2>2. Queue!Put(After(other.vch, other.nReadPos))
    BY <1>1, <1>2, PutStep DEF plus
  <2> QED
    BY <2>1, <2>2, SameCuts DEF Queue!Next
<1>3. CASE stream(other)
  <2>1. Queue!Called("stream") /\ Queue!argument = other
    BY <1>3, Recorded DEF stream, Call
  <2>2. Queue!Put(other.vch)
    BY <1>1, <1>3, PutStep DEF stream
  <2> QED
    BY <2>1, <2>2 DEF Queue!Next
<1> QED
  BY <1>2, <1>3

(* clear empties the queue. *)
LEMMA ClearStep ==
  ASSUME clear
  PROVE  Queue!Next
<1>1. Content' = <<>> /\ Behind' = <<>>
  BY Dropped DEF clear
<1>2. Queue!Called("clear") /\ failed' = failed /\ exceptmask' = exceptmask
  BY Recorded DEF clear, Call, StateKept
<1> QED
  BY <1>1, <1>2 DEF Queue!Clear, Queue!StateKept, Queue!Next, Behind

(* resize cuts the queue or fills it up. *)
LEMMA ResizeStep ==
  ASSUME VectorInv, NEW n \in Nat, resize(n)
  PROVE  Queue!Next
<1>1. /\ vch \in Seq(Byte) /\ nReadPos \in Nat /\ size \in Nat
      /\ Len(vch) = nReadPos + size
      /\ Behind \in Seq(Byte) /\ Len(Behind) = nReadPos
      /\ Content \in Seq(Byte) /\ Len(Content) = size
  BY Parts
<1>2. nReadPos' = nReadPos
  BY DEF resize
<1>3. /\ Content' = IF n > size THEN Content \o Zeros(n - size) ELSE First(Content, n)
      /\ Behind' = Behind
  <2>1. CASE n > size
    <3>1. Zeros(n - size) \in Seq(Byte)
      BY <1>1, <2>1, CopiesType, StreamAssumption DEF Zeros
    <3>2. vch' = vch \o Zeros(n - size)
      BY <1>1, <2>1 DEF resize
    <3> QED
      BY <1>2, <2>1, <3>1, <3>2, Joined
  <2>2. CASE ~ (n > size)
    <3>1. n + nReadPos = nReadPos + n /\ nReadPos + n <= Len(vch)
      BY <1>1, <2>2
    <3>2. First(Content, n) \in Seq(Byte)
      BY <1>1, <2>2, CutType
    <3>3. First(vch, nReadPos + n) = Behind \o First(Content, n)
      BY <1>1, <3>1, CutTwice DEF Behind, Content
    <3>4. vch' = Behind \o First(Content, n)
      BY <1>1, <2>2, <3>1, <3>3 DEF resize
    <3> QED
      BY <1>1, <1>2, <2>2, <3>2, <3>4, Parted
  <2> QED
    BY <2>1, <2>2
<1>4. /\ Queue!Called("resize") /\ Queue!argument = n
      /\ failed' = failed /\ exceptmask' = exceptmask
  BY Recorded DEF resize, Call, StateKept
<1>5. Queue!Resize(n)
  BY <1>3, <1>4, ReadBytes DEF Queue!Resize, Queue!StateKept, Behind
<1> QED
  BY <1>4, <1>5 DEF Queue!Next

(* The vector cut in the content: what stays in front of the cut is kept   *)
(* behind the position as well.                                            *)
LEMMA CutContent ==
  ASSUME VectorInv, NEW i \in Nat, i <= size
  PROVE  /\ First(vch, nReadPos + i) = Behind \o First(Content, i)
         /\ After(vch, nReadPos + i) = After(Content, i)
         /\ First(Content, i) \in Seq(Byte) /\ After(Content, i) \in Seq(Byte)
         /\ Len(First(Content, i)) = i
<1>1. /\ vch \in Seq(Byte) /\ nReadPos \in Nat /\ nReadPos + i <= Len(vch)
      /\ Content \in Seq(Byte) /\ i <= Len(Content)
  BY Parts
<1> QED
  BY <1>1, CutTwice, CutType DEF Behind, Content

(* Something put in the place of what is between two cuts. *)
Replacing(s, i, data, j) == (First(s, i) \o data) \o After(s, j)

(* That is a sequence of bytes. *)
LEMMA ReplacingType ==
  ASSUME NEW s \in Seq(Byte), NEW i \in Nat, i <= Len(s), NEW j \in Nat, j <= Len(s),
         NEW data \in Seq(Byte)
  PROVE  Replacing(s, i, data, j) \in Seq(Byte)
  BY CutType, JoinType DEF Replacing

(* In the vector it is the same as in the content, behind the position. *)
LEMMA ReplacingParts ==
  ASSUME VectorInv, NEW i \in Nat, i <= size, NEW j \in Nat, j <= size,
         NEW data \in Seq(Byte)
  PROVE  Replacing(vch, nReadPos + i, data, nReadPos + j)
           = Behind \o Replacing(Content, i, data, j)
<1> DEFINE f == First(Content, i)
           a == After(Content, j)
<1>1. /\ First(vch, nReadPos + i) = Behind \o f
      /\ After(vch, nReadPos + j) = a
  BY CutContent
<1>2. /\ f \in Seq(Byte) /\ a \in Seq(Byte) /\ Behind \in Seq(Byte)
      /\ data \in Seq(Byte)
  BY CutContent, Parts
<1> DEFINE g == f \o data
<1>3. Replacing(Content, i, data, j) = g \o a
  BY DEF Replacing
<1> HIDE DEF f, a
<1>4. (Behind \o f) \o data = Behind \o g /\ g \in Seq(Byte)
  BY <1>2, ConcatAssociative, JoinType
<1> HIDE DEF g
<1>5. Replacing(vch, nReadPos + i, data, nReadPos + j) = (Behind \o g) \o a
  BY <1>1, <1>4 DEF Replacing
<1>6. (Behind \o g) \o a = Behind \o (g \o a)
  <2>1. Behind \in Seq(Byte) /\ g \in Seq(Byte) /\ a \in Seq(Byte)
    BY <1>2, <1>4, Zenon
  <2> DEFINE b == Behind
  <2> HIDE DEF b
  <2>2. (b \o g) \o a = b \o (g \o a)
    <3>1. b \in Seq(Byte) /\ g \in Seq(Byte) /\ a \in Seq(Byte)
      BY <2>1 DEF b
    <3> QED
      BY ONLY <3>1, ConcatAssociative
  <2> QED
    BY <2>2 DEF b
<1> QED
  BY <1>3, <1>5, <1>6

(* So it happens to the content, if it happens to the vector. *)
LEMMA Replaced ==
  ASSUME VectorInv, NEW i \in Nat, i <= size, NEW j \in Nat, j <= size,
         NEW data \in Seq(Byte), nReadPos' = nReadPos,
         vch' = Replacing(vch, nReadPos + i, data, nReadPos + j)
  PROVE  Content' = Replacing(Content, i, data, j) /\ Behind' = Behind
<1>1. /\ Behind \in Seq(Byte) /\ nReadPos' = Len(Behind)
      /\ Content \in Seq(Byte) /\ Len(Content) = size
  BY Parts
<1>2. Replacing(Content, i, data, j) \in Seq(Byte)
  BY <1>1, ReplacingType
<1>3. vch' = Behind \o Replacing(Content, i, data, j)
  BY ReplacingParts
<1> QED
  BY <1>1, <1>2, <1>3, Parted

(* insert of copies of a byte. *)
LEMMA InsertStep ==
  ASSUME VectorInv, NEW pos \in 0 .. size, NEW n \in 0 .. 2, NEW b \in Byte,
         insert(pos, n, b)
  PROVE  Queue!Next
<1>1. /\ vch' = Replacing(vch, nReadPos + pos, Copies(n, b), nReadPos + pos)
      /\ nReadPos' = nReadPos /\ failed' = failed /\ exceptmask' = exceptmask
  BY DEF insert, StateKept, Replacing
<1>2. /\ pos \in Nat /\ pos <= size /\ Copies(n, b) \in Seq(Byte)
  BY Parts, CopiesType
<1>3. Content' = Replacing(Content, pos, Copies(n, b), pos) /\ Behind' = Behind
  BY <1>1, <1>2, Replaced
<1>4. Queue!Called("insert") /\ Queue!argument = <<pos, n, b>>
  BY Recorded DEF insert, Call
<1>5. Queue!InsertBytes(pos, n, b)
  BY <1>1, <1>3, <1>4, SameCuts DEF Queue!InsertBytes, Queue!StateKept, Copies, Behind, Replacing
<1>6. /\ Queue!argument[1] = pos /\ Queue!argument[2] = n /\ Queue!argument[3] = b
  BY <1>4
<1> QED
  BY <1>5, <1>6 DEF Queue!Next

(* insert of a range, which in front may be written over bytes read. *)
LEMMA InsertRangeStep ==
  ASSUME VectorInv, NEW pos \in 0 .. size, NEW data \in Data, insertRange(pos, data)
  PROVE  Queue!Next
<1>1. /\ data \in Seq(Byte) /\ Len(data) \in Nat
  BY StreamAssumption
<1>2. /\ Queue!Called("insertRange") /\ Queue!argument = <<pos, data>>
      /\ failed' = failed /\ exceptmask' = exceptmask
  BY Recorded DEF insertRange, Call, StateKept
<1>3. CASE pos = 0 /\ Len(data) <= nReadPos
  <2> DEFINE k == nReadPos - Len(data)
             f == First(vch, k)
  <2>1. /\ vch \in Seq(Byte) /\ nReadPos \in Nat /\ nReadPos <= Len(vch)
        /\ Len(Behind) = nReadPos /\ Content \in Seq(Byte)
        /\ k \in Nat /\ k <= nReadPos /\ k = Len(Behind) - Len(data)
    BY <1>1, <1>3, Parts
  <2>2. vch' = (f \o data) \o Content /\ nReadPos' = k
    BY <1>3 DEF insertRange, Content
  <2> HIDE DEF k
  <2>3. f = First(Behind, k) /\ f \in Seq(Byte) /\ Len(f) = k
    <3>1. f = First(First(vch, nReadPos), k)
      BY <2>1, CutBack DEF f
    <3>2. k <= Len(vch)
      BY <2>1
    <3>3. f \in Seq(Byte) /\ Len(f) = k
      BY <2>1, <3>2, CutType DEF f
    <3> QED
      BY <3>1, <3>3 DEF Behind
  <2> HIDE DEF f
  <2>4. (f \o data) \o Content = f \o (data \o Content) /\ data \o Content \in Seq(Byte)
    <3>1. Content \in Seq(Byte) /\ f \in Seq(Byte) /\ data \in Seq(Byte)
      BY <1>1, <2>1, <2>3
    <3> QED
      BY <3>1, ConcatAssociative, JoinType
  <2>5. Content' = data \o Content /\ Behind' = f
    BY <2>2, <2>3, <2>4, Parted
  <2>6. Queue!InsertRange(pos, data)
    BY <1>2, <1>3, <2>1, <2>3, <2>5, SameCuts
    DEF Queue!InsertRange, Queue!StateKept, Behind
  <2> QED
    BY <1>2, <2>6 DEF Queue!Next
<1>4. CASE ~ (pos = 0 /\ Len(data) <= nReadPos)
  <2>1. Queue!Put(data)
    BY <1>1, <1>4, PutStep DEF insertRange
  <2>2. Queue!InsertRange(pos, data)
    BY <1>2, <2>1 DEF Queue!InsertRange
  <2> QED
    BY <1>2, <2>2 DEF Queue!Next
<1> QED
  BY <1>3, <1>4

(* Both forms of erase. *)
LEMMA EraseStep ==
  ASSUME VectorInv, NEW i \in Nat, NEW j \in Nat, i <= size, j <= size,
         Call("erase", <<i, j>>, "ok"), StateKept,
         \/ /\ i > 0 /\ nReadPos' = nReadPos
            /\ vch' = First(vch, nReadPos + i) \o After(vch, nReadPos + j)
         \/ i = 0 /\ ((j = size /\ Cleared) \/ (vch' = vch /\ nReadPos' = nReadPos + j))
  PROVE  Queue!Next
<1>1. /\ Queue!Called("erase") /\ Queue!argument = <<i, j>>
      /\ failed' = failed /\ exceptmask' = exceptmask
  BY Recorded DEF Call, StateKept
<1>2. CASE /\ i > 0 /\ nReadPos' = nReadPos
           /\ vch' = First(vch, nReadPos + i) \o After(vch, nReadPos + j)
  <2>1. <<>> \in Seq(Byte)
    OBVIOUS
  <2>2. /\ First(vch, nReadPos + i) \in Seq(Byte) /\ First(Content, i) \in Seq(Byte)
    <3>1. /\ Behind \in Seq(Byte) /\ First(Content, i) \in Seq(Byte)
          /\ First(vch, nReadPos + i) = Behind \o First(Content, i)
      BY CutContent, Parts
    <3> QED
      BY <3>1, JoinType
  <2>3. /\ First(vch, nReadPos + i) \o <<>> = First(vch, nReadPos + i)
        /\ First(Content, i) \o <<>> = First(Content, i)
    BY <2>2, ConcatEmptySeq
  <2>4. vch' = Replacing(vch, nReadPos + i, <<>>, nReadPos + j)
    BY <1>2, <2>3 DEF Replacing
  <2>5. Content' = Replacing(Content, i, <<>>, j) /\ Behind' = Behind
    BY <1>2, <2>1, <2>4, Replaced
  <2>6. Content' = First(Content, i) \o After(Content, j)
    BY <2>3, <2>5 DEF Replacing
  <2>7. Queue!Erase(i, j)
    <3>1. i # 0
      BY <1>2
    <3>2. Content' = Queue!First(Content, i) \o Queue!After(Content, j)
      BY <2>6, SameCuts
    <3> QED
      BY <1>1, <2>5, <3>1, <3>2 DEF Queue!Erase, Queue!StateKept, Behind
  <2> QED
    BY <1>1, <2>7 DEF Queue!Next
<1>3. CASE i = 0 /\ ((j = size /\ Cleared) \/ (vch' = vch /\ nReadPos' = nReadPos + j))
  <2>1. Queue!TakesFront(j)
    BY <1>3, TakesFrontStep
  <2>2. Queue!Erase(i, j)
    BY <1>1, <1>3, <2>1 DEF Queue!Erase, Queue!StateKept
  <2> QED
    BY <1>1, <2>2 DEF Queue!Next
<1> QED
  BY <1>2, <1>3, Zenon

(* erase of one byte is erase of a range of one. *)
LEMMA EraseAtIsErase ==
  ASSUME VectorInv, NEW pos \in 0 .. size, eraseAt(pos)
  PROVE  Queue!Next
<1>1. /\ nReadPos \in Nat /\ size \in Nat /\ Len(vch) = nReadPos + size
  BY Parts
<1>2. /\ pos \in Nat /\ pos + 1 \in Nat /\ pos < size /\ pos <= size /\ pos + 1 <= size
      /\ nReadPos + pos + 1 = nReadPos + (pos + 1)
  BY <1>1 DEF eraseAt
<1>3. Call("erase", <<pos, pos + 1>>, "ok") /\ StateKept
  BY DEF eraseAt
<1>4. \/ /\ pos > 0 /\ nReadPos' = nReadPos
         /\ vch' = First(vch, nReadPos + pos) \o After(vch, nReadPos + (pos + 1))
      \/ pos = 0 /\ pos + 1 = size /\ Cleared
      \/ pos = 0 /\ vch' = vch /\ nReadPos' = nReadPos + (pos + 1)
  <2>1. CASE pos > 0
    BY <1>2, <2>1 DEF eraseAt
  <2>2. CASE ~ (pos > 0) /\ nReadPos + 1 >= Len(vch)
    BY <1>1, <1>2, <2>2 DEF eraseAt
  <2>3. CASE ~ (pos > 0) /\ ~ (nReadPos + 1 >= Len(vch))
    BY <1>1, <1>2, <2>3 DEF eraseAt
  <2> QED
    BY <2>1, <2>2, <2>3
<1> HIDE DEF eraseAt
<1> QED
  BY <1>2, <1>3, <1>4, EraseStep

(* erase of a range is a step of the queue. *)
LEMMA EraseIsErase ==
  ASSUME VectorInv, NEW i \in 0 .. size, NEW j \in i .. size, erase(i, j)
  PROVE  Queue!Next
<1>1. /\ i \in Nat /\ j \in Nat /\ i <= size /\ j <= size
  BY Parts
<1>2. Call("erase", <<i, j>>, "ok") /\ StateKept
  BY DEF erase
<1>3. \/ /\ i > 0 /\ nReadPos' = nReadPos
         /\ vch' = First(vch, nReadPos + i) \o After(vch, nReadPos + j)
      \/ i = 0 /\ j = size /\ Cleared
      \/ i = 0 /\ vch' = vch /\ nReadPos' = nReadPos + j
  BY <1>1 DEF erase
<1> QED
  BY <1>1, <1>2, <1>3, EraseStep
-----------------------------------------------------------------------------
(* Each call of the stream is the call of the queue of the same name. *)
LEMMA StreamSteps ==
  ASSUME VectorInv, StreamSubset
  PROVE  Queue!Next
<1>1. 0 .. MaxLength \subseteq Nat
  BY StreamAssumption
<1> QED
  BY <1>1, WriteStep, TakeStep, RewindStep, CompactStep, SetStateStep, AddStep
  DEF StreamSubset

(* The calls of the vector subset are steps of the queue. *)
LEMMA VectorSteps ==
  ASSUME VectorInv, VectorSubset
  PROVE  Queue!Next
<1>1. 0 .. MaxLength \subseteq Nat
  BY StreamAssumption
<1> QED
  BY <1>1, ClearStep, ResizeStep, InsertStep, InsertRangeStep, EraseAtIsErase,
     EraseIsErase
  DEF VectorSubset

(* A CDataStream implements a queue of bytes: every call of the stream and *)
(* of the vector subset has, on what is still to be read and on what       *)
(* Rewind can bring back, the effect ByteQueue gives it, and returns what  *)
(* ByteQueue returns; for any bytes, data and bound.                       *)
THEOREM StreamIsAQueue == Spec => QueueOfBytes
<1>1. Init => Queue!Init
  <2> SUFFICES ASSUME Init PROVE Queue!Init
    OBVIOUS
  <2>1. vch \in Seq(Byte) /\ nReadPos = 0 /\ call = <<"construct", vch, "ok", <<>>>>
    BY StreamAssumption DEF Init
  <2>2. Content = vch /\ Behind = <<>>
    BY <2>1, NoneOrAll DEF Content, Behind
  <2>3. call[2] = vch
    BY <2>1
  <2> QED
    BY <2>1, <2>2, <2>3 DEF Init, Queue!Init, Behind
<1>2. VectorInv /\ [Next]_vars => [Queue!Next]_(Queue!vars)
  <2>1. UNCHANGED vars => UNCHANGED Queue!vars
    BY DEF vars, Queue!vars, Content, First
  <2> QED
    BY <2>1, StreamSteps, VectorSteps DEF Next
<1> QED
  BY <1>1, <1>2, VectorAlways, PTL DEF Spec, QueueOfBytes, Queue!Spec
=============================================================================
