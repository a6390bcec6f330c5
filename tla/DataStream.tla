----------------------------- MODULE DataStream -----------------------------
(***************************************************************************)
(* CDataStream (serialize.h): a vector of bytes with a read position.      *)
(* Bytes before the position have been read and are kept until a call      *)
(* finds it convenient to drop them.                                       *)
(*                                                                         *)
(* failed is the failbit of state and exceptmask whether exceptions are    *)
(* on for it: no other bit is ever set here.  A stream is shorter than     *)
(* 2^31 bytes, so the unsigned nReadPos + nSize does not wrap.             *)
(***************************************************************************)
EXTENDS Naturals, Sequences

CONSTANTS
  Byte,      (* what a byte may be; 0 is what resize and memset write *)
  Data,      (* the sequences of bytes that calls are given           *)
  Others,    (* the other streams that this one is given              *)
  MaxLength  (* bound on the bytes of the vector                      *)

StreamType(s) == s.nReadPos <= Len(s.vch)

ASSUME StreamAssumption ==
  /\ 0 \in Byte /\ Data \subseteq Seq(Byte)
  /\ Others \subseteq [vch : Seq(Byte), nReadPos : Nat]
  /\ \A o \in Others : StreamType(o)
  /\ MaxLength \in Nat

VARIABLES vch, nReadPos, failed, exceptmask, call

vars == <<vch, nReadPos, failed, exceptmask, call>>

Init ==
  /\ vch \in Data /\ nReadPos = 0 /\ failed = FALSE /\ exceptmask = TRUE
  /\ call = <<"construct", vch, "ok", <<>>>>

size == Len(vch) - nReadPos
First(s, n) == SubSeq(s, 1, n)
After(s, n) == SubSeq(s, n + 1, Len(s))
Content == After(vch, nReadPos)                     (* begin() .. end()      *)

Returns(op, argument, outcome, bytes) == call' = <<op, argument, outcome, bytes>>
Call(op, argument, outcome) == Returns(op, argument, outcome, <<>>)
StateKept == UNCHANGED <<failed, exceptmask>>
Cleared == vch' = <<>> /\ nReadPos' = 0
Copies(n, b) == [i \in 1 .. n |-> b]
Zeros(n) == Copies(n, 0)
-----------------------------------------------------------------------------
(***************************************************************************)
(* The stream subset.                                                      *)
(***************************************************************************)
write(data) ==
  /\ Len(vch) + Len(data) <= MaxLength
  /\ Call("write", data, "ok")
  /\ vch' = vch \o data
  /\ UNCHANGED nReadPos /\ StateKept

(* Mutants: the position is left where it was; the bytes go, and then the  *)
(* call throws.                                                            *)
AdvanceLeavesPosition(n) ==
  IF nReadPos + n < Len(vch)
  THEN nReadPos' = nReadPos + n /\ UNCHANGED vch
  ELSE vch' = <<>> /\ UNCHANGED nReadPos
AdvanceThenThrows(n) ==
  IF nReadPos + n < Len(vch) THEN nReadPos' = nReadPos + n /\ UNCHANGED vch
                             ELSE Cleared

(* What read and ignore do to the vector.  They drop it when nothing would *)
(* be left, and throw before they have taken anything.                     *)
Advance(n) ==
  IF nReadPos + n < Len(vch) THEN nReadPos' = nReadPos + n /\ UNCHANGED vch
  ELSE IF nReadPos + n > Len(vch) /\ exceptmask THEN UNCHANGED <<vch, nReadPos>>
  ELSE Cleared

(* setstate(failbit) when there is less than is asked for. *)
Throws(n) == n > size /\ exceptmask
FailsShort(n) == failed' = (failed \/ n > size) /\ UNCHANGED exceptmask

(* The caller's buffer is zeroed only when there is too little to fill it. *)
read(n) ==
  /\ IF Throws(n) THEN Call("read", n, "throws")
     ELSE Returns("read", n, "ok", IF n > size THEN Content \o Zeros(n - size)
                                               ELSE First(Content, n))
  /\ Advance(n) /\ FailsShort(n)

ignore(n) ==
  /\ Call("ignore", n, IF Throws(n) THEN "throws" ELSE "ok")
  /\ Advance(n) /\ FailsShort(n)

(* Mutant: the position may go back beyond the start of the vector. *)
RewindUnchecked(n) ==
  /\ Call("rewind", n, "ok")
  /\ nReadPos' = (nReadPos + 2^16 - n) % 2^16
  /\ UNCHANGED vch /\ StateKept

Rewind(n) ==
  /\ Call("rewind", n, IF n > nReadPos THEN "false" ELSE "ok")
  /\ nReadPos' = IF n > nReadPos THEN nReadPos ELSE nReadPos - n
  /\ UNCHANGED vch /\ StateKept

Compact ==
  /\ Call("compact", <<>>, "ok")
  /\ vch' = After(vch, nReadPos) /\ nReadPos' = 0
  /\ StateKept

(* clear(short) and exceptions(short), which throws for a failbit that is  *)
(* still set.                                                              *)
clearState(bit) ==
  /\ Call("clearState", bit, "ok")
  /\ failed' = bit /\ UNCHANGED <<vch, nReadPos, exceptmask>>

exceptions(mask) ==
  /\ Call("exceptions", mask, IF failed /\ mask THEN "throws" ELSE "ok")
  /\ exceptmask' = mask /\ UNCHANGED <<vch, nReadPos, failed>>

(* operator +=, and operator << of a whole stream (Serialize).  The first  *)
(* adds what is left to read of the other stream, the second all it holds. *)
plus(other) ==
  /\ Len(vch) + Len(other.vch) - other.nReadPos <= MaxLength
  /\ Call("plus", other, "ok")
  /\ vch' = vch \o After(other.vch, other.nReadPos)
  /\ UNCHANGED nReadPos /\ StateKept

stream(other) ==
  /\ Len(vch) + Len(other.vch) <= MaxLength
  /\ Call("stream", other, "ok")
  /\ vch' = vch \o other.vch
  /\ UNCHANGED nReadPos /\ StateKept
-----------------------------------------------------------------------------
(***************************************************************************)
(* The vector subset; positions count from begin().                        *)
(***************************************************************************)
clear == Call("clear", <<>>, "ok") /\ Cleared /\ StateKept

resize(n) ==
  /\ n + nReadPos <= MaxLength
  /\ Call("resize", n, "ok")
  /\ vch' = IF n <= size THEN First(vch, n + nReadPos) ELSE vch \o Zeros(n - size)
  /\ UNCHANGED nReadPos /\ StateKept

(* insert of one byte (n = 1) and of n copies of it. *)
insert(pos, n, b) ==
  /\ Len(vch) + n <= MaxLength
  /\ Call("insert", <<pos, n, b>>, "ok")
  /\ vch' = First(vch, nReadPos + pos) \o Copies(n, b) \o After(vch, nReadPos + pos)
  /\ UNCHANGED nReadPos /\ StateKept

(* At the front, when there is room, over bytes that have been read; else  *)
(* at the end, whatever the position.                                      *)
insertRange(pos, data) ==
  /\ Call("insertRange", <<pos, data>>, "ok")
  /\ IF pos = 0 /\ Len(data) <= nReadPos
     THEN /\ nReadPos' = nReadPos - Len(data)
          /\ vch' = First(vch, nReadPos - Len(data)) \o data \o After(vch, nReadPos)
     ELSE /\ Len(vch) + Len(data) <= MaxLength
          /\ vch' = vch \o data /\ UNCHANGED nReadPos
  /\ StateKept

(* erase(it): the last byte of the vector takes those before it along. *)
eraseAt(pos) ==
  /\ pos < size
  /\ Call("erase", <<pos, pos + 1>>, "ok")
  /\ IF pos > 0
     THEN /\ vch' = First(vch, nReadPos + pos) \o After(vch, nReadPos + pos + 1)
          /\ UNCHANGED nReadPos
     ELSE IF nReadPos + 1 >= Len(vch) THEN Cleared
     ELSE nReadPos' = nReadPos + 1 /\ UNCHANGED vch
  /\ StateKept

(* erase(first, last). *)
erase(i, j) ==
  /\ Call("erase", <<i, j>>, "ok")
  /\ IF i > 0
     THEN /\ vch' = First(vch, nReadPos + i) \o After(vch, nReadPos + j)
          /\ UNCHANGED nReadPos
     ELSE IF j = size THEN Cleared
     ELSE nReadPos' = nReadPos + j /\ UNCHANGED vch
  /\ StateKept

StreamSubset ==
  \/ \E data \in Data : write(data)
  \/ \E n \in 0 .. MaxLength : read(n) \/ ignore(n) \/ Rewind(n)
  \/ Compact
  \/ \E bit \in BOOLEAN : clearState(bit) \/ exceptions(bit)
  \/ \E other \in Others : plus(other) \/ stream(other)

VectorSubset ==
  \/ clear
  \/ \E n \in 0 .. MaxLength : resize(n)
  \/ \E pos \in 0 .. size : \/ \E n \in 0 .. 2, b \in Byte : insert(pos, n, b)
                            \/ \E data \in Data : insertRange(pos, data)
                            \/ eraseAt(pos)
                            \/ \E j \in pos .. size : erase(pos, j)

Next == StreamSubset \/ VectorSubset

Spec == Init /\ [][Next]_vars
-----------------------------------------------------------------------------
TypeOK ==
  /\ vch \in Seq(Byte) /\ nReadPos \in Nat
  /\ failed \in BOOLEAN /\ exceptmask \in BOOLEAN

(* The read position never leaves the vector, whatever calls are mixed:    *)
(* begin(), size() and operator[] compute with it unchecked.               *)
PositionInside == nReadPos <= Len(vch)

(* The stream is a queue of bytes: whatever the state of the vector, and   *)
(* however the vector and the stream subset are mixed, each call has the   *)
(* effect on the content, and the result, that ByteQueue gives it.         *)
Queue == INSTANCE ByteQueue WITH content <- Content, behind <- First(vch, nReadPos)
QueueOfBytes == Queue!Spec
=============================================================================
