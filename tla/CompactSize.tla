---------------------------- MODULE CompactSize ----------------------------
(***************************************************************************)
(* Numbers and compact sizes as serialize.h writes them, and how they are  *)
(* read again: what its templates (module Serialization) are built from.   *)
(*                                                                         *)
(* A byte is 0 .. Base - 1, so that with a small Base every boundary of    *)
(* the compact size is within reach; it is 256 in the code.  Numbers are   *)
(* written as they are in memory, the lowest byte first on the server's    *)
(* hosts.                                                                  *)
(***************************************************************************)
EXTENDS Naturals, Sequences

CONSTANT Base

ASSUME BaseAssumption == Base \in Nat /\ Base > 3

Byte == 0 .. Base - 1

(* How many numbers n bytes make.  No number has more than eight. *)
Power[n \in 0 .. 8] == IF n = 0 THEN 1 ELSE Base * Power[n - 1]

UCHAR_MAX == Base - 1
USHRT_MAX == Power[2] - 1
UINT_MAX  == Power[4] - 1

(* A number of the given size, lowest byte first, and back. *)
Bytes(n, size)  == [i \in 1 .. size |-> (n \div Power[i - 1]) % Base]
NumberOf(bytes) ==
  LET last[n \in 0 .. Len(bytes)] ==    (* what the last n bytes make *)
        IF n = 0 THEN 0 ELSE bytes[Len(bytes) - n + 1] + Base * last[n - 1]
  IN  last[Len(bytes)]
-----------------------------------------------------------------------------
(***************************************************************************)
(* Writing.                                                                *)
(***************************************************************************)
(* Mutant: the sizes that take one byte end one too late. *)
GetSizeOfCompactSizeOffByOne(n) ==
  IF n <= UCHAR_MAX - 2 THEN 1
  ELSE IF n <= USHRT_MAX THEN 1 + 2
  ELSE IF n <= UINT_MAX THEN 1 + 4
  ELSE 1 + 8

GetSizeOfCompactSize(n) ==
  IF n < UCHAR_MAX - 2 THEN 1
  ELSE IF n <= USHRT_MAX THEN 1 + 2
  ELSE IF n <= UINT_MAX THEN 1 + 4
  ELSE 1 + 8

WriteCompactSize(n) ==
  IF n < UCHAR_MAX - 2 THEN Bytes(n, 1)
  ELSE IF n <= USHRT_MAX THEN <<UCHAR_MAX - 2>> \o Bytes(n, 2)
  ELSE IF n <= UINT_MAX THEN <<UCHAR_MAX - 1>> \o Bytes(n, 4)
  ELSE <<UCHAR_MAX>> \o Bytes(n, 8)
-----------------------------------------------------------------------------
(***************************************************************************)
(* Reading.  A result says whether the read came to its end or threw, what *)
(* it read, where it left the stream, and how many elements more than it   *)
(* had read any vector was ever given room for.                            *)
(*                                                                         *)
(* The count of a read is an int: 2^31 bytes or more, which a string may   *)
(* claim and no stream holds, are a negative count and fail an assertion.  *)
(* Nothing is returned then, as when a read throws.                        *)
(***************************************************************************)
Result(ok, value, at, room) == [ok |-> ok, value |-> value, at |-> at, room |-> room]
With(r, value) == Result(r.ok, value, r.at, r.room)

(* Mutant: what is missing of a read is filled with zeros. *)
readPadded(s, at, n) ==
  LET there == IF at + n > Len(s) THEN Len(s) - at ELSE n
  IN  Result(TRUE, SubSeq(s, at + 1, at + there) \o [i \in 1 .. n - there |-> 0],
             at + there, 0)

read(s, at, n) ==
  IF at + n > Len(s) THEN Result(FALSE, <<>>, at, 0)
                     ELSE Result(TRUE, SubSeq(s, at + 1, at + n), at + n, 0)

ReadNumber(s, at, size) ==
  LET r == read(s, at, size)
  IN  IF r.ok THEN With(r, NumberOf(r.value)) ELSE r

(* Mutant: the code of the two-byte sizes is taken for a size. *)
ReadCompactSizeOffByOne(s, at) ==
  LET chSize == ReadNumber(s, at, 1)
  IN  IF ~ chSize.ok \/ chSize.value <= UCHAR_MAX - 2 THEN chSize
      ELSE IF chSize.value = UCHAR_MAX - 1 THEN ReadNumber(s, chSize.at, 4)
      ELSE ReadNumber(s, chSize.at, 8)

ReadCompactSize(s, at) ==
  LET chSize == ReadNumber(s, at, 1)
  IN  IF ~ chSize.ok \/ chSize.value < UCHAR_MAX - 2 THEN chSize
      ELSE IF chSize.value = UCHAR_MAX - 2 THEN ReadNumber(s, chSize.at, 2)
      ELSE IF chSize.value = UCHAR_MAX - 1 THEN ReadNumber(s, chSize.at, 4)
      ELSE ReadNumber(s, chSize.at, 8)

(* A size is cut to an unsigned int before it is used. *)
ReadSize(s, at) ==
  LET r == ReadCompactSize(s, at)
  IN  IF r.ok THEN With(r, r.value % (UINT_MAX + 1)) ELSE r
=============================================================================
