------------------------------- MODULE Token -------------------------------
(***************************************************************************)
(* Token.cs: one typed value of a broadcast, read from an array of bytes   *)
(* at an offset.  A token is its type and the bytes its value is made of,  *)
(* the lowest first; a call that throws returns Thrown.                    *)
(***************************************************************************)
EXTENDS Naturals, Sequences

TOKEN_TYPE_BOOL   == 2
TOKEN_TYPE_BYTE   == 3
TOKEN_TYPE_CHAR   == 4
TOKEN_TYPE_DOUBLE == 5
TOKEN_TYPE_SINGLE == 6
TOKEN_TYPE_INT32  == 7
TOKEN_TYPE_UINT32 == 8
TOKEN_TYPE_INT64  == 9
TOKEN_TYPE_UINT64 == 10
PrimitiveTypes    == 2 .. 12   (* the last two are INT16 and UINT16 *)

PrimitiveSize ==
  [t \in PrimitiveTypes |->
     CASE t \in {TOKEN_TYPE_BOOL, TOKEN_TYPE_BYTE, TOKEN_TYPE_CHAR}          -> 1
       [] t \in {TOKEN_TYPE_DOUBLE, TOKEN_TYPE_INT64, TOKEN_TYPE_UINT64}     -> 8
       [] t \in {TOKEN_TYPE_SINGLE, TOKEN_TYPE_INT32, TOKEN_TYPE_UINT32}     -> 4
       [] OTHER                                                              -> 2]

(* Mutant: a conversion takes the lowest byte of the value. *)
ConvertedSizeOfByte(type) == 1

(* BitConverter.ToChar wants two bytes, where the table has one. *)
ConvertedSize(type) == IF type = TOKEN_TYPE_CHAR THEN 2 ELSE PrimitiveSize[type]

(* Mutant: a conversion wants a byte to spare. *)
ConvertsToSpare(type, src, offset) ==
  type = TOKEN_TYPE_BYTE \/ offset + ConvertedSize(type) < Len(src)

(* Does the conversion find its bytes?  That of a byte takes src[0],       *)
(* wherever the token is.                                                  *)
Converts(type, src, offset) ==
  type = TOKEN_TYPE_BYTE \/ offset + ConvertedSize(type) <= Len(src)

ConvertPrimitive(type, src, offset) ==
  IF type = TOKEN_TYPE_BYTE THEN <<src[1]>>
  ELSE SubSeq(src, offset + 1, offset + ConvertedSize(type))

(* Where the token after one of this type is looked for.                   *)
(* Mutant: behind the bytes that were converted.                           *)
BehindConverted(type, offset) == offset + ConvertedSize(type)
Behind(type, offset) == offset + PrimitiveSize[type]

Thrown == [type |-> 0, content |-> <<>>, next |-> 0]

TypeAt(src, offset) == src[offset + 1] + 256 * src[offset + 2]

(* Read: the token and the offset behind it.  For an array, 0x0012 ..      *)
(* 0x001C, the size of its elements is looked up under the type of the     *)
(* array, which PrimitiveSize does not have: like all types that are not   *)
(* primitive it throws, and what follows the lookup is never reached.      *)
Read(src, offset) ==
  LET type == TypeAt(src, offset)
  IN  IF offset + 2 > Len(src) THEN Thrown
      ELSE IF type \notin DOMAIN PrimitiveSize THEN Thrown
      ELSE IF ~ Converts(type, src, offset + 2) THEN Thrown
      ELSE [ type    |-> type,
             content |-> ConvertPrimitive(type, src, offset + 2),
             next    |-> Behind(type, offset + 2) ]
=============================================================================
