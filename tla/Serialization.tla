--------------------------- MODULE Serialization ---------------------------
(***************************************************************************)
(* The serialization templates of serialize.h: how numbers, strings,       *)
(* containers and structures, nested in any way, become bytes and bytes    *)
(* become values again, and a stream that objects are put into and taken   *)
(* out of.                                                                 *)
(*                                                                         *)
(* A type is a record of its kind, the types of its parts (of), how deep   *)
(* they are nested (depth) and, where every object has it, its size in     *)
(* bytes.  An object is a type with a value:                               *)
(*   number  a number of size bytes       bool    0 or 1                   *)
(*   string  a sequence of bytes          flat    a block of size bytes    *)
(*   fixed   a string in a field of size bytes (CFixedFieldString)         *)
(*   vector  a sequence of of[1]          pair    <<of[1], of[2]>>         *)
(*   map     a sequence of pairs of[1]    struct  <<of[1], of[2]>>, its    *)
(*   set     a sequence of numbers of[1]          first field and the rest *)
(* The items of a map and of a set are in the order of their keys, as they *)
(* are traversed; keys are numbers.                                        *)
(*                                                                         *)
(* The stream has its exceptions on, as it is constructed, so a read of    *)
(* more than there is throws and the object is not returned; module        *)
(* DataStream models the stream itself.                                    *)
(***************************************************************************)
EXTENDS CompactSize, SequencesExt

CONSTANTS
  Block,       (* the elements a vector grows by while it is read: those of   *)
               (* 5000000 bytes                                               *)
  Types,       (* the types of the objects and of their parts                 *)
  MaxDepth,    (* how deep they are nested                                    *)
  Objects,     (* what may be put in the stream                               *)
  Garbage,     (* what may stand in a stream that somebody else has written   *)
  MaxObjects   (* bound on how many objects are put                           *)

Basic      == {"number", "bool", "string", "flat", "fixed"}
Wrappers   == {"flat", "fixed"}   (* what READWRITE may make of a field       *)
Containers == {"vector", "map", "set"}
Pairs      == {"pair", "struct"}

(* A type of the program: its parts are types, and a wrapper is part of    *)
(* nothing but a structure.                                                *)
WellFormed(type) ==
  /\ type.kind \in Basic \cup Containers \cup Pairs
  /\ type.depth \in 0 .. MaxDepth
  /\ type.of \in Seq(Types)
  /\ \A i \in DOMAIN type.of :
       /\ type.of[i].depth < type.depth
       /\ type.of[i].kind \in Wrappers => type.kind = "struct"
  /\ Len(type.of) = IF type.kind \in Basic THEN 0
                    ELSE IF type.kind \in Containers THEN 1 ELSE 2
  /\ type.kind = "number" => type.size \in 1 .. 8
  /\ type.kind \in Wrappers => type.size \in Nat \ {0}
  /\ type.kind = "bool"  => type.size = 1
  /\ type.kind = "fixed" => type.const \in BOOLEAN
  /\ type.kind = "set"   => type.of[1].kind = "number"
  /\ type.kind = "map"   => type.of[1].kind = "pair" /\ type.of[1].of[1].kind = "number"

SumOf(numbers) ==
  LET upTo[n \in 0 .. Len(numbers)] == IF n = 0 THEN 0 ELSE upTo[n - 1] + numbers[n]
  IN  upTo[Len(numbers)]

(* The key of an item of a map or a set. *)
Key(type, item) == IF type.kind = "map" THEN item[1] ELSE item

(* The values of a type, given those of its parts.  No memory holds a      *)
(* container whose size does not fit in an unsigned int.                   *)
Sized(seqs) == {v \in seqs : Len(v) <= UINT_MAX}
Values(type, of) ==
  CASE type.kind = "number"         -> 0 .. Power[type.size] - 1
    [] type.kind = "bool"           -> {0, 1}
    [] type.kind = "string"         -> Sized(Seq(Byte))
    [] type.kind = "flat"           -> {v \in Seq(Byte) : Len(v) = type.size}
    [] type.kind = "fixed"          -> Seq(Byte)
    [] type.kind = "vector"         -> Sized(Seq(of[1].values))
    [] type.kind \in {"map", "set"} ->
         {v \in Sized(Seq(of[1].values)) :
            \A i \in DOMAIN v, j \in DOMAIN v : i < j => Key(type, v[i]) < Key(type, v[j])}
    [] type.kind \in Pairs          -> of[1].values \X of[2].values
-----------------------------------------------------------------------------
(***************************************************************************)
(* The templates of a type, given those of its parts, of[i].               *)
(***************************************************************************)
(* strncpy: a string ends at its first zero; a field is filled with zeros, *)
(* and a string that fills it has none.                                    *)
UpToNul(str) == IF Contains(str, 0) THEN SubSeq(str, 1, SelectInSeq(str, LAMBDA b : b = 0) - 1)
                                    ELSE str
FixedField(str, size) == [i \in 1 .. size |-> IF i <= Len(UpToNul(str)) THEN str[i] ELSE 0]

Serialize(type, of, value) ==
  CASE type.kind \in {"number", "bool"} -> Bytes(value, type.size)
    [] type.kind = "string"             -> WriteCompactSize(Len(value)) \o value
    [] type.kind = "flat"               -> value
    [] type.kind = "fixed"              -> FixedField(value, type.size)
    [] type.kind \in Pairs              -> of[1].bytes[value[1]] \o of[2].bytes[value[2]]
    [] type.kind \in Containers         ->
         WriteCompactSize(Len(value))
           \o FlattenSeq([i \in DOMAIN value |-> of[1].bytes[value[i]]])

(* GetSerializeSize computes by itself how many bytes that will be. *)
GetSerializeSize(type, of, value) ==
  CASE type.kind = "string"     -> GetSizeOfCompactSize(Len(value)) + Len(value)
    [] type.kind \in Pairs      -> of[1].size[value[1]] + of[2].size[value[2]]
    [] type.kind \in Containers ->
         GetSizeOfCompactSize(Len(value)) + SumOf([i \in DOMAIN value |-> of[1].size[value[i]]])
    [] OTHER                    -> type.size

(* Mutant: a vector is given all its room at once. *)
RoomAtOnce(n, i) == n - i

(* The room beyond its i elements of a vector that is to have n of them. *)
Room(n, i) ==
  LET inBlock == Block - (i % Block)
  IN  IF n - i < inBlock THEN n - i ELSE inBlock

Larger(m, n) == IF m < n THEN n ELSE m

(* insert: before the first key that is not smaller; of a key that is      *)
(* there already, the first item is kept.                                  *)
LowerBound(type, items, key) ==
  CHOOSE p \in 1 .. Len(items) + 1 :
    /\ \A i \in 1 .. p - 1 : Key(type, items[i]) < key
    /\ p <= Len(items) => key <= Key(type, items[p])
Insert(type, items, item) ==
  LET p == LowerBound(type, items, Key(type, item))
  IN  IF p <= Len(items) /\ Key(type, items[p]) = Key(type, item)
      THEN items ELSE InsertAt(items, p, item)

(* Numbers are read a block at a time, and a block that is cut off leaves  *)
(* the stream where the block began.                                       *)
Begun(type, at, i) ==
  IF type.kind = "vector" /\ type.of[1].kind = "number"
  THEN at - (i % Block) * type.of[1].size
  ELSE at

(* Reads an item of a container after the first i of n. *)
UnserializeItem(type, of, s, n, i, before) ==
  LET r    == of[1].read[s][before.at]
      most == Larger(Larger(before.room, r.room),
                     IF type.kind = "vector" THEN Room(n, i) ELSE 0)
      with == IF type.kind = "vector" THEN Append(before.value, r.value)
                                      ELSE Insert(type, before.value, r.value)
  IN  IF ~ before.ok THEN before
      ELSE IF r.ok   THEN Result(TRUE, with, r.at, most)
      ELSE Result(FALSE, <<>>, Begun(type, r.at, i), most)

UnserializeItems(type, of, s, at, n) ==
  LET after[i \in 0 .. n] ==
        IF i = 0 THEN Result(TRUE, <<>>, at, 0)
                 ELSE UnserializeItem(type, of, s, n, i - 1, after[i - 1])
  IN  after[n]

UnserializePair(of, s, at) ==
  LET first  == of[1].read[s][at]
      second == of[2].read[s][first.at]
  IN  IF ~ first.ok THEN first
      ELSE Result(second.ok, <<first.value, second.value>>, second.at,
                  Larger(first.room, second.room))

(* A const string cannot be read into. *)
Unserialize(type, of, s, at) ==
  LET nSize     == ReadSize(s, at)
      block     == read(s, at, type.size)
      as(value) == IF block.ok THEN With(block, value) ELSE block
  IN  CASE type.kind = "number" -> ReadNumber(s, at, type.size)
        [] type.kind = "bool"   -> as(IF block.value = <<0>> THEN 0 ELSE 1)
        [] type.kind = "flat"   -> block
        [] type.kind = "fixed"  -> IF type.const THEN Result(FALSE, <<>>, at, 0)
                                                 ELSE as(UpToNul(block.value))
        [] type.kind = "string" ->
             IF nSize.ok THEN read(s, nSize.at, nSize.value) ELSE nSize
        [] type.kind \in Pairs      -> UnserializePair(of, s, at)
        [] type.kind \in Containers ->
             IF nSize.ok THEN UnserializeItems(type, of, s, nSize.at, nSize.value) ELSE nSize

(* READWRITE hands on its FLATDATA or CFixedFieldString as a temporary,    *)
(* which can be written and measured but not bound to Unserialize's        *)
(* reference: structures with such a field are never read.                 *)
Readable(type, of) ==
  \A i \in DOMAIN type.of : of[i].readable /\ type.of[i].kind \notin Wrappers

Instantiate(type, of) ==
  [ values   |-> Values(type, of),
    bytes    |-> [value \in Values(type, of) |-> Serialize(type, of, value)],
    size     |-> [value \in Values(type, of) |-> GetSerializeSize(type, of, value)],
    read     |-> [s \in Seq(Byte) |-> [at \in Nat |-> Unserialize(type, of, s, at)]],
    readable |-> Readable(type, of) ]

(* What the compiler makes of the templates for each type. *)
Template[type \in Types] ==
  LET part(i) == Template[type.of[i]]
      of == CASE type.kind \in Basic      -> <<>>
              [] type.kind \in Containers -> <<part(1)>>
              [] type.kind \in Pairs      -> <<part(1), part(2)>>
  IN  Instantiate(type, of)

ASSUME SerializationAssumption ==
  /\ Block \in Nat \ {0}
  /\ MaxDepth \in Nat
  /\ \A type \in Types : WellFormed(type)
  /\ \A o \in Objects : o.type \in Types /\ o.value \in Template[o.type].values
  /\ Garbage \subseteq Seq(Byte)
  /\ MaxObjects \in Nat
-----------------------------------------------------------------------------
(***************************************************************************)
(* A stream of objects.                                                    *)
(***************************************************************************)
VARIABLES
  bytes,     (* all that was put in the stream                                *)
  nReadPos,  (* how much of it was taken out                                  *)
  thrown,    (* did the last read throw?                                      *)
  harm,      (* what happened to the stream on its way: "none", "cut" (its    *)
             (* end was lost) or "garbled" (somebody else wrote the rest)     *)
  puts,      (* the objects put in                                            *)
  gets,      (* the values taken out                                          *)
  room       (* the most room any vector was given beyond what was read       *)

vars == <<bytes, nReadPos, thrown, harm, puts, gets, room>>

Init ==
  /\ bytes = <<>> /\ nReadPos = 0 /\ thrown = FALSE /\ harm = "none"
  /\ puts = <<>> /\ gets = <<>> /\ room = 0

(* operator << *)
Put(object) ==
  /\ harm = "none" /\ ~ thrown /\ Len(puts) < MaxObjects
  /\ bytes' = bytes \o Template[object.type].bytes[object.value]
  /\ puts' = Append(puts, object)
  /\ UNCHANGED <<nReadPos, thrown, harm, gets, room>>

(* operator >>, of an object of the type that was put in. *)
Get ==
  /\ ~ thrown /\ Len(gets) < Len(puts)
  /\ Template[puts[Len(gets) + 1].type].readable
  /\ \E r \in {Template[puts[Len(gets) + 1].type].read[bytes][nReadPos]} :
       /\ nReadPos' = r.at /\ thrown' = ~ r.ok
       /\ gets' = IF r.ok THEN Append(gets, r.value) ELSE gets
       /\ room' = Larger(room, r.room)
  /\ UNCHANGED <<bytes, harm, puts>>

(* What a broken connection or a short file does to the bytes to come, and *)
(* what a writer that is not this program does.                            *)
CutOff ==
  /\ harm = "none" /\ harm' = "cut"
  /\ \E n \in nReadPos .. Len(bytes) - 1 : bytes' = SubSeq(bytes, 1, n)
  /\ UNCHANGED <<nReadPos, thrown, puts, gets, room>>
Garble ==
  /\ harm = "none" /\ harm' = "garbled" /\ ~ thrown
  /\ \E rest \in Garbage : bytes' = SubSeq(bytes, 1, nReadPos) \o rest
  /\ UNCHANGED <<nReadPos, thrown, puts, gets, room>>

Next == (\E object \in Objects : Put(object)) \/ Get \/ CutOff \/ Garble

Spec == Init /\ [][Next]_vars
-----------------------------------------------------------------------------
Const(type) == type.kind = "fixed" /\ type.const

(* What its type keeps of a value: a field does not keep what is too long. *)
Kept(type, value) == IF type.kind = "fixed"
                     THEN UpToNul(FixedField(value, type.size)) ELSE value

(* Objects come out as they went in, whatever their types and however they *)
(* are nested.  Of a stream that was cut off those before the cut come out *)
(* and the one it went through throws, however it was cut; it is never     *)
(* returned with a part missing (Serialize and Unserialize of each type).  *)
RoundTrip ==
  harm # "garbled" =>
    /\ \A i \in DOMAIN gets : gets[i] = Kept(puts[i].type, puts[i].value)
    /\ thrown => harm = "cut" \/ Const(puts[Len(gets) + 1].type)
    /\ Len(gets) = Len(puts) /\ harm = "none" => nReadPos = Len(bytes)

(* Two functions know the size of an object: GetSerializeSize, which       *)
(* callers make room by, and Serialize, by what it writes.                 *)
SizesAgree ==
  harm = "none" => Len(bytes) = SumOf([i \in DOMAIN puts |->
                                         Template[puts[i].type].size[puts[i].value]])

(* Whatever stands in the stream, an object that is returned was read from *)
(* it: the bytes taken are there, and the values returned would take no    *)
(* more than those, bogus sizes, sizes longer than they need be and keys   *)
(* that occur twice included; and they are values of their types, with     *)
(* each key of a map or a set once (Unserialize of each type).             *)
NothingInvented ==
  /\ nReadPos <= Len(bytes)
  /\ \A i \in DOMAIN gets : gets[i] \in Template[puts[i].type].values
  /\ SumOf([i \in DOMAIN gets |-> Template[puts[i].type].size[gets[i]]]) <= nReadPos

(* "Limit size per read so bogus size value won't cause out of memory": a  *)
(* vector is never given room for more than one block beyond the elements  *)
(* that are really there, whatever size stands before them (Unserialize).  *)
RoomBounded == room <= Block
=============================================================================
