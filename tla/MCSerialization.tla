-------------------------- MODULE MCSerialization --------------------------
(***************************************************************************)
(* Instances of Serialization for TLC.  A byte has four values, so sizes   *)
(* of up to 0, 15 and 255 take one, three and five bytes.  No object put   *)
(* is larger: a stream holds none that long, and a reader would cut its    *)
(* size.  Garbage claims such sizes.                                       *)
(***************************************************************************)
EXTENDS Serialization

Basics(kind, size) == [kind |-> kind, size |-> size, of |-> <<>>, depth |-> 0]
Compound(kind, of) ==
  [kind |-> kind, of |-> of, depth |-> 1 + Max({of[i].depth : i \in DOMAIN of})]

Number(size)  == Basics("number", size)
Bool          == Basics("bool", 1)
String        == [kind |-> "string", of |-> <<>>, depth |-> 0]
Flat(size)    == Basics("flat", size)
Fixed(const)  == [kind |-> "fixed", size |-> 3, of |-> <<>>, depth |-> 0, const |-> const]
Pair(k, t)    == Compound("pair", <<k, t>>)
Struct(f, g)  == Compound("struct", <<f, g>>)
Vector(type)  == Compound("vector", <<type>>)
Map(k, t)     == Compound("map", <<Pair(k, t)>>)
KeySet        == Compound("set", <<Number(1)>>)

Object(type, value) == [type |-> type, value |-> value]
Letters(n) == [i \in 1 .. n |-> i % Base]

MCObjects ==
  { Object(Number(2), 7), Object(Bool, 1), Object(Flat(3), <<0, 2, 1>>) }
  \cup { Object(String, Letters(n)) : n \in {0, 1, 15, 16, 255} }
  \cup { Object(Fixed(FALSE), Letters(n)) : n \in {1, 3, 7} }
  \cup { Object(Fixed(TRUE), Letters(2)),
         Object(Vector(Number(2)), [i \in 1 .. 7 |-> i]),
         Object(Vector(Vector(String)), << <<Letters(1), <<>>>>, <<>>, <<Letters(2)>> >>),
         Object(Map(Number(1), String), << <<1, <<>>>>, <<3, Letters(1)>> >>),
         Object(Pair(KeySet, Vector(Number(1))), << <<0, 2, 3>>, <<1, 2, 3, 1, 2>> >>),
         Object(Struct(Number(2), Struct(Bool, Vector(Struct(String, Number(1))))),
                << 9, << 0, << <<Letters(2), 3>>, <<<<>>, 0>> >> >> >>),
         (* A ConnectServerRequest: event type, magic number, auth type, user name *)
         Object(Struct(Number(2), Struct(Number(4), Struct(Number(1), Flat(5)))),
                << 5, <<100, <<1, <<3, 2, 0, 0, 0>>>>>> >>) }

RECURSIVE PartsOf(_)
PartsOf(type) == {type} \cup UNION {PartsOf(type.of[i]) : i \in DOMAIN type.of}
MCTypes == UNION {PartsOf(object.type) : object \in MCObjects}

(* Sizes in each of their forms, true and bogus, and what follows. *)
Claims == { <<0>>, <<1, 2, 0>>, <<1, 3, 3>>, <<2, 1, 0, 0, 0>>, <<2, 3, 3, 3, 3>>,
            <<3, 1, 0, 0, 0, 1, 0, 0, 0>>, <<3, 3, 3, 3, 3, 3, 3, 3, 3>> }
MCGarbage ==
  BoundedSeq(0 .. Base - 1, 2)
  \cup { size \o [i \in 1 .. n |-> filler] : size \in Claims, n \in {0, 1, 2, 9},
         filler \in {0, 1, 3} }

(* The second line of serialize.h, "Host is assumed to be Little-Endian.   *)
(* Serialize to BE, and Unserialize from BE.": a number that is written    *)
(* stands in the stream with its highest byte first.                       *)
SerializesToBE ==
  harm = "none" /\ Len(puts) = 1 /\ puts[1].type.kind = "number" =>
    bytes = Reverse(Bytes(puts[1].value, puts[1].type.size))
=============================================================================
