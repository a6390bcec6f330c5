--------------------------- MODULE MCMessageCodec ---------------------------
(***************************************************************************)
(* Instances of MessageCodec for TLC, and what the tests say of it.        *)
(***************************************************************************)
EXTENDS MessageCodec, TLC

MCFixedPartSize == (EventType_ConnectServer :> 31) @@ (EventType_SampleRooms :> 5)

MCNames ==
  [length : {0, 1, 5, 251, 252, 253, 255, 256}, wide : BOOLEAN]

(* A response whose byte i is i, but for its event type. *)
Connected == <<0, 5>> \o [i \in 1 .. 29 |-> i + 2]
(* The response of the test ReceivingNetworkMessage. *)
Tested ==
  <<0, 5>> \o [i \in 1 .. 18 |-> IF i = 18 THEN 221 ELSE 0]
           \o [i \in 1 .. 8 |-> 0] \o <<162, 144, 0>>
Rooms(n) ==
  <<0, 7, n \div 256, n % 256, 0>> \o [i \in 1 .. 4 * n |-> 9]

MCMessages == {Connected, Tested} \cup {Rooms(n) : n \in {0, 1, 2, 255, 256, 257}}

(* Tokens whose bytes are neither their types' nor each other's, and one   *)
(* of each size and kind: a bool, a byte, a char, a double, an int, a      *)
(* short, an array of two bytes, and a type nobody knows.                  *)
Token(type, size) == [type |-> type, content |-> [i \in 1 .. size |-> 100 + type + i]]
MCTokens ==
  { Token(2, 1), Token(3, 1), Token(4, 1), Token(5, 8), Token(7, 4), Token(12, 2),
    [type |-> 19, content |-> <<2, 0, 0, 0, 50, 51>>], Token(13, 1) }
MCContents == UNION {[1 .. n -> MCTokens] : n \in 0 .. 3}

(* The request of the test SendingNetworkMessage ('A', "hello", "pass!"),  *)
(* whose bytes the test then wants to find in the stream, is serialized.   *)
SerializesRequests ==
  work = "serialize"
  /\ request = [authType |-> [length |-> 1, wide |-> FALSE],
                username |-> [length |-> 5, wide |-> FALSE],
                password |-> [length |-> 5, wide |-> FALSE]]
    => outcome # "thrown"
=============================================================================
