---------------------------- MODULE MessageCodec ----------------------------
(***************************************************************************)
(* SerializationUtils, the fillers and the BytesUtils they use             *)
(* (BananaMessage.cs, BytesUtils.cs), at the real sizes of the fields, and *)
(* the tokens of a broadcast (Token.cs).  Each behaviour is one piece of   *)
(* work of the codec: a SerializeRequest of some request, write by write;  *)
(* the filling of one kind of message, byte by byte, as the bytes of such  *)
(* messages arrive one after another; or the reading of the tokens in an   *)
(* array of bytes that may be cut off, one after another.                  *)
(***************************************************************************)
EXTENDS BytesFiller, Token

CONSTANTS
  Names,      (* the usernames and passwords: records of a length and of      *)
              (* whether a character does not fit in a byte                   *)
  Messages,   (* messages as they are on the wire, big-endian                 *)
  MaxFed,     (* bound on the bytes fed to a filler                           *)
  Contents    (* sequences of tokens: records of a type and its bytes         *)

NameType == [length : 0 .. 256, wide : BOOLEAN]   (* the constructor's check  *)

EventTypeOf(m) == 256 * m[1] + m[2]
(* How long a message is that a server sends: as its type and, highest     *)
(* byte first like all numbers on the wire, its number of rooms say.       *)
SizeSent(m) ==
  FixedPartSize[EventTypeOf(m)]
    + (IF EventTypeOf(m) = EventType_SampleRooms THEN 4 * (256 * m[3] + m[4]) ELSE 0)

(* A token somebody wrote: a value of a primitive type has its size.       *)
UShort == 0 .. 256 * 256 - 1
WrittenToken ==
  {t \in [type : UShort, content : Seq(Byte)] :
     t.type \in PrimitiveTypes => Len(t.content) = PrimitiveSize[t.type]}

ASSUME CodecAssumption ==
  /\ FixedPartSize[EventType_ConnectServer] = 2 + 20 + 8 + 1
  /\ Names \subseteq NameType
  /\ Messages \subseteq Seq(Byte)
  /\ \A m \in Messages :
       Len(m) > 3 /\ EventTypeOf(m) \in EventTypes /\ Len(m) = SizeSent(m)
  /\ MaxFed \in Nat
  /\ Contents \subseteq Seq(WrittenToken)

VARIABLES
  work,      (* "serialize", "fill" or "read"                                 *)
  outcome,   (* of the last call: "none" yet, "returned" or "thrown"          *)
  request,   (* the request that is serialized                                *)
  step,      (* the next of its seven writes                                  *)
  offset,
  message,   (* the message that arrives, again and again                     *)
  fed,       (* the number of its bytes fed so far                            *)
  filler,
  completed, (* has the filler ever returned a message?                       *)
  content,   (* the tokens somebody wrote,                                    *)
  src,       (* what has arrived of their bytes,                              *)
  readAt,    (* the offset the last Read returned                             *)
  tokens     (* and the tokens read so far                                    *)

serializing == <<request, step, offset>>
filling     == <<message, fed, filler, completed>>
reading     == <<content, src, readAt, tokens>>
vars == <<work, outcome, serializing, filling, reading>>

NoName == [length |-> 0, wide |-> FALSE]
AuthTypes == [length : {1}, wide : BOOLEAN]   (* one char *)

NoRequest == [authType |-> [length |-> 1, wide |-> FALSE],
              username |-> NoName, password |-> NoName]
NoMessage == <<0, EventType_ConnectServer>>

(* A token as it is written: its type, two bytes, and its content. *)
Encoded(token) == <<token.type % 256, token.type \div 256>> \o token.content
EncodedAll(written) ==
  LET upTo[i \in 0 .. Len(written)] ==
        IF i = 0 THEN <<>> ELSE upTo[i - 1] \o Encoded(written[i])
  IN  upTo[Len(written)]

Init ==
  /\ outcome = "none" /\ step = 1 /\ offset = 0
  /\ fed = 0 /\ filler = NewFiller /\ completed = FALSE
  /\ readAt = 0 /\ tokens = <<>>
  /\ \/ /\ work = "serialize"
        /\ request \in [authType : AuthTypes, username : Names, password : Names]
        /\ message = NoMessage /\ content = <<>> /\ src = <<>>
     \/ /\ work = "fill" /\ message \in Messages
        /\ request = NoRequest /\ content = <<>> /\ src = <<>>
     \/ /\ work = "read" /\ content \in Contents
        /\ \E n \in 0 .. Len(EncodedAll(content)) : src = SubSeq(EncodedAll(content), 1, n)
        /\ request = NoRequest /\ message = NoMessage
-----------------------------------------------------------------------------
(***************************************************************************)
(* SerializeRequest of a ConnectServerRequest.                             *)
(***************************************************************************)
MessageSize == 2 + 4 + 1 + 256 + 256

(* n bytes are written.  The last write is followed by the check that the  *)
(* whole buffer was.                                                       *)
Wrote(n) ==
  /\ offset' = offset + n /\ step' = step + 1
  /\ outcome' = IF step < 7 THEN "none"
                ELSE IF offset' # MessageSize THEN "thrown" ELSE "returned"
Throws == outcome' = "thrown" /\ UNCHANGED <<step, offset>>

(* Mutants: the room that is left is not checked; what has no room is cut. *)
WriteBytesUnchecked(n) == Wrote(n)
WriteBytesCut(n) == IF offset + n >= MessageSize THEN Wrote(MessageSize - offset)
                                                 ELSE Wrote(n)

(* Array.Copy by hand: it wants one byte to spare in dest. *)
WriteBytes(n) == IF offset + n >= MessageSize THEN Throws ELSE Wrote(n)

(* One char after the other, each checked for itself.  Convert.ToByte      *)
(* throws for a character above 255.                                       *)
WriteArrayBytes(name) ==
  IF name.wide \/ offset + name.length > MessageSize THEN Throws
                                                     ELSE Wrote(name.length)

(* MagicNumber is a uint, and of the overloads char, ushort and ulong it   *)
(* is converted to ulong: eight bytes.                                     *)
SizeOfMagicNumber == 8

SerializeWrite ==
  /\ work = "serialize" /\ outcome = "none"
  /\ \/ step = 1 /\ WriteBytes(2)
     \/ step = 2 /\ WriteBytes(SizeOfMagicNumber)
     \/ step = 3 /\ WriteArrayBytes(request.authType)
     \/ step = 4 /\ WriteArrayBytes(request.username)
     \/ step = 5 /\ WriteBytes(256 - request.username.length)
     \/ step = 6 /\ WriteArrayBytes(request.password)
     \/ step = 7 /\ WriteBytes(256 - request.password.length)
  /\ UNCHANGED <<work, request, filling, reading>>
-----------------------------------------------------------------------------
(***************************************************************************)
(* Receiving feeds the filler of the message's type: the two bytes of the  *)
(* type the other way round, then what follows as it comes.                *)
(***************************************************************************)
(* The bytes a filler is to collect for a message. *)
Collected(m) == GetBytes(EventTypeOf(m)) \o SubSeq(m, 3, Len(m))

NextByte == Collected(message)[(fed % Len(message)) + 1]

FillByte ==
  /\ work = "fill" /\ outcome # "thrown" /\ fed < MaxFed
  /\ fed' = fed + 1
  /\ LET f == Fill(EventTypeOf(message), filler, NextByte)
     IN  /\ filler' = f
         /\ outcome' = IF TooBig(f) THEN "thrown"
                       ELSE IF Filled(f) THEN "returned" ELSE "none"
         /\ completed' = (completed \/ Filled(f))
  /\ UNCHANGED <<work, serializing, message, reading>>

(* Mutant: the fields of the response start one byte late. *)
SliceLate(data, start, len) == SubSeq(data, start + 2, start + len + 1)

(* BytesUtils.Slice *)
Slice(data, start, len) == SubSeq(data, start + 1, start + len)

(* DeserializeResponse of a ConnectServer response.  ToUInt64 takes the    *)
(* lowest byte first; userId here is the bytes of the number it makes, the *)
(* highest first.                                                          *)
DeserializeResponse(data) ==
  [ sessionId |-> Slice(data, 2, 20),
    userId    |-> [i \in 1 .. 8 |-> Slice(data, 22, 8)[9 - i]],
    errorCode |-> data[31] ]

-----------------------------------------------------------------------------
(* Token.Read, called again with the offset it returned, until it throws.  *)
ReadToken ==
  /\ work = "read" /\ outcome # "thrown"
  /\ LET r == Read(src, readAt)
     IN  IF r = Thrown
         THEN outcome' = "thrown" /\ UNCHANGED <<readAt, tokens>>
         ELSE /\ outcome' = "returned" /\ readAt' = r.next
              /\ tokens' = Append(tokens, [type |-> r.type, content |-> r.content])
  /\ UNCHANGED <<work, serializing, filling, content, src>>

Next == SerializeWrite \/ FillByte \/ ReadToken

Spec == Init /\ [][Next]_vars
-----------------------------------------------------------------------------
TypeOK ==
  /\ work \in {"serialize", "fill", "read"} /\ outcome \in {"none", "returned", "thrown"}
  /\ request \in [authType : AuthTypes, username : NameType, password : NameType]
  /\ step \in 1 .. 8 /\ offset \in Nat
  /\ message \in Seq(Byte) /\ fed \in Nat
  /\ filler \in FillerType /\ completed \in BOOLEAN
  /\ content \in Contents \cup {<<>>} /\ src \in Seq(Byte) /\ readAt \in Nat
  /\ tokens \in Seq([type : PrimitiveTypes, content : Seq(Byte)])

(* No write goes past the end of the buffer, whatever the lengths of the   *)
(* username and the password: each is checked before it is made            *)
(* (WriteBytes, WritePrimitiveBytes).                                      *)
WritesInBuffer == offset <= MessageSize

(* SerializeRequest never returns: with eight bytes of magic number and    *)
(* one byte to spare, even the shortest request is too big for the buffer. *)
NothingSerialized == work = "serialize" => outcome # "returned"

(* A filler answers with one whole message, never with part of one and     *)
(* never with bytes of the next (Fill).                                    *)
WholeMessages ==
  work = "fill" /\ outcome = "returned" => filler.buffer = Collected(message)

(* Until it has completed its message a filler holds no more bytes than    *)
(* the largest message has, whatever size the message claims (Fill).       *)
BufferBounded ==
  ~ completed => Len(filler.buffer) <= MaxMessageSize

(* Of a ConnectServer response the session and the error code arrive as    *)
(* they were sent.  The user id arrives with its bytes reversed: it is on  *)
(* the wire big-endian, and DeserializeResponse takes the buffer as it is, *)
(* lowest byte first.                                                      *)
FieldsDecoded ==
  work = "fill" /\ outcome = "returned"
  /\ EventTypeOf(message) = EventType_ConnectServer =>
    LET r == DeserializeResponse(filler.buffer)
    IN  /\ r.sessionId = SubSeq(message, 3, 22)
        /\ \A i \in 1 .. 8 : r.userId[i] = message[31 - i]
        /\ r.errorCode = message[31]

(* Reading stays on the boundaries of the tokens, and whatever was read    *)
(* was written, type and value.  The value of a byte is another matter: it *)
(* is the first byte of the array; and that of a char, which is made of    *)
(* the next token's first byte too (Read, ConvertPrimitive).               *)
TokensDecoded ==
  work = "read" =>
    /\ Len(tokens) <= Len(content)
    /\ readAt = Len(EncodedAll(SubSeq(content, 1, Len(tokens))))
    /\ \A i \in DOMAIN tokens :
         /\ tokens[i].type = content[i].type
         /\ tokens[i].type \notin {TOKEN_TYPE_BYTE, TOKEN_TYPE_CHAR}
              => tokens[i].content = content[i].content

(* What is cut off is not read, but for the byte that is never looked at.  *)
CutOffNoticed ==
  work = "read" /\ readAt > Len(src)
    => readAt = Len(src) + 1 /\ tokens[Len(tokens)].type = TOKEN_TYPE_BYTE

(* Read throws only for a token that is not there to its end, for a char   *)
(* that nothing follows, and for an array.                                 *)
WholeTokensRead ==
  work = "read" /\ outcome = "thrown" /\ Len(tokens) < Len(content) =>
    LET next == content[Len(tokens) + 1]
    IN  \/ readAt + Len(Encoded(next)) > Len(src)
        \/ next.type = TOKEN_TYPE_CHAR /\ readAt + Len(Encoded(next)) = Len(src)
        \/ next.type \notin PrimitiveTypes
=============================================================================
