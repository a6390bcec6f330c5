------------------------- MODULE MessageCodecProofs -------------------------
(***************************************************************************)
(* Proofs about MessageCodec: what SerializeRequest comes to for every     *)
(* user name and password; how far a filler fills, and with what, for      *)
(* every message; and what Token.Read makes of every array of tokens.      *)
(*                                                                         *)
(* What a recursive function says of sequences of every length is proved   *)
(* by induction on sets of numbers (AllNumbers): the induction theorems of *)
(* the library want an operator, which the provers cannot give them.       *)
(***************************************************************************)
EXTENDS MessageCodec, BytesFillerProofs, WellFoundedInduction

LengthType == 0 .. 256

(* How much, o, is written before write s for a user name of length u and  *)
(* a password of length p, if all writes so far went well.                 *)
Reached(s, o, u, p) ==
  \/ s = 1 /\ o = 0
  \/ s = 2 /\ o = 2
  \/ s = 3 /\ o = 10
  \/ s = 4 /\ o = 11
  \/ s = 5 /\ o = 11 + u
  \/ s = 6 /\ o = 267
  \/ s = 7 /\ o = 267 + p

U == request.username.length
P == request.password.length

RequestTyped ==
  /\ request.authType.length = 1
  /\ request.username.length \in LengthType
  /\ request.password.length \in LengthType

(* The invariant of SerializeRequest: how far it is tells what it wrote;   *)
(* and by then the seventh write, to 523, has no room in a buffer of 519.  *)
SerializeInv ==
  /\ RequestTyped
  /\ offset \in Nat /\ offset <= MessageSize
  /\ work = "serialize" =>
       (outcome = "thrown" \/ (outcome = "none" /\ Reached(step, offset, U, P)))

(* The invariant of a filler: while no message was completed and none was  *)
(* too big it waits for more, and so has no more than the largest has.     *)
FillInv ==
  /\ work = "fill" => message \in Messages
  /\ fed \in Nat
  /\ work = "fill" => GoodFiller(EventTypeOf(message), filler)
  /\ work # "fill" => filler = NewFiller
  /\ ~ completed /\ outcome # "thrown" => Waiting(filler)
  /\ ~ completed => Len(filler.buffer) <= MaxMessageSize
-----------------------------------------------------------------------------
(* One write but the last: it throws, or writes n bytes into the buffer.   *)
LEMMA OneWrite ==
  ASSUME NEW n \in Nat, NEW name, offset \in Nat, step \in 1 .. 6,
         \/ WriteBytes(n)
         \/ WriteArrayBytes(name) /\ name.length = n
  PROVE  \/ outcome' = "thrown" /\ offset' = offset
         \/ /\ outcome' = "none" /\ step' = step + 1
            /\ offset' = offset + n /\ offset' <= MessageSize
<1>1. Throws => outcome' = "thrown" /\ offset' = offset
  BY DEF Throws
<1>2. Wrote(n) => outcome' = "none" /\ step' = step + 1 /\ offset' = offset + n
  <2>1. step < 7
    OBVIOUS
  <2> QED
    BY <2>1, Zenon DEF Wrote
<1>3. WriteBytes(n) => Throws \/ (Wrote(n) /\ offset + n <= MessageSize)
  BY DEF WriteBytes, MessageSize
<1>4. WriteArrayBytes(name) /\ name.length = n
        => Throws \/ (Wrote(n) /\ offset + n <= MessageSize)
  BY DEF WriteArrayBytes, MessageSize
<1> QED
  BY <1>1, <1>2, <1>3, <1>4

(* Each of the seven writes throws or gets as far as Reached says.         *)
LEMMA SerializeKeeps ==
  ASSUME SerializeInv, SerializeWrite PROVE SerializeInv'
<1>1. /\ work = "serialize" /\ outcome = "none" /\ Reached(step, offset, U, P)
      /\ request' = request /\ work' = work
  BY DEF SerializeInv, SerializeWrite
<1>2. U \in 0 .. 256 /\ P \in 0 .. 256 /\ offset \in Nat /\ offset <= MessageSize
  BY DEF SerializeInv, RequestTyped, LengthType, U, P
<1>3. RequestTyped' /\ U' = U /\ P' = P
  BY <1>1 DEF SerializeInv, RequestTyped, U, P
<1>4. ASSUME outcome' = "thrown", offset' = offset PROVE SerializeInv'
  BY <1>2, <1>3, <1>4 DEF SerializeInv, MessageSize
<1>5. ASSUME NEW n \in Nat, NEW name, step \in 1 .. 6,
             WriteBytes(n) \/ (WriteArrayBytes(name) /\ name.length = n),
             Reached(step + 1, offset + n, U, P)
      PROVE  SerializeInv'
  <2>1. CASE outcome' = "thrown" /\ offset' = offset
    BY <1>4, <2>1
  <2>2. CASE /\ outcome' = "none" /\ step' = step + 1
             /\ offset' = offset + n /\ offset' <= MessageSize
    <3>1. offset' \in Nat /\ Reached(step', offset', U', P')
      BY <1>2, <1>3, <1>5, <2>2
    <3> QED
      BY <1>3, <2>2, <3>1 DEF SerializeInv, MessageSize
  <2> QED
    BY <1>2, <1>5, <2>1, <2>2, OneWrite
<1>6. step \in 1 .. 7
  BY <1>1 DEF Reached
<1>7. CASE step = 1
  <2>1. WriteBytes(2) /\ Reached(step + 1, offset + 2, U, P)
    BY <1>1, <1>7 DEF SerializeWrite, Reached
  <2> QED
    BY <1>5, <1>7, <2>1
<1>8. CASE step = 2
  <2>1. WriteBytes(8) /\ Reached(step + 1, offset + 8, U, P)
    BY <1>1, <1>8 DEF SerializeWrite, SizeOfMagicNumber, Reached
  <2> QED
    BY <1>5, <1>8, <2>1
<1>9. CASE step = 3
  <2>1. /\ WriteArrayBytes(request.authType) /\ request.authType.length = 1
        /\ Reached(step + 1, offset + 1, U, P)
    BY <1>1, <1>9 DEF SerializeWrite, SerializeInv, RequestTyped, Reached
  <2> QED
    BY <1>5, <1>9, <2>1
<1>10. CASE step = 4
  <2>1. /\ WriteArrayBytes(request.username) /\ request.username.length = U
        /\ Reached(step + 1, offset + U, U, P)
    BY <1>1, <1>10 DEF SerializeWrite, Reached, U
  <2> QED
    BY <1>2, <1>5, <1>10, <2>1
<1>11. CASE step = 5
  <2>1. WriteBytes(256 - U)
    BY <1>11 DEF SerializeWrite, U
  <2>2. 256 - U \in Nat /\ Reached(step + 1, offset + (256 - U), U, P)
    BY <1>1, <1>2, <1>11 DEF Reached
  <2> QED
    BY <1>5, <1>11, <2>1, <2>2
<1>12. CASE step = 6
  <2>1. /\ WriteArrayBytes(request.password) /\ request.password.length = P
        /\ Reached(step + 1, offset + P, U, P)
    BY <1>1, <1>12 DEF SerializeWrite, Reached, P
  <2> QED
    BY <1>2, <1>5, <1>12, <2>1
<1>13. CASE step = 7
  <2>1. WriteBytes(256 - P)
    BY <1>13 DEF SerializeWrite, P
  <2>2. offset + (256 - P) >= MessageSize
    BY <1>1, <1>2, <1>13 DEF Reached, MessageSize
  <2>3. outcome' = "thrown" /\ offset' = offset
    BY <2>1, <2>2 DEF WriteBytes, Throws
  <2> QED
    BY <1>4, <2>3
<1> QED
  BY <1>6, <1>7, <1>8, <1>9, <1>10, <1>11, <1>12, <1>13

(* The work that is not done in a behaviour keeps its invariant.           *)
LEMMA SerializeInvAlways == Spec => []SerializeInv
<1>1. Init => SerializeInv
  <2> SUFFICES ASSUME Init PROVE SerializeInv
    OBVIOUS
  <2>1. RequestTyped
    <3>1. \A name \in Names : name.length \in LengthType
      BY CodecAssumption DEF NameType, LengthType
    <3>2. CASE request \in [authType : AuthTypes, username : Names, password : Names]
      BY <3>1, <3>2 DEF RequestTyped, AuthTypes
    <3>3. CASE request = NoRequest
      BY <3>3 DEF RequestTyped, NoRequest, NoName, LengthType
    <3> QED
      BY <3>2, <3>3 DEF Init
  <2>2. step = 1 /\ offset = 0 /\ outcome = "none"
    BY DEF Init
  <2> QED
    BY <2>1, <2>2 DEF SerializeInv, Reached, MessageSize
<1>2. SerializeInv /\ FillByte => SerializeInv'
  <2> SUFFICES ASSUME SerializeInv, FillByte PROVE SerializeInv'
    OBVIOUS
  <2>1. work' = "fill" /\ request' = request /\ offset' = offset
    BY DEF FillByte, serializing
  <2> QED
    BY <2>1 DEF SerializeInv, RequestTyped, MessageSize
<1>3. SerializeInv /\ ReadToken => SerializeInv'
  <2> SUFFICES ASSUME SerializeInv, ReadToken PROVE SerializeInv'
    OBVIOUS
  <2>1. work = "read" /\ work' = work /\ request' = request /\ offset' = offset
    BY DEF ReadToken, serializing
  <2> QED
    BY <2>1 DEF SerializeInv, RequestTyped, MessageSize
<1>4. SerializeInv /\ UNCHANGED vars => SerializeInv'
  BY DEF SerializeInv, RequestTyped, vars, serializing, U, P, MessageSize
<1> QED
  BY <1>1, <1>2, <1>3, <1>4, SerializeKeeps, PTL DEF Spec, Next

(* No write of SerializeRequest goes past the end of its buffer, for any   *)
(* user name and password (WriteBytes, WritePrimitiveBytes).               *)
THEOREM WritesStayInside == Spec => []WritesInBuffer
<1>1. SerializeInv => WritesInBuffer
  BY DEF SerializeInv, WritesInBuffer
<1> QED
  BY <1>1, SerializeInvAlways, PTL

(* SerializeRequest throws for every request there is: the magic number    *)
(* takes eight bytes where four are counted (SerializeRequest).            *)
THEOREM NothingIsSerialized == Spec => []NothingSerialized
<1>1. SerializeInv => NothingSerialized
  BY DEF SerializeInv, NothingSerialized
<1> QED
  BY <1>1, SerializeInvAlways, PTL
-----------------------------------------------------------------------------
(* The bytes of a message a filler is to collect, one for each of its.      *)
LEMMA CollectedType ==
  ASSUME NEW m \in Messages
  PROVE  /\ Collected(m) \in Seq(Byte) /\ Len(Collected(m)) = Len(m)
         /\ \A i \in 3 .. Len(m) : Collected(m)[i] = m[i]
<1>1. m \in Seq(Byte) /\ Len(m) > 3 /\ EventTypeOf(m) \in EventTypes
  BY CodecAssumption
<1> DEFINE type == GetBytes(EventTypeOf(m))
           rest == SubSeq(m, 3, Len(m))
<1>2. type \in Seq(Byte) /\ Len(type) = 2
  <2>1. \A n \in EventTypes : n % 256 \in Byte /\ n \div 256 \in Byte
    BY DEF EventTypes, EventType_ConnectServer, EventType_SampleRooms, Byte
  <2> QED
    BY <1>1, <2>1 DEF GetBytes
<1>3. /\ rest \in Seq(Byte) /\ Len(rest) = Len(m) - 2
      /\ \A i \in 1 .. Len(m) - 2 : rest[i] = m[i + 2]
  <2>1. Len(m) \in Nat /\ \A i \in 3 .. Len(m) : m[i] \in Byte
    BY <1>1
  <2>2. /\ rest \in Seq(Byte)
        /\ Len(rest) = IF 3 <= Len(m) THEN Len(m) - 3 + 1 ELSE 0
        /\ \A i \in 1 .. Len(m) - 3 + 1 : rest[i] = m[3 + i - 1]
    BY <2>1, SubSeqProperties
  <2> HIDE DEF rest
  <2> QED
    BY <1>1, <2>1, <2>2
<1>4. Collected(m) = type \o rest
  BY DEF Collected
<1> HIDE DEF type, rest
<1>5. /\ type \o rest \in Seq(Byte) /\ Len(type \o rest) = Len(type) + Len(rest)
      /\ \A i \in 1 .. Len(type) + Len(rest) :
           (type \o rest)[i] = IF i <= Len(type) THEN type[i] ELSE rest[i - Len(type)]
  BY <1>2, <1>3, ConcatProperties
<1>6. ASSUME NEW i \in 3 .. Len(m) PROVE (type \o rest)[i] = m[i]
  <2>1. i \in 1 .. Len(type) + Len(rest) /\ ~ (i <= Len(type)) /\ i - 2 \in 1 .. Len(m) - 2
    BY <1>1, <1>2, <1>3
  <2>2. (type \o rest)[i] = rest[i - 2]
    BY <1>2, <1>5, <2>1
  <2>3. rest[i - 2] = m[(i - 2) + 2]
    BY <1>3, <2>1
  <2>4. (i - 2) + 2 = i
    OBVIOUS
  <2> QED
    BY <2>2, <2>3, <2>4
<1>7. Len(type) + Len(rest) = Len(m)
  BY <1>1, <1>2, <1>3
<1> QED
  BY <1>4, <1>5, <1>6, <1>7

(* A message that arrives has an event type with a filler, and each byte a *)
(* filler is given is a byte.                                              *)
LEMMA MessageBytes ==
  ASSUME NEW m \in Messages
  PROVE  /\ EventTypeOf(m) \in EventTypes /\ Len(m) \in Nat \ {0}
         /\ \A i \in 1 .. Len(m) : Collected(m)[i] \in Byte
<1>1. m \in Seq(Byte) /\ Len(m) > 3 /\ EventTypeOf(m) \in EventTypes
  BY CodecAssumption
<1>2. Collected(m) \in Seq(Byte) /\ Len(Collected(m)) = Len(m)
  BY CollectedType
<1> QED
  BY <1>1, <1>2, ElementOfSeq

(* One more byte, and the filler is full, or throws, or waits on.          *)
LEMMA FillKeeps ==
  ASSUME FillInv, FillByte PROVE FillInv'
<1>1. /\ work = "fill" /\ work' = work /\ message' = message /\ message \in Messages
      /\ outcome # "thrown" /\ fed' = fed + 1 /\ fed \in Nat
      /\ GoodFiller(EventTypeOf(message), filler)
  BY DEF FillInv, FillByte
<1>2. EventTypeOf(message) \in EventTypes /\ NextByte \in Byte
  <2>1. (fed % Len(message)) + 1 \in 1 .. Len(message)
    <3>1. \A k \in Nat \ {0}, n \in Nat : (n % k) + 1 \in 1 .. k
      OBVIOUS
    <3> QED
      BY <1>1, <3>1, MessageBytes
  <2> QED
    BY <1>1, <2>1, MessageBytes DEF NextByte
<1> DEFINE f == Fill(EventTypeOf(message), filler, NextByte)
<1>3. /\ filler' = f
      /\ outcome' = IF TooBig(f) THEN "thrown" ELSE IF Filled(f) THEN "returned" ELSE "none"
      /\ completed' = (completed \/ Filled(f))
  BY DEF FillByte
<1>4. GoodFiller(EventTypeOf(message), f)
  BY <1>1, <1>2, FillGood
<1>5. Waiting(filler) => /\ Len(f.buffer) <= MaxMessageSize
                         /\ Filled(f) \/ TooBig(f) \/ Waiting(f)
  BY <1>1, <1>2, WaitingStays
<1>6. ~ completed => Waiting(filler)
  BY <1>1 DEF FillInv
<1> HIDE DEF f
<1>7. ~ completed' => ~ completed /\ ~ Filled(f)
  BY <1>3, Zenon
<1>8. ~ completed' /\ outcome' # "thrown" => Waiting(f)
  BY <1>3, <1>5, <1>6, <1>7
<1>9. ~ completed' => Len(f.buffer) <= MaxMessageSize
  BY <1>5, <1>6, <1>7
<1> QED
  BY <1>1, <1>3, <1>4, <1>8, <1>9 DEF FillInv

(* Until it completes a message a filler holds at most as many bytes as    *)
(* the largest message has, whatever size the message claims (Fill).       *)
THEOREM BufferStaysBounded == Spec => []BufferBounded
<1>1. Init => FillInv
  <2> SUFFICES ASSUME Init PROVE FillInv
    OBVIOUS
  <2>1. work = "fill" => message \in Messages
    BY DEF Init
  <2>2. filler = NewFiller /\ Len(NewFiller.buffer) = 0 /\ fed = 0
    BY DEF Init, NewFiller
  <2>3. work = "fill" => GoodFiller(EventTypeOf(message), filler)
    BY <2>1, <2>2, MessageBytes, NewFillerGood
  <2>4. 0 <= MaxMessageSize
    BY FillerAssumption
  <2> QED
    BY <2>1, <2>2, <2>3, <2>4 DEF FillInv, Waiting
<1>2. FillInv /\ SerializeWrite => FillInv'
  <2> SUFFICES ASSUME FillInv, SerializeWrite PROVE FillInv'
    OBVIOUS
  <2>1. /\ work' = "serialize" /\ work = "serialize"
        /\ outcome = "none" /\ filler' = filler /\ completed' = completed
        /\ fed' = fed
    BY DEF SerializeWrite, filling
  <2> QED
    BY <2>1 DEF FillInv
<1>3. FillInv /\ ReadToken => FillInv'
  <2> SUFFICES ASSUME FillInv, ReadToken PROVE FillInv'
    OBVIOUS
  <2>1. /\ work = "read" /\ work' = work /\ outcome # "thrown"
        /\ filler' = filler /\ completed' = completed /\ fed' = fed
    BY DEF ReadToken, filling
  <2> QED
    BY <2>1 DEF FillInv
<1>4. FillInv /\ UNCHANGED vars => FillInv'
  BY DEF FillInv, vars, filling, EventTypeOf
<1>5. FillInv => BufferBounded
  BY DEF FillInv, BufferBounded
<1> QED
  BY <1>1, <1>2, <1>3, <1>4, <1>5, FillKeeps, PTL DEF Spec, Next
-----------------------------------------------------------------------------
(* The size of the variable part a filler takes a message to have.         *)
Claimed(m) == GetVariablePartMessageSize(EventTypeOf(m), Collected(m))
Fixed(m)   == FixedPartSize[EventTypeOf(m)]

(* A buffer that begins as the message does, as far as both go.            *)
Gathers(buffer, m) ==
  \A i \in 1 .. Len(m) : i <= Len(buffer) => buffer[i] = Collected(m)[i]

(* How large a message a filler waits for that has got n bytes of it.      *)
SizeFits(size, n, m) ==
  size >= Fixed(m) /\ IF Claimed(m) = 0 THEN size = Fixed(m) ELSE size > n

(* The invariant of what a filler holds: the message from its first byte;  *)
(* and a size that it never reaches if the message claims a variable part, *)
(* since that is added again each time it is about to be reached.          *)
GatherInv ==
  work = "fill" =>
    /\ message \in Messages /\ filler \in FillerType
    /\ fed = Len(filler.buffer) /\ Gathers(filler.buffer, message)
    /\ fed = 0 => filler.messageSize = 0
    /\ fed > 0 => SizeFits(filler.messageSize, fed, message)
    /\ outcome = "returned" => Claimed(message) = 0 /\ fed = Fixed(message)

(* Only a message that has no variable part is taken to have none, and     *)
(* that one is as long as its fixed part.                                  *)
LEMMA ClaimOfMessage ==
  ASSUME NEW m \in Messages
  PROVE  /\ Fixed(m) \in Nat /\ Fixed(m) > 2 /\ Fixed(m) <= Len(m)
         /\ EventTypeOf(m) = EventType_SampleRooms => Fixed(m) > 3
         /\ Claimed(m) \in Nat
         /\ Claimed(m) = 0 => Len(m) = Fixed(m)
<1>1. /\ m \in Seq(Byte) /\ Len(m) > 3 /\ EventTypeOf(m) \in EventTypes
      /\ Len(m) = SizeSent(m) /\ Len(m) \in Nat
  BY CodecAssumption
<1>2. /\ Fixed(m) \in Nat /\ Fixed(m) > 2
      /\ EventTypeOf(m) = EventType_SampleRooms => Fixed(m) > 3
  BY <1>1, FillerAssumption DEF Fixed, EventTypes
<1>3. CASE EventTypeOf(m) = EventType_SampleRooms
  <2>1. m[3] \in Byte /\ m[4] \in Byte
    <3>1. 3 \in 1 .. Len(m) /\ 4 \in 1 .. Len(m)
      BY <1>1
    <3> QED
      BY <1>1, <3>1, ElementOfSeq
  <2>2. Collected(m)[3] = m[3] /\ Collected(m)[4] = m[4]
    BY <1>1, CollectedType
  <2>3. Claimed(m) = 4 * (m[3] + 256 * m[4])
    BY <1>3, <2>2 DEF Claimed, GetVariablePartMessageSize, ToUInt16
  <2>4. Len(m) = Fixed(m) + 4 * (256 * m[3] + m[4])
    BY <1>1, <1>3 DEF SizeSent, Fixed
  <2>5. \A x, y \in Byte :
          /\ 4 * (x + 256 * y) \in Nat /\ 4 * (256 * x + y) \in Nat
          /\ 4 * (x + 256 * y) = 0 => 4 * (256 * x + y) = 0
    BY DEF Byte
  <2>6. /\ 4 * (m[3] + 256 * m[4]) \in Nat /\ 4 * (256 * m[3] + m[4]) \in Nat
        /\ 4 * (m[3] + 256 * m[4]) = 0 => 4 * (256 * m[3] + m[4]) = 0
    BY <2>1, <2>5, Zenon
  <2> QED
    BY <1>2, <2>3, <2>4, <2>6
<1>4. CASE EventTypeOf(m) # EventType_SampleRooms
  <2>1. Claimed(m) = 0 /\ Len(m) = Fixed(m) + 0
    BY <1>1, <1>4 DEF Claimed, GetVariablePartMessageSize, SizeSent, Fixed
  <2> QED
    BY <1>2, <2>1
<1> QED
  BY <1>3, <1>4

(* The claim is read from the fixed part, where the message is gathered.   *)
LEMMA ClaimGathered ==
  ASSUME NEW m \in Messages, NEW buffer \in Seq(Byte), Gathers(buffer, m),
         Len(buffer) >= Fixed(m)
  PROVE  GetVariablePartMessageSize(EventTypeOf(m), buffer) = Claimed(m)
<1>1. CASE EventTypeOf(m) = EventType_SampleRooms
  <2>1. Len(buffer) \in Nat /\ Len(m) \in Nat
    BY CodecAssumption
  <2>2. /\ 3 \in 1 .. Len(m) /\ 4 \in 1 .. Len(m)
        /\ 3 <= Len(buffer) /\ 4 <= Len(buffer)
    BY <1>1, <2>1, ClaimOfMessage
  <2>3. buffer[3] = Collected(m)[3] /\ buffer[4] = Collected(m)[4]
    BY <2>2 DEF Gathers
  <2> QED
    BY <2>3 DEF Claimed, GetVariablePartMessageSize, ToUInt16
<1>2. CASE EventTypeOf(m) # EventType_SampleRooms
  BY <1>2 DEF Claimed, GetVariablePartMessageSize
<1> QED
  BY <1>1, <1>2

(* One more byte: the filler still holds the message from its first byte,  *)
(* and still waits for more than a message with a variable part has.       *)
LEMMA GatherKeeps ==
  ASSUME GatherInv, FillByte PROVE GatherInv'
<1>1. /\ work = "fill" /\ work' = work /\ message' = message /\ fed' = fed + 1
      /\ message \in Messages /\ filler \in FillerType
      /\ fed = Len(filler.buffer) /\ Gathers(filler.buffer, message)
  BY DEF GatherInv, FillByte
<1> DEFINE b      == NextByte
           filled == Append(filler.buffer, b)
           known  == IF filler.messageSize = 0 THEN Fixed(message)
                                               ELSE filler.messageSize
           f      == Fill(EventTypeOf(message), filler, b)
<1>2. /\ fed \in Nat /\ filler.messageSize \in Nat /\ filler.buffer \in Seq(Byte)
      /\ Len(message) \in Nat /\ Len(message) > 3
  BY <1>1, CodecAssumption DEF FillerType
<1>3. b \in Byte /\ (fed + 1 <= Len(message) => b = Collected(message)[fed + 1])
  <2>1. \A k \in Nat \ {0}, n \in Nat :
          (n % k) + 1 \in 1 .. k /\ (n + 1 <= k => n % k = n)
    OBVIOUS
  <2>2. /\ (fed % Len(message)) + 1 \in 1 .. Len(message)
        /\ fed + 1 <= Len(message) => fed % Len(message) = fed
    BY <1>2, <2>1
  <2>3. b \in Byte
    BY <1>1, <2>2, MessageBytes DEF NextByte
  <2> QED
    BY <2>2, <2>3 DEF NextByte
<1>4. /\ filler' = f
      /\ outcome' = IF TooBig(f) THEN "thrown" ELSE IF Filled(f) THEN "returned" ELSE "none"
  BY DEF FillByte
<1>5. /\ f.buffer = filled
      /\ f.messageSize = IF Len(filled) = known
                         THEN known + GetVariablePartMessageSize(EventTypeOf(message), filled)
                         ELSE known
  BY DEF Fill, Fixed
<1> HIDE DEF b, f
<1>6. /\ filled \in Seq(Byte) /\ Len(filled) = fed + 1 /\ filled[fed + 1] = b
      /\ \A i \in 1 .. fed : filled[i] = filler.buffer[i]
  BY <1>1, <1>2, <1>3, AppendProperties
<1> HIDE DEF filled
<1>7. Gathers(filled, message)
  <2> SUFFICES ASSUME NEW i \in 1 .. Len(message), i <= Len(filled)
               PROVE  filled[i] = Collected(message)[i]
    BY DEF Gathers
  <2>1. CASE i = fed + 1
    BY <1>3, <1>6, <2>1
  <2>2. CASE i # fed + 1
    <3>1. i \in 1 .. fed
      BY <1>2, <1>6, <2>2
    <3> QED
      BY <1>1, <1>6, <3>1 DEF Gathers
  <2> QED
    BY <2>1, <2>2
<1>8. /\ Fixed(message) \in Nat /\ Fixed(message) > 2 /\ Claimed(message) \in Nat
  BY <1>1, ClaimOfMessage
<1>9. known \in Nat /\ SizeFits(known, fed, message)
  <2>1. CASE fed = 0
    <3>1. known = Fixed(message)
      BY <1>1, <2>1 DEF GatherInv
    <3> QED
      BY <1>8, <2>1, <3>1 DEF SizeFits
  <2>2. CASE fed > 0
    <3>1. SizeFits(filler.messageSize, fed, message)
      BY <1>1, <2>2 DEF GatherInv
    <3>2. filler.messageSize # 0
      BY <1>2, <1>8, <3>1 DEF SizeFits
    <3> QED
      BY <1>2, <3>1, <3>2
  <2> QED
    BY <1>2, <2>1, <2>2
<1> HIDE DEF known
<1>10. ASSUME Len(filled) = known
       PROVE  f.messageSize = known + Claimed(message)
  <2>1. Len(filled) >= Fixed(message)
    BY <1>9, <1>10 DEF SizeFits
  <2>2. GetVariablePartMessageSize(EventTypeOf(message), filled) = Claimed(message)
    BY <1>1, <1>6, <1>7, <2>1, ClaimGathered
  <2> QED
    BY <1>5, <1>10, <2>2
<1>11. SizeFits(f.messageSize, fed + 1, message)
  <2>1. CASE Len(filled) = known
    BY <1>2, <1>6, <1>8, <1>9, <1>10, <2>1 DEF SizeFits
  <2>2. CASE Len(filled) # known
    BY <1>2, <1>5, <1>6, <1>8, <1>9, <2>2 DEF SizeFits
  <2> QED
    BY <2>1, <2>2
<1>12. f \in FillerType
  <2>1. f.messageSize \in Nat
    BY <1>5, <1>8, <1>9, <1>10
  <2> QED
    BY <1>5, <1>6, <2>1 DEF f, Fill, FillerType
<1>13. outcome' = "returned" => Claimed(message) = 0 /\ fed' = Fixed(message)
  <2> SUFFICES ASSUME outcome' = "returned"
               PROVE  Claimed(message) = 0 /\ fed' = Fixed(message)
    OBVIOUS
  <2>1. Len(f.buffer) = f.messageSize
    BY <1>4 DEF Filled
  <2> QED
    BY <1>1, <1>2, <1>5, <1>6, <1>8, <1>11, <2>1 DEF SizeFits
<1>14. fed' = Len(filler'.buffer) /\ Gathers(filler'.buffer, message')
  BY <1>1, <1>4, <1>5, <1>6, <1>7
<1>15. fed' > 0
  BY <1>1, <1>2
<1>16. Claimed(message)' = Claimed(message) /\ Fixed(message)' = Fixed(message)
  BY <1>1
<1> QED
  BY <1>1, <1>4, <1>11, <1>12, <1>13, <1>14, <1>15, <1>16 DEF GatherInv

(* The work that is not done in a behaviour keeps its invariant.           *)
LEMMA GatherInvAlways == Spec => []GatherInv
<1>1. Init => GatherInv
  <2> SUFFICES ASSUME Init, work = "fill" PROVE GatherInv
    BY DEF GatherInv
  <2>1. /\ message \in Messages /\ filler = NewFiller /\ fed = 0
        /\ outcome = "none"
    BY DEF Init
  <2>2. filler \in FillerType /\ Len(filler.buffer) = 0 /\ filler.messageSize = 0
    BY <2>1 DEF NewFiller, FillerType
  <2>3. Gathers(filler.buffer, message)
    BY <2>2 DEF Gathers
  <2> QED
    BY <2>1, <2>2, <2>3 DEF GatherInv
<1>2. GatherInv /\ (SerializeWrite \/ ReadToken) => GatherInv'
  BY DEF GatherInv, SerializeWrite, ReadToken
<1>3. GatherInv /\ UNCHANGED vars => GatherInv'
  BY DEF GatherInv, vars, filling
<1> QED
  BY <1>1, <1>2, <1>3, GatherKeeps, PTL DEF Spec, Next

(* A filler that answers holds its message, byte for byte.                 *)
LEMMA WholeWhenReturned ==
  ASSUME GatherInv, work = "fill", outcome = "returned"
  PROVE  /\ message \in Messages
         /\ filler.buffer = Collected(message) /\ Len(message) = Fixed(message)
<1>1. /\ message \in Messages /\ filler.buffer \in Seq(Byte)
      /\ Len(filler.buffer) = Fixed(message) /\ Claimed(message) = 0
      /\ Gathers(filler.buffer, message)
  BY DEF GatherInv, FillerType
<1>2. Len(message) = Fixed(message)
  BY <1>1, ClaimOfMessage
<1>3. /\ Collected(message) \in Seq(Byte)
      /\ Len(Collected(message)) = Len(filler.buffer)
  BY <1>1, <1>2, CollectedType
<1>4. \A i \in 1 .. Len(filler.buffer) : filler.buffer[i] = Collected(message)[i]
  BY <1>1, <1>2 DEF Gathers
<1>5. filler.buffer = Collected(message)
  BY <1>1, <1>3, <1>4, SeqEqual
<1> QED
  BY <1>1, <1>2, <1>5

(* Every message a filler answers with is the one that arrived, whole, for *)
(* messages of both types and any bytes, and however many of them arrive   *)
(* (Fill).                                                                 *)
THEOREM MessagesAreWhole == Spec => []WholeMessages
<1>1. GatherInv => WholeMessages
  BY WholeWhenReturned DEF WholeMessages
<1> QED
  BY <1>1, GatherInvAlways, PTL

(* The session and the error code of every response arrive as they were    *)
(* sent, and the bytes of the user id in the reverse order                 *)
(* (DeserializeResponse).                                                  *)
THEOREM FieldsAreDecoded == Spec => []FieldsDecoded
<1>1. GatherInv => FieldsDecoded
  <2> SUFFICES ASSUME GatherInv, work = "fill", outcome = "returned",
                      EventTypeOf(message) = EventType_ConnectServer
               PROVE  LET r == DeserializeResponse(filler.buffer)
                      IN  /\ r.sessionId = SubSeq(message, 3, 22)
                          /\ \A i \in 1 .. 8 : r.userId[i] = message[31 - i]
                          /\ r.errorCode = message[31]
    BY DEF FieldsDecoded
  <2> DEFINE data == filler.buffer
  <2>1. /\ message \in Messages /\ data = Collected(message)
        /\ Len(message) = 31
    BY WholeWhenReturned, CodecAssumption DEF Fixed
  <2>2. /\ message \in Seq(Byte) /\ data \in Seq(Byte) /\ Len(data) = 31
        /\ \A i \in 3 .. 31 : data[i] = message[i]
    BY <2>1, CollectedType, CodecAssumption
  <2> HIDE DEF data
  <2>3. /\ \A i \in 1 .. 31 : data[i] \in Byte
        /\ \A i \in 1 .. 31 : message[i] \in Byte
    BY <2>1, <2>2, ElementOfSeq
  <2>4. SubSeq(data, 3, 22) = SubSeq(message, 3, 22)
    <3>1. /\ SubSeq(data, 3, 22) \in Seq(Byte) /\ SubSeq(message, 3, 22) \in Seq(Byte)
          /\ Len(SubSeq(data, 3, 22)) = 20 /\ Len(SubSeq(message, 3, 22)) = 20
          /\ \A i \in 1 .. 20 : SubSeq(data, 3, 22)[i] = data[3 + i - 1]
          /\ \A i \in 1 .. 20 : SubSeq(message, 3, 22)[i] = message[3 + i - 1]
      BY <2>3, SubSeqProperties
    <3>2. ASSUME NEW i \in 1 .. 20
          PROVE  SubSeq(data, 3, 22)[i] = SubSeq(message, 3, 22)[i]
      <4>1. 3 + i - 1 \in 3 .. 31
        OBVIOUS
      <4>2. data[3 + i - 1] = message[3 + i - 1]
        BY <2>2, <4>1
      <4> QED
        BY <3>1, <4>2, Zenon
    <3> QED
      BY <3>1, <3>2, SeqEqual
  <2>5. ASSUME NEW i \in 1 .. 8 PROVE SubSeq(data, 23, 30)[9 - i] = message[31 - i]
    <3>1. \A j \in 1 .. 8 : SubSeq(data, 23, 30)[j] = data[23 + j - 1]
      BY <2>3, SubSeqProperties
    <3>2. SubSeq(data, 23, 30)[9 - i] = data[23 + (9 - i) - 1]
      BY <3>1
    <3>3. 23 + (9 - i) - 1 = 31 - i /\ 31 - i \in 3 .. 31
      OBVIOUS
    <3> QED
      BY <2>2, <3>2, <3>3
  <2>6. Slice(data, 2, 20) = SubSeq(data, 3, 22) /\ Slice(data, 22, 8) = SubSeq(data, 23, 30)
    BY DEF Slice
  <2> QED
    BY <2>2, <2>4, <2>5, <2>6 DEF DeserializeResponse, data
<1> QED
  BY <1>1, GatherInvAlways, PTL
-----------------------------------------------------------------------------
(* The invariant of reading tokens: only behind a byte, which is not taken *)
(* from where it stands, can the offset be past the end.                   *)
ReadInv ==
  work = "read" =>
    /\ readAt \in Nat /\ Len(src) \in Nat
    /\ \E S : tokens \in Seq(S)
    /\ \/ readAt <= Len(src)
       \/ /\ readAt = Len(src) + 1
          /\ tokens[Len(tokens)].type = TOKEN_TYPE_BYTE

(* The sizes of the table, and those of a byte and of a char.              *)
LEMMA SizesOfTypes ==
  /\ PrimitiveSize[TOKEN_TYPE_BYTE] = 1 /\ PrimitiveSize[TOKEN_TYPE_CHAR] = 1
  /\ \A t \in PrimitiveTypes : PrimitiveSize[t] \in {1, 2, 4, 8}
BY DEF PrimitiveSize, PrimitiveTypes, TOKEN_TYPE_BOOL, TOKEN_TYPE_BYTE, TOKEN_TYPE_CHAR,
       TOKEN_TYPE_DOUBLE, TOKEN_TYPE_SINGLE, TOKEN_TYPE_INT32, TOKEN_TYPE_UINT32,
       TOKEN_TYPE_INT64, TOKEN_TYPE_UINT64

(* Read ends where its type's size says, which is within the array unless  *)
(* the type is that of a byte.                                             *)
LEMMA ReadEnds ==
  ASSUME NEW s, Len(s) \in Nat, NEW i \in Nat, Read(s, i) # Thrown
  PROVE  LET r == Read(s, i)
         IN  /\ r.next \in Nat
             /\ \/ r.next <= Len(s)
                \/ r.next = Len(s) + 1 /\ r.type = TOKEN_TYPE_BYTE
<1> DEFINE type == TypeAt(s, i)
<1>1. /\ i + 2 <= Len(s) /\ type \in PrimitiveTypes /\ Converts(type, s, i + 2)
      /\ Read(s, i).type = type /\ Read(s, i).next = i + 2 + PrimitiveSize[type]
  BY DEF Read, Behind, PrimitiveSize
<1> HIDE DEF type
<1>2. CASE type = TOKEN_TYPE_BYTE
  <2>1. PrimitiveSize[type] = 1
    BY <1>1, <1>2, SizesOfTypes
  <2> QED
    BY <1>1, <1>2, <2>1
<1>3. CASE type # TOKEN_TYPE_BYTE
  <2>1. PrimitiveSize[type] \in Nat /\ ConvertedSize(type) \in Nat
        /\ PrimitiveSize[type] <= ConvertedSize(type)
    BY <1>1, SizesOfTypes DEF ConvertedSize
  <2>2. i + 2 + ConvertedSize(type) <= Len(s)
    BY <1>1, <1>3 DEF Converts
  <2> QED
    BY <1>1, <2>1, <2>2
<1> QED
  BY <1>2, <1>3

(* Read leaves the offset within the array but behind a byte.              *)
LEMMA ReadKeeps ==
  ASSUME ReadInv, ReadToken PROVE ReadInv'
<1>1. /\ work = "read" /\ work' = work /\ src' = src /\ readAt \in Nat /\ Len(src) \in Nat
  BY DEF ReadInv, ReadToken
<1> DEFINE r == Read(src, readAt)
<1>2. CASE r = Thrown
  BY <1>1, <1>2 DEF ReadInv, ReadToken
<1>3. CASE r # Thrown
  <2> DEFINE new == [type |-> r.type, content |-> r.content]
  <2>1. readAt' = r.next /\ tokens' = Append(tokens, new)
    BY <1>3 DEF ReadToken
  <2>2. r.next \in Nat /\ (r.next <= Len(src)
                            \/ (r.next = Len(src) + 1 /\ r.type = TOKEN_TYPE_BYTE))
    BY <1>1, <1>3, ReadEnds
  <2>3. new.type = r.type
    OBVIOUS
  <2> HIDE DEF new, r
  <2>4. PICK S : tokens \in Seq(S)
    BY <1>1 DEF ReadInv
  <2>5. tokens \in Seq(S \cup {new})
    BY <2>4
  <2>6. /\ tokens' \in Seq(S \cup {new}) /\ Len(tokens') = Len(tokens) + 1
        /\ tokens'[Len(tokens) + 1] = new
    BY <2>1, <2>5, AppendProperties
  <2> QED
    BY <1>1, <2>1, <2>2, <2>3, <2>6 DEF ReadInv
<1> QED
  BY <1>2, <1>3

(* What is cut off of an array of tokens is not read, but for a byte that  *)
(* is not looked at, for tokens of any types and any length (Read,         *)
(* ConvertPrimitive).                                                      *)
THEOREM CutOffIsNoticed == Spec => []CutOffNoticed
<1>1. Init => ReadInv
  <2> SUFFICES ASSUME Init, work = "read" PROVE ReadInv
    BY DEF ReadInv
  <2>1. readAt = 0 /\ tokens = <<>>
    BY DEF Init
  <2>2. PICK n \in 0 .. Len(EncodedAll(content)) : src = SubSeq(EncodedAll(content), 1, n)
    BY DEF Init
  <2> DEFINE all == EncodedAll(content)
  <2>3. n \in Int /\ n >= 0
    BY <2>2
  <2> HIDE DEF all
  <2>4. Len(SubSeq(all, 1, n)) = IF 1 <= n THEN n - 1 + 1 ELSE 0
    <3>1. \A i \in 1 .. n : all[i] \in {all[j] : j \in 1 .. n}
      OBVIOUS
    <3> QED
      BY <2>3, <3>1, SubSeqProperties
  <2>5. Len(src) \in Nat
    BY <2>2, <2>3, <2>4 DEF all
  <2>6. tokens \in Seq({})
    BY <2>1
  <2> QED
    BY <2>1, <2>5, <2>6 DEF ReadInv
<1>2. ReadInv /\ (SerializeWrite \/ FillByte) => ReadInv'
  BY DEF SerializeWrite, FillByte, ReadInv
<1>3. ReadInv /\ UNCHANGED vars => ReadInv'
  BY DEF vars, reading, ReadInv
<1>4. ReadInv => CutOffNoticed
  BY DEF ReadInv, CutOffNoticed
<1> QED
  BY <1>1, <1>2, <1>3, <1>4, ReadKeeps, PTL DEF Spec, Next
-----------------------------------------------------------------------------
(* A set of numbers that is not empty has a smallest.                      *)
LEMMA SmallestInSet ==
  ASSUME NEW T \in SUBSET Nat, T # {}
  PROVE  \E n \in T : \A m \in T : n <= m
<1> DEFINE R == {ss \in Nat \X Nat : ss[1] < ss[2]}
<1>1. IsWellFoundedOn(R, Nat)
  BY NatLessThanWellFounded DEF OpToRel
<1> HIDE DEF R
<1>2. PICK n \in T : \A m \in T : ~ (<<m, n>> \in R)
  BY <1>1, WFMin, Zenon
<1>3. ASSUME NEW m \in T PROVE n <= m
  <2>1. m \in Nat /\ n \in Nat
    OBVIOUS
  <2>2. ~ (m < n)
    BY <1>2, <2>1 DEF R
  <2> QED
    BY <2>1, <2>2
<1> QED
  BY <1>3
(* A set that holds 0, and with each number the next, holds all numbers.   *)
LEMMA AllNumbers ==
  ASSUME NEW S, 0 \in S, \A n \in Nat : n \in S => n + 1 \in S
  PROVE  Nat \subseteq S
<1> DEFINE T == {n \in Nat : n \notin S}
<1>1. CASE T # {}
  <2>1. PICK n \in T : \A m \in T : n <= m
    BY <1>1, SmallestInSet
  <2>2. n \in Nat /\ n # 0 /\ n - 1 \in Nat
    BY <2>1
  <2>3. n - 1 \in S
    BY <2>1, <2>2
  <2> QED
    BY <2>1, <2>2, <2>3
<1> QED
  BY <1>1
-----------------------------------------------------------------------------
(* What the first tokens of w are encoded as, number for number up to n.   *)
EncodesTo(g, w, n) ==
  g = [i \in 0 .. n |-> IF i = 0 THEN <<>> ELSE g[i - 1] \o Encoded(w[i])]

(* For any number of tokens there is such a function.                      *)
LEMMA EncodingExists ==
  ASSUME NEW w, NEW n \in Nat
  PROVE  \E g : EncodesTo(g, w, n)
<1> DEFINE S == {m \in Nat : \E g : EncodesTo(g, w, m)}
<1>1. 0 \in S
  <2> DEFINE g == [i \in 0 .. 0 |-> <<>>]
  <2>1. g = [i \in 0 .. 0 |-> IF i = 0 THEN <<>> ELSE g[i - 1] \o Encoded(w[i])]
    OBVIOUS
  <2> QED
    BY <2>1 DEF EncodesTo
<1>2. ASSUME NEW m \in Nat, m \in S PROVE m + 1 \in S
  <2>1. PICK g : EncodesTo(g, w, m)
    BY <1>2
  <2> DEFINE last == g[m] \o Encoded(w[m + 1])
  <2> DEFINE h == [i \in 0 .. m + 1 |-> IF i = m + 1 THEN last ELSE g[i]]
  <2>2. ASSUME NEW i \in 0 .. m + 1
        PROVE  h[i] = IF i = 0 THEN <<>> ELSE h[i - 1] \o Encoded(w[i])
    <3>1. CASE i = 0
      <4>1. h[i] = g[0] /\ g[0] = <<>>
        BY <2>1, <3>1 DEF EncodesTo
      <4> QED
        BY <3>1, <4>1, Zenon
    <3>2. CASE i = m + 1
      <4>1. i - 1 \in 0 .. m + 1 /\ i - 1 = m /\ m # m + 1 /\ i # 0
        BY <3>2
      <4>2. h[i] = last /\ h[i - 1] = g[m]
        BY <3>2, <4>1, Zenon
      <4> QED
        BY <3>2, <4>1, <4>2, Zenon
    <3>3. CASE i # 0 /\ i # m + 1
      <4>1. i \in 0 .. m /\ i - 1 \in 0 .. m + 1 /\ i - 1 # m + 1
        BY <3>3
      <4>2. h[i] = g[i] /\ h[i - 1] = g[i - 1]
        BY <3>3, <4>1, Zenon
      <4>3. g[i] = g[i - 1] \o Encoded(w[i])
        BY <2>1, <3>3, <4>1, Zenon DEF EncodesTo
      <4> QED
        BY <3>3, <4>2, <4>3, Zenon
    <3> QED
      BY <3>1, <3>2, <3>3
  <2>3. h = [i \in 0 .. m + 1 |-> h[i]]
    OBVIOUS
  <2> HIDE DEF h, last
  <2>4. EncodesTo(h, w, m + 1)
    BY <2>2, <2>3, Zenon DEF EncodesTo
  <2> QED
    BY <2>4
<1> HIDE DEF S
<1>3. n \in S
  BY <1>1, <1>2, AllNumbers
<1> QED
  BY <1>3 DEF S

(* Sequences that begin with the same k tokens have the same k first.      *)
LEMMA EncodingAgrees ==
  ASSUME NEW w, NEW v, NEW m \in Nat, NEW n \in Nat, NEW f, NEW g,
         EncodesTo(f, w, m), EncodesTo(g, v, n),
         NEW k \in Nat, k <= m, k <= n, \A i \in 1 .. k : w[i] = v[i]
  PROVE  f[k] = g[k]
<1> DEFINE S == {j \in Nat : j <= k => f[j] = g[j]}
<1>1. 0 \in S
  <2>1. f[0] = <<>> /\ g[0] = <<>>
    BY DEF EncodesTo
  <2> QED
    BY <2>1
<1>2. ASSUME NEW j \in Nat, j \in S PROVE j + 1 \in S
  <2> SUFFICES ASSUME j + 1 <= k PROVE f[j + 1] = g[j + 1]
    OBVIOUS
  <2>1. /\ j + 1 \in 0 .. m /\ j + 1 \in 0 .. n /\ j + 1 # 0 /\ (j + 1) - 1 = j
        /\ j + 1 \in 1 .. k /\ j <= k
    OBVIOUS
  <2>2. f[j + 1] = f[j] \o Encoded(w[j + 1]) /\ g[j + 1] = g[j] \o Encoded(v[j + 1])
    BY <2>1, Zenon DEF EncodesTo
  <2>3. f[j] = g[j] /\ w[j + 1] = v[j + 1]
    BY <1>2, <2>1
  <2> QED
    BY <2>2, <2>3, Zenon
<1> HIDE DEF S
<1>3. k \in S
  BY <1>1, <1>2, AllNumbers
<1> QED
  BY <1>3 DEF S

(* The recursion in EncodedAll is one of these functions, to the last of w.*)
LEMMA EncodingOfAll ==
  ASSUME NEW w, Len(w) \in Nat
  PROVE  \E f : EncodesTo(f, w, Len(w)) /\ EncodedAll(w) = f[Len(w)]
<1> DEFINE f == CHOOSE f : f = [i \in 0 .. Len(w) |->
                                  IF i = 0 THEN <<>> ELSE f[i - 1] \o Encoded(w[i])]
<1>1. f = [i \in 0 .. Len(w) |-> IF i = 0 THEN <<>> ELSE f[i - 1] \o Encoded(w[i])]
  BY EncodingExists, Zenon DEF EncodesTo
<1>2. EncodedAll(w) = f[Len(w)]
  BY Zenon DEF EncodedAll
<1> QED
  BY <1>1, <1>2, Zenon DEF EncodesTo

(* The bytes of the first k tokens of w.                                   *)
FirstBytes(w, k) == EncodedAll(SubSeq(w, 1, k))

(* The first k members of a sequence.                                      *)
LEMMA FirstTokens ==
  ASSUME NEW S, NEW w \in Seq(S), NEW k \in 0 .. Len(w)
  PROVE  /\ SubSeq(w, 1, k) \in Seq(S) /\ Len(SubSeq(w, 1, k)) = k
         /\ \A i \in 1 .. k : SubSeq(w, 1, k)[i] = w[i]
<1>1. 1 \in Int /\ k \in Int /\ \A i \in 1 .. k : w[i] \in S
  BY ElementOfSeq
<1>2. /\ SubSeq(w, 1, k) \in Seq(S)
      /\ Len(SubSeq(w, 1, k)) = IF 1 <= k THEN k - 1 + 1 ELSE 0
      /\ \A i \in 1 .. k - 1 + 1 : SubSeq(w, 1, k)[i] = w[1 + i - 1]
  BY <1>1, SubSeqProperties
<1> QED
  BY <1>2

(* One token more, and its bytes come behind those of the others.          *)
LEMMA FirstBytesGrow ==
  ASSUME NEW S, NEW w \in Seq(S)
  PROVE  /\ FirstBytes(w, 0) = <<>>
         /\ FirstBytes(w, Len(w)) = EncodedAll(w)
         /\ \A k \in 0 .. Len(w) - 1 :
              FirstBytes(w, k + 1) = FirstBytes(w, k) \o Encoded(w[k + 1])
<1>1. Len(w) \in Nat
  OBVIOUS
<1>2. PICK f : EncodesTo(f, w, Len(w)) /\ EncodedAll(w) = f[Len(w)]
  BY <1>1, EncodingOfAll
<1>3. ASSUME NEW k \in 0 .. Len(w) PROVE FirstBytes(w, k) = f[k]
  <2> DEFINE v == SubSeq(w, 1, k)
  <2>1. Len(v) = k /\ k \in Nat /\ \A i \in 1 .. k : w[i] = v[i]
    BY FirstTokens
  <2> HIDE DEF v
  <2>2. PICK g : EncodesTo(g, v, Len(v)) /\ EncodedAll(v) = g[Len(v)]
    BY <2>1, EncodingOfAll
  <2>3. f[k] = g[k]
    BY <1>1, <1>2, <2>1, <2>2, EncodingAgrees
  <2> QED
    BY <2>1, <2>2, <2>3, Zenon DEF FirstBytes, v
<1>4. f[0] = <<>>
  BY <1>1, <1>2 DEF EncodesTo
<1>5. ASSUME NEW k \in 0 .. Len(w) - 1 PROVE f[k + 1] = f[k] \o Encoded(w[k + 1])
  <2>1. k + 1 \in 0 .. Len(w) /\ k + 1 # 0 /\ (k + 1) - 1 = k
    BY <1>1
  <2> QED
    BY <1>2, <2>1, Zenon DEF EncodesTo
<1>6. /\ 0 \in 0 .. Len(w) /\ Len(w) \in 0 .. Len(w)
      /\ \A k \in 0 .. Len(w) - 1 : k \in 0 .. Len(w) /\ k + 1 \in 0 .. Len(w)
  BY <1>1
<1> QED
  BY <1>2, <1>3, <1>4, <1>5, <1>6, Zenon

(* The fields of a token somebody wrote.                                   *)
LEMMA WrittenTokenType ==
  ASSUME NEW t \in WrittenToken
  PROVE  /\ t.type \in UShort /\ t.content \in Seq(Byte) /\ Len(t.content) \in Nat
         /\ t.type \in PrimitiveTypes => Len(t.content) = PrimitiveSize[t.type]
<1>1. /\ t \in [type : UShort, content : Seq(Byte)]
      /\ t.type \in PrimitiveTypes => Len(t.content) = PrimitiveSize[t.type]
  BY Zenon DEF WrittenToken
<1>2. t.type \in UShort /\ t.content \in Seq(Byte)
  BY <1>1, Zenon
<1>3. Len(t.content) \in Nat
  BY <1>2, LenProperties
<1> QED
  BY <1>1, <1>2, <1>3, Zenon

(* The two bytes of a ushort, and the number they make again.              *)
LEMMA BytesOfType ==
  \A n \in UShort :
    n % 256 \in Byte /\ n \div 256 \in Byte /\ (n % 256) + 256 * (n \div 256) = n
BY DEF Byte, UShort

(* A token's bytes are two for its type, and its content.                  *)
LEMMA EncodedType ==
  ASSUME NEW t \in WrittenToken
  PROVE  /\ Encoded(t) \in Seq(Byte) /\ Len(Encoded(t)) = 2 + Len(t.content)
         /\ Encoded(t)[1] + 256 * Encoded(t)[2] = t.type
         /\ \A i \in 1 .. Len(t.content) : Encoded(t)[2 + i] = t.content[i]
<1>1. t.type \in UShort /\ t.content \in Seq(Byte) /\ Len(t.content) \in Nat
  BY WrittenTokenType
<1> DEFINE type == <<t.type % 256, t.type \div 256>>
<1>2. t.type % 256 \in Byte /\ t.type \div 256 \in Byte
  BY <1>1, BytesOfType, Zenon
<1>3. type \in Seq(Byte) /\ Len(type) = 2 /\ type[1] = t.type % 256 /\ type[2] = t.type \div 256
  BY <1>2
<1>4. Encoded(t) = type \o t.content
  BY DEF Encoded
<1> HIDE DEF type
<1> DEFINE c == t.content
<1>5. c \in Seq(Byte) /\ Len(c) \in Nat
  BY <1>1, Zenon
<1> HIDE DEF c
<1>6. /\ type \o c \in Seq(Byte) /\ Len(type \o c) = Len(type) + Len(c)
      /\ \A i \in 1 .. Len(type) + Len(c) :
           (type \o c)[i] = IF i <= Len(type) THEN type[i] ELSE c[i - Len(type)]
  BY <1>3, <1>5, ConcatProperties
<1>7. (type \o c)[1] = type[1] /\ (type \o c)[2] = type[2]
  <2>1. 1 \in 1 .. Len(type) + Len(c) /\ 2 \in 1 .. Len(type) + Len(c)
        /\ 1 <= Len(type) /\ 2 <= Len(type)
    BY <1>3, <1>5
  <2> QED
    BY <1>6, <2>1, Zenon
<1>8. ASSUME NEW i \in 1 .. Len(c) PROVE (type \o c)[2 + i] = c[i]
  <2>1. 2 + i \in 1 .. Len(type) + Len(c) /\ ~ (2 + i <= Len(type)) /\ (2 + i) - Len(type) = i
    BY <1>3, <1>5
  <2> QED
    BY <1>6, <2>1, Zenon
<1>9. (t.type % 256) + 256 * (t.type \div 256) = t.type
  BY <1>1, BytesOfType, Zenon
<1>10. Len(type \o c) = 2 + Len(c)
  BY <1>3, <1>6, Zenon
<1> QED
  BY <1>3, <1>4, <1>6, <1>7, <1>8, <1>9, <1>10, Zenon DEF c

(* They are bytes.                                                         *)
LEMMA FirstBytesType ==
  ASSUME NEW w \in Seq(WrittenToken)
  PROVE  \A k \in 0 .. Len(w) : FirstBytes(w, k) \in Seq(Byte)
<1> DEFINE S == {k \in Nat : k <= Len(w) => FirstBytes(w, k) \in Seq(Byte)}
<1>1. 0 \in S
  <2>1. FirstBytes(w, 0) = <<>>
    BY FirstBytesGrow
  <2>2. <<>> \in Seq(Byte)
    OBVIOUS
  <2>3. FirstBytes(w, 0) \in Seq(Byte)
    BY <2>1, <2>2, Zenon
  <2> QED
    BY <2>3
<1>2. ASSUME NEW k \in Nat, k \in S PROVE k + 1 \in S
  <2> SUFFICES ASSUME k + 1 <= Len(w) PROVE FirstBytes(w, k + 1) \in Seq(Byte)
    OBVIOUS
  <2>1. k \in 0 .. Len(w) - 1 /\ k + 1 \in 1 .. Len(w)
    OBVIOUS
  <2>2. FirstBytes(w, k + 1) = FirstBytes(w, k) \o Encoded(w[k + 1])
    BY <2>1, FirstBytesGrow
  <2>3. w[k + 1] \in WrittenToken
    BY <2>1, ElementOfSeq
  <2>4. Encoded(w[k + 1]) \in Seq(Byte) /\ FirstBytes(w, k) \in Seq(Byte)
    BY <1>2, <2>1, <2>3, EncodedType
  <2> QED
    BY <2>2, <2>4, ConcatProperties
<1> HIDE DEF S
<1>3. Nat \subseteq S
  BY <1>1, <1>2, AllNumbers
<1> QED
  BY <1>3 DEF S

(* A sequence that s begins with. *)
Begins(p, s) == Len(p) <= Len(s) /\ \A i \in 1 .. Len(p) : p[i] = s[i]

(* With more tokens the bytes begin as they do with fewer.                 *)
LEMMA FirstBytesBegin ==
  ASSUME NEW w \in Seq(WrittenToken), NEW j \in 0 .. Len(w)
  PROVE  \A k \in j .. Len(w) : Begins(FirstBytes(w, j), FirstBytes(w, k))
<1> DEFINE S == {k \in Nat : k \in j .. Len(w) => Begins(FirstBytes(w, j), FirstBytes(w, k))}
           b == FirstBytes(w, j)
<1>0. b \in Seq(Byte) /\ Len(b) \in Nat
  BY FirstBytesType
<1>1. Begins(b, b)
  BY <1>0 DEF Begins
<1>2. 0 \in S
  <2> SUFFICES ASSUME 0 \in j .. Len(w) PROVE Begins(FirstBytes(w, j), FirstBytes(w, 0))
    OBVIOUS
  <2>1. j = 0
    OBVIOUS
  <2> QED
    BY <1>1, <2>1
<1>3. ASSUME NEW k \in Nat, k \in S PROVE k + 1 \in S
  <2> SUFFICES ASSUME k + 1 \in j .. Len(w) PROVE Begins(b, FirstBytes(w, k + 1))
    OBVIOUS
  <2>1. CASE j = k + 1
    BY <1>1, <2>1
  <2>2. CASE j # k + 1
    <3>1. k \in j .. Len(w) /\ k \in 0 .. Len(w) - 1 /\ k + 1 \in 1 .. Len(w) /\ k \in 0 .. Len(w)
      BY <2>2
    <3>2. Begins(b, FirstBytes(w, k))
      BY <1>3, <3>1
    <3> DEFINE a == FirstBytes(w, k)
               e == Encoded(w[k + 1])
    <3>3. a \in Seq(Byte)
      BY <3>1, FirstBytesType
    <3>4. e \in Seq(Byte)
      BY <3>1, EncodedType, ElementOfSeq
    <3>5. FirstBytes(w, k + 1) = a \o e
      BY <3>1, FirstBytesGrow
    <3> HIDE DEF a, e, b
    <3>6. /\ Len(a \o e) = Len(a) + Len(e) /\ Len(a) \in Nat /\ Len(e) \in Nat
          /\ \A i \in 1 .. Len(a) + Len(e) :
               (a \o e)[i] = IF i <= Len(a) THEN a[i] ELSE e[i - Len(a)]
      BY <3>3, <3>4, ConcatProperties
    <3>7. Len(b) <= Len(a) /\ \A i \in 1 .. Len(b) : b[i] = a[i]
      BY <3>2 DEF Begins, a
    <3>8. Len(b) <= Len(a \o e)
      BY <1>0, <3>6, <3>7
    <3>9. ASSUME NEW i \in 1 .. Len(b) PROVE b[i] = (a \o e)[i]
      <4>1. i \in 1 .. Len(a) + Len(e) /\ i <= Len(a)
        BY <1>0, <3>6, <3>7
      <4> QED
        BY <3>6, <3>7, <4>1, Zenon
    <3> QED
      BY <3>5, <3>8, <3>9, Zenon DEF Begins
  <2> QED
    BY <2>1, <2>2
<1> HIDE DEF S
<1>4. Nat \subseteq S
  BY <1>2, <1>3, AllNumbers
<1>5. \A k \in j .. Len(w) : k \in Nat
  OBVIOUS
<1> QED
  BY <1>4, <1>5, Zenon DEF S

(* Behind the first k tokens stands the next one.                          *)
LEMMA TokenInPlace ==
  ASSUME NEW w \in Seq(WrittenToken), NEW k \in 0 .. Len(w) - 1
  PROVE  LET all  == EncodedAll(w)
             o    == Len(FirstBytes(w, k))
             next == w[k + 1]
         IN  /\ next \in WrittenToken /\ o \in Nat /\ all \in Seq(Byte)
             /\ Len(FirstBytes(w, k + 1)) = o + 2 + Len(next.content)
             /\ o + 2 + Len(next.content) <= Len(all)
             /\ all[o + 1] + 256 * all[o + 2] = next.type
             /\ \A i \in 1 .. Len(next.content) : all[o + 2 + i] = next.content[i]
<1> DEFINE all  == EncodedAll(w)
           a    == FirstBytes(w, k)
           next == w[k + 1]
           e    == Encoded(next)
<1>1. k \in 0 .. Len(w) /\ k + 1 \in 1 .. Len(w) /\ k + 1 \in 0 .. Len(w)
      /\ Len(w) \in (k + 1) .. Len(w) /\ Len(w) \in 0 .. Len(w)
  OBVIOUS
<1>2. next \in WrittenToken
  BY <1>1, ElementOfSeq
<1>3. a \in Seq(Byte) /\ all \in Seq(Byte)
  BY <1>1, FirstBytesType, FirstBytesGrow
<1>4. a \o e = FirstBytes(w, k + 1)
  BY <1>1, FirstBytesGrow
<1>5. Begins(a \o e, all)
  BY <1>1, <1>4, FirstBytesBegin, FirstBytesGrow
<1> DEFINE n == Len(next.content)
<1>6. /\ e \in Seq(Byte) /\ Len(e) = 2 + n /\ n \in Nat
      /\ e[1] + 256 * e[2] = next.type
      /\ \A i \in 1 .. n : e[2 + i] = next.content[i]
  <2>1. n \in Nat
    BY <1>2, WrittenTokenType
  <2> QED
    BY <1>2, <2>1, EncodedType
<1> HIDE DEF all, a, e, n, next
<1>7. /\ Len(a \o e) = Len(a) + Len(e)
      /\ \A i \in 1 .. Len(a) + Len(e) :
           (a \o e)[i] = IF i <= Len(a) THEN a[i] ELSE e[i - Len(a)]
  BY <1>3, <1>6, ConcatProperties
<1>8. Len(a \o e) = Len(a) + 2 + n /\ Len(a) \in Nat
  <2>1. Len(a) \in Nat
    BY <1>3
  <2> QED
    BY <1>6, <1>7, <2>1
<1>9. Len(a) + 2 + n <= Len(all)
  BY <1>5, <1>8 DEF Begins
<1>10. ASSUME NEW i \in 1 .. 2 + n PROVE all[Len(a) + i] = e[i]
  <2>1. Len(a) + i \in 1 .. Len(a) + Len(e) /\ ~ (Len(a) + i <= Len(a))
        /\ (Len(a) + i) - Len(a) = i /\ Len(a) + i \in 1 .. Len(a \o e)
    BY <1>6, <1>8
  <2>2. (a \o e)[Len(a) + i] = e[i]
    BY <1>7, <2>1, Zenon
  <2>3. (a \o e)[Len(a) + i] = all[Len(a) + i]
    BY <1>5, <2>1, Zenon DEF Begins
  <2> QED
    BY <2>2, <2>3, Zenon
<1>11. all[Len(a) + 1] = e[1] /\ all[Len(a) + 2] = e[2]
  <2>1. 1 \in 1 .. 2 + n /\ 2 \in 1 .. 2 + n
    BY <1>6
  <2> QED
    BY <1>10, <2>1, Zenon
<1>12. ASSUME NEW i \in 1 .. n PROVE all[Len(a) + 2 + i] = next.content[i]
  <2>1. 2 + i \in 1 .. 2 + n /\ Len(a) + (2 + i) = Len(a) + 2 + i
    BY <1>6, <1>8
  <2>2. all[Len(a) + (2 + i)] = e[2 + i]
    BY <1>10, <2>1, Zenon
  <2> QED
    BY <1>6, <2>1, <2>2, Zenon
<1> QED
  BY <1>2, <1>3, <1>4, <1>6, <1>7, <1>8, <1>9, <1>11, <1>12 DEF all, a, n, next

(* Was token read for the one that was written?                            *)
ReadFor(token, written) ==
  /\ token.type = written.type
  /\ token.type \notin {TOKEN_TYPE_BYTE, TOKEN_TYPE_CHAR} => token.content = written.content

(* Read at the boundary of a token ends at the next, with that token.      *)
LEMMA ReadInPlace ==
  ASSUME NEW w \in Seq(WrittenToken), NEW k \in 0 .. Len(w) - 1,
         NEW s \in Seq(Byte), Begins(s, EncodedAll(w)),
         Read(s, Len(FirstBytes(w, k))) # Thrown
  PROVE  LET r == Read(s, Len(FirstBytes(w, k)))
         IN  r.next = Len(FirstBytes(w, k + 1)) /\ ReadFor(r, w[k + 1])
<1> DEFINE all  == EncodedAll(w)
           o    == Len(FirstBytes(w, k))
           next == w[k + 1]
           c    == next.content
           n    == Len(c)
           r    == Read(s, o)
           type == TypeAt(s, o)
<1>1. /\ next \in WrittenToken /\ o \in Nat /\ all \in Seq(Byte)
      /\ Len(FirstBytes(w, k + 1)) = o + 2 + n /\ o + 2 + n <= Len(all)
      /\ all[o + 1] + 256 * all[o + 2] = next.type
      /\ \A i \in 1 .. n : all[o + 2 + i] = c[i]
  BY TokenInPlace, Zenon
<1>2. /\ c \in Seq(Byte) /\ n \in Nat
      /\ next.type \in PrimitiveTypes => n = PrimitiveSize[next.type]
  BY <1>1, WrittenTokenType, Zenon
<1>3. Len(s) \in Nat /\ \A i \in 1 .. Len(s) : s[i] = all[i]
  BY DEF Begins
<1>4. /\ o + 2 <= Len(s) /\ type \in PrimitiveTypes /\ Converts(type, s, o + 2)
      /\ r = [type |-> type, content |-> ConvertPrimitive(type, s, o + 2),
              next |-> Behind(type, o + 2)]
  BY <1>1, <1>3 DEF Read, PrimitiveSize
<1> HIDE DEF all, o, next, c, n, r, type
<1>5. type = next.type
  <2>1. o + 1 \in 1 .. Len(s) /\ o + 2 \in 1 .. Len(s)
    BY <1>1, <1>3, <1>4
  <2>2. s[o + 1] = all[o + 1] /\ s[o + 2] = all[o + 2]
    BY <1>3, <2>1, Zenon
  <2> QED
    BY <1>1, <2>2 DEF type, TypeAt
<1>6. r.type = type /\ r.next = Behind(type, o + 2)
      /\ r.content = ConvertPrimitive(type, s, o + 2)
  BY <1>4
<1>7. r.next = o + 2 + n
  BY <1>2, <1>4, <1>5, <1>6 DEF Behind
<1>8. ASSUME type \notin {TOKEN_TYPE_BYTE, TOKEN_TYPE_CHAR} PROVE r.content = c
  <2>1. ConvertedSize(type) = n /\ type # TOKEN_TYPE_BYTE
    BY <1>2, <1>4, <1>5, <1>8 DEF ConvertedSize
  <2>2. o + 2 + n <= Len(s) /\ r.content = SubSeq(s, o + 2 + 1, o + 2 + n)
    BY <1>4, <1>6, <2>1 DEF Converts, ConvertPrimitive
  <2> DEFINE first == o + 3
             last  == o + 2 + n
  <2>3. /\ first \in Nat /\ last \in Nat /\ first >= 1 /\ last <= Len(s) /\ o + 2 + 1 = first
        /\ last - first + 1 = n /\ \A i \in 1 .. n : first + i - 1 = o + 2 + i
        /\ (IF first <= last THEN last - first + 1 ELSE 0) = n
    BY <1>1, <1>2, <2>2
  <2> HIDE DEF first, last
  <2>4. \A i \in first .. last : s[i] \in Byte
    <3>1. \A i \in first .. last : i \in 1 .. Len(s)
      BY <1>3, <2>3
    <3> QED
      BY <3>1, ElementOfSeq
  <2>5. /\ SubSeq(s, first, last) \in Seq(Byte)
        /\ Len(SubSeq(s, first, last)) = IF first <= last THEN last - first + 1 ELSE 0
        /\ \A i \in 1 .. last - first + 1 : SubSeq(s, first, last)[i] = s[first + i - 1]
    BY <2>3, <2>4, SubSeqProperties
  <2>6. r.content = SubSeq(s, first, last)
    BY <2>2, <2>3, Zenon DEF last
  <2>7. r.content \in Seq(Byte) /\ Len(r.content) = Len(c)
    BY <2>3, <2>5, <2>6, Zenon DEF n
  <2>8. ASSUME NEW i \in 1 .. n PROVE r.content[i] = c[i]
    <3>1. o + 2 + i \in 1 .. Len(s)
      BY <1>1, <1>2, <2>2
    <3>2. r.content[i] = s[o + 2 + i]
      BY <2>3, <2>5, <2>6, Zenon
    <3> QED
      BY <1>1, <1>3, <3>1, <3>2, Zenon
  <2> QED
    BY <1>2, <2>7, <2>8, SeqEqual DEF n
<1>9. ReadFor(r, next)
  BY <1>5, <1>6, <1>8, Zenon DEF ReadFor, c
<1> QED
  BY <1>1, <1>7, <1>9 DEF o, next, r, n, c

(* The invariant of the reading of tokens: it stands on the boundary of a  *)
(* token, with the tokens in front of it; and threw only where Read does.  *)
TokenInv ==
  work = "read" =>
    /\ content \in Seq(WrittenToken)
    /\ src \in Seq(Byte) /\ Begins(src, EncodedAll(content))
    /\ \E S : tokens \in Seq(S)
    /\ Len(tokens) <= Len(content)
    /\ readAt = Len(FirstBytes(content, Len(tokens)))
    /\ \A i \in 1 .. Len(tokens) : ReadFor(tokens[i], content[i])
    /\ outcome = "thrown" => Read(src, readAt) = Thrown

(* Read goes on to the next boundary with the token in between, or throws. *)
LEMMA TokenKeeps ==
  ASSUME TokenInv, ReadToken PROVE TokenInv'
<1>1. /\ work = "read" /\ work' = work /\ src' = src /\ content' = content
      /\ content \in Seq(WrittenToken) /\ src \in Seq(Byte)
      /\ Begins(src, EncodedAll(content))
      /\ Len(tokens) <= Len(content)
      /\ readAt = Len(FirstBytes(content, Len(tokens)))
      /\ \A i \in 1 .. Len(tokens) : ReadFor(tokens[i], content[i])
  BY DEF TokenInv, ReadToken
<1> DEFINE k == Len(tokens)
           r == Read(src, readAt)
<1>2. PICK S : tokens \in Seq(S)
  BY <1>1 DEF TokenInv
<1>3. k \in Nat /\ Len(content) \in Nat /\ Len(src) \in Nat
  BY <1>1, <1>2
<1>4. CASE r = Thrown
  <2>1. readAt' = readAt /\ tokens' = tokens
    BY <1>4 DEF ReadToken
  <2> QED
    BY <1>1, <1>2, <1>4, <2>1 DEF TokenInv
<1>5. CASE r # Thrown
  <2> DEFINE new == [type |-> r.type, content |-> r.content]
  <2>1. readAt' = r.next /\ tokens' = Append(tokens, new) /\ outcome' = "returned"
    BY <1>5 DEF ReadToken
  <2>2. new.type = r.type /\ new.content = r.content
    OBVIOUS
  <2>3. k # Len(content)
    <3> SUFFICES ASSUME k = Len(content) PROVE FALSE
      OBVIOUS
    <3>1. readAt = Len(EncodedAll(content))
      BY <1>1, FirstBytesGrow
    <3>2. readAt >= Len(src)
      BY <1>1, <3>1 DEF Begins
    <3>3. readAt \in Nat
      <4>1. k \in 0 .. Len(content)
        BY <1>1, <1>3
      <4> QED
        BY <1>1, <4>1, FirstBytesType
    <3>4. readAt + 2 > Len(src)
      BY <1>3, <3>2, <3>3
    <3> QED
      BY <1>5, <3>4 DEF Read
  <2>4. k \in 0 .. Len(content) - 1
    BY <1>1, <1>3, <2>3
  <2>5. r.next = Len(FirstBytes(content, k + 1)) /\ ReadFor(r, content[k + 1])
    BY <1>1, <1>5, <2>4, ReadInPlace
  <2>6. ReadFor(new, content[k + 1])
    BY <2>2, <2>5, Zenon DEF ReadFor
  <2> HIDE DEF new, r
  <2>7. tokens \in Seq(S \cup {new})
    BY <1>2
  <2>8. /\ tokens' \in Seq(S \cup {new}) /\ Len(tokens') = k + 1
        /\ tokens'[k + 1] = new /\ \A i \in 1 .. k : tokens'[i] = tokens[i]
    BY <2>1, <2>7, AppendProperties
  <2> HIDE DEF k
  <2>9. ASSUME NEW i \in 1 .. k + 1 PROVE ReadFor(tokens'[i], content[i])
    <3>1. CASE i = k + 1
      BY <2>6, <2>8, <3>1
    <3>2. CASE i # k + 1
      <4>1. i \in 1 .. k
        BY <1>3, <3>2
      <4> QED
        BY <1>1, <2>8, <4>1 DEF k
    <3> QED
      BY <3>1, <3>2
  <2>10. k + 1 <= Len(content)
    BY <1>3, <2>4
  <2> QED
    BY <1>1, <2>1, <2>5, <2>8, <2>9, <2>10 DEF TokenInv
<1> QED
  BY <1>4, <1>5

(* The work that is not done in a behaviour keeps its invariant.           *)
LEMMA TokenInvAlways == Spec => []TokenInv
<1>1. Init => TokenInv
  <2> SUFFICES ASSUME Init, work = "read" PROVE TokenInv
    BY DEF TokenInv
  <2>1. readAt = 0 /\ tokens = <<>> /\ outcome = "none" /\ content \in Contents
    BY DEF Init
  <2>2. content \in Seq(WrittenToken) /\ Len(content) \in Nat
    BY <2>1, CodecAssumption
  <2> DEFINE all == EncodedAll(content)
  <2>3. PICK n \in 0 .. Len(all) : src = SubSeq(all, 1, n)
    BY DEF Init
  <2>4. all \in Seq(Byte)
    <3>1. Len(content) \in 0 .. Len(content)
      BY <2>2
    <3> QED
      BY <2>2, <3>1, FirstBytesType, FirstBytesGrow
  <2> HIDE DEF all
  <2>5. /\ src \in Seq(Byte) /\ Len(src) = n /\ \A i \in 1 .. n : src[i] = all[i]
    BY <2>3, <2>4, FirstTokens
  <2>6. Begins(src, all)
    BY <2>3, <2>4, <2>5 DEF Begins
  <2>7. tokens \in Seq({}) /\ Len(tokens) = 0
    BY <2>1
  <2>8. FirstBytes(content, 0) = <<>>
    BY <2>2, FirstBytesGrow
  <2> QED
    BY <2>1, <2>2, <2>5, <2>6, <2>7, <2>8 DEF TokenInv, all
<1>2. TokenInv /\ (SerializeWrite \/ FillByte) => TokenInv'
  BY DEF SerializeWrite, FillByte, TokenInv
<1>3. TokenInv /\ UNCHANGED vars => TokenInv'
  BY DEF vars, reading, TokenInv
<1> QED
  BY <1>1, <1>2, <1>3, TokenKeeps, PTL DEF Spec, Next

(* Reading stays on the boundaries of the tokens, however many they are    *)
(* and of whatever types, and what was read was written (Read,             *)
(* ConvertPrimitive).                                                      *)
THEOREM TokensAreDecoded == Spec => []TokensDecoded
<1>1. TokenInv => TokensDecoded
  <2> SUFFICES ASSUME TokenInv, work = "read" PROVE TokensDecoded
    BY DEF TokensDecoded
  <2>1. /\ Len(tokens) <= Len(content)
        /\ readAt = Len(FirstBytes(content, Len(tokens)))
        /\ \A i \in 1 .. Len(tokens) : ReadFor(tokens[i], content[i])
    BY DEF TokenInv
  <2>2. DOMAIN tokens = 1 .. Len(tokens)
    <3>1. PICK S : tokens \in Seq(S)
      BY DEF TokenInv
    <3> QED
      BY <3>1
  <2> QED
    BY <2>1, <2>2 DEF TokensDecoded, FirstBytes, ReadFor
<1> QED
  BY <1>1, TokenInvAlways, PTL

(* Where reading ends before the last token, the next is cut off, or is a  *)
(* char with nothing behind it, or has no primitive type (Read).           *)
THEOREM WholeTokensAreRead == Spec => []WholeTokensRead
<1>1. TokenInv => WholeTokensRead
  <2> SUFFICES ASSUME TokenInv, work = "read", outcome = "thrown",
                      Len(tokens) < Len(content)
               PROVE  LET next == content[Len(tokens) + 1]
                      IN  \/ readAt + Len(Encoded(next)) > Len(src)
                          \/ /\ next.type = TOKEN_TYPE_CHAR
                             /\ readAt + Len(Encoded(next)) = Len(src)
                          \/ next.type \notin PrimitiveTypes
    BY DEF WholeTokensRead
  <2> DEFINE k    == Len(tokens)
             next == content[k + 1]
             n    == Len(next.content)
             all  == EncodedAll(content)
  <2>1. /\ content \in Seq(WrittenToken) /\ src \in Seq(Byte) /\ Begins(src, all)
        /\ readAt = Len(FirstBytes(content, k)) /\ Read(src, readAt) = Thrown
    BY DEF TokenInv
  <2>2. k \in 0 .. Len(content) - 1
    <3>1. k \in Nat /\ Len(content) \in Nat
      <4>1. PICK S : tokens \in Seq(S)
        BY DEF TokenInv
      <4> QED
        BY <2>1, <4>1
    <3> QED
      BY <3>1
  <2>3. /\ next \in WrittenToken /\ readAt \in Nat /\ all \in Seq(Byte)
        /\ all[readAt + 1] + 256 * all[readAt + 2] = next.type
    BY <2>1, <2>2, TokenInPlace, Zenon
  <2>4. /\ n \in Nat /\ Len(Encoded(next)) = 2 + n
        /\ next.type \in PrimitiveTypes => n = PrimitiveSize[next.type]
    BY <2>3, WrittenTokenType, EncodedType, Zenon
  <2>5. Len(src) \in Nat /\ \A i \in 1 .. Len(src) : src[i] = all[i]
    BY <2>1 DEF Begins
  <2> HIDE DEF k, next, n, all
  <2>6. CASE readAt + 2 > Len(src)
    BY <2>3, <2>4, <2>5, <2>6 DEF next, k
  <2>7. CASE readAt + 2 <= Len(src) /\ next.type \in PrimitiveTypes
    <3>1. readAt + 1 \in 1 .. Len(src) /\ readAt + 2 \in 1 .. Len(src)
      BY <2>3, <2>5, <2>7
    <3>2. src[readAt + 1] = all[readAt + 1] /\ src[readAt + 2] = all[readAt + 2]
      BY <2>5, <3>1, Zenon
    <3>3. TypeAt(src, readAt) = next.type
      BY <2>3, <3>2 DEF TypeAt
    <3>4. ~ Converts(next.type, src, readAt + 2)
      <4> SUFFICES ASSUME Converts(next.type, src, readAt + 2) PROVE FALSE
        OBVIOUS
      <4>1. /\ ~ (readAt + 2 > Len(src))
            /\ next.type \in DOMAIN PrimitiveSize
        BY <2>3, <2>5, <2>7 DEF PrimitiveSize
      <4>2. Read(src, readAt).type = next.type
        BY <3>3, <4>1 DEF Read
      <4>3. Thrown.type \notin PrimitiveTypes
        BY DEF Thrown, PrimitiveTypes
      <4> QED
        BY <2>1, <2>7, <4>2, <4>3, Zenon
    <3>5. readAt + 2 + ConvertedSize(next.type) > Len(src)
      <4>1. ConvertedSize(next.type) \in Nat
        BY <2>4, <2>7 DEF ConvertedSize
      <4> QED
        BY <2>3, <2>5, <3>4, <4>1 DEF Converts
    <3>6. CASE next.type = TOKEN_TYPE_CHAR
      <4>1. ConvertedSize(next.type) = 2 /\ n = 1
        BY <2>4, <2>7, <3>6, SizesOfTypes DEF ConvertedSize
      <4> QED
        BY <2>3, <2>4, <2>5, <3>5, <3>6, <4>1 DEF next, k
    <3>7. CASE next.type # TOKEN_TYPE_CHAR
      <4>1. ConvertedSize(next.type) = n
        BY <2>4, <2>7, <3>7 DEF ConvertedSize
      <4> QED
        BY <2>3, <2>4, <2>5, <3>5, <4>1 DEF next, k
    <3> QED
      BY <3>6, <3>7
  <2>8. CASE next.type \notin PrimitiveTypes
    BY <2>8 DEF next, k
  <2> QED
    BY <2>3, <2>5, <2>6, <2>7, <2>8
<1> QED
  BY <1>1, TokenInvAlways, PTL
=============================================================================
