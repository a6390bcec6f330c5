---------------------------- MODULE BytesFiller ----------------------------
(***************************************************************************)
(* IMessageBytesFiller and its two subclasses (BananaMessage.cs): the      *)
(* object that collects the bytes of one message until the message is      *)
(* complete.  A filler is a record of its two fields; Fill returns the     *)
(* filler after one byte, and TooBig and Filled say how that call to Fill  *)
(* ended: with the exception, with the filled data, or else with null.     *)
(*                                                                         *)
(* The client's hosts are little-endian (every platform Unity builds for), *)
(* so BitConverter reads the low byte first.                               *)
(***************************************************************************)
EXTENDS Naturals, Sequences

CONSTANTS
  FixedPartSize,   (* event type -> GetFixedPartMessageSize of its filler *)
  MaxMessageSize   (* NetworkMessage.MaxMessageSize, 65535 in the code    *)

EventType_ConnectServer == 5
EventType_SampleRooms   == 7
EventTypes == {EventType_ConnectServer, EventType_SampleRooms}

(* A fixed part holds at least the event type, two bytes that Fill cannot  *)
(* complete a message with, and SampleRooms' also its number of rooms.     *)
ASSUME FillerAssumption ==
  /\ FixedPartSize \in [EventTypes -> Nat]
  /\ FixedPartSize[EventType_ConnectServer] > 2
  /\ FixedPartSize[EventType_SampleRooms] > 3
  /\ MaxMessageSize \in Nat \ {0}

Byte == 0 .. 255
FillerType == [messageSize : Nat, buffer : Seq(Byte)]

(* BitConverter.ToUInt16(data, offset) and BitConverter.GetBytes(ushort).  *)
ToUInt16(data, offset) == data[offset + 1] + 256 * data[offset + 2]
GetBytes(n) == <<n % 256, n \div 256>>

GetVariablePartMessageSize(eventType, fixedPart) ==
  IF eventType = EventType_SampleRooms THEN 4 * ToUInt16(fixedPart, 2) ELSE 0

NewFiller == [messageSize |-> 0, buffer |-> <<>>]

(* Mutant: a complete message makes room for the next one. *)
FillAfresh(eventType, filler, b) ==
  LET old    == IF filler.messageSize = Len(filler.buffer) THEN NewFiller ELSE filler
      known  == IF old.messageSize = 0 THEN FixedPartSize[eventType] ELSE old.messageSize
  IN  [messageSize |-> known, buffer |-> Append(old.buffer, b)]

(* Mutants: the variable part is added once only; a size is never too big. *)
FillOnce(eventType, filler, b) ==
  LET fixed  == FixedPartSize[eventType]
      filled == Append(filler.buffer, b)
  IN  [ messageSize |-> IF Len(filled) = fixed
                        THEN fixed + GetVariablePartMessageSize(eventType, filled)
                        ELSE IF filler.messageSize = 0 THEN fixed
                                                       ELSE filler.messageSize,
        buffer      |-> filled ]
NeverTooBig(filler) == FALSE

(* One call of Fill.  The variable part is added whenever the buffer is as *)
(* long as the message size known so far, not only after the fixed part.   *)
Fill(eventType, filler, b) ==
  LET known  == IF filler.messageSize = 0 THEN FixedPartSize[eventType]
                                          ELSE filler.messageSize
      filled == Append(filler.buffer, b)
  IN  [ messageSize |-> IF Len(filled) = known
                        THEN known + GetVariablePartMessageSize(eventType, filled)
                        ELSE known,
        buffer      |-> filled ]

TooBig(filler) == filler.messageSize > MaxMessageSize
Filled(filler) == ~ TooBig(filler) /\ Len(filler.buffer) = filler.messageSize
=============================================================================
