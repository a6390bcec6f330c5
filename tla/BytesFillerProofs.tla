------------------------- MODULE BytesFillerProofs -------------------------
(***************************************************************************)
(* What one call of Fill does to a filler, for fillers of any size.        *)
(***************************************************************************)
EXTENDS BytesFiller, SequenceTheorems, TLAPS

(* A filler as Fill leaves it: its message size is unknown or no less than *)
(* the fixed part.                                                         *)
GoodFiller(eventType, filler) ==
  /\ filler \in FillerType
  /\ filler.messageSize = 0 \/ filler.messageSize >= FixedPartSize[eventType]

(* A filler that holds its whole message, or more, will not answer again.  *)
Complete(filler) ==
  filler.messageSize > 0 /\ Len(filler.buffer) >= filler.messageSize

(* A filler starts empty. *)
LEMMA NewFillerGood ==
  \A eventType \in EventTypes :
    GoodFiller(eventType, NewFiller) /\ NewFiller.buffer = <<>>
BY DEF GoodFiller, NewFiller, FillerType

(* The variable part of a message whose fixed part is there is a number    *)
(* (GetVariablePartMessageSize).                                           *)
LEMMA VariablePartType ==
  ASSUME NEW eventType \in EventTypes, NEW fixedPart \in Seq(Byte),
         Len(fixedPart) >= FixedPartSize[eventType]
  PROVE  GetVariablePartMessageSize(eventType, fixedPart) \in Nat
<1>1. CASE eventType = EventType_SampleRooms
  <2>1. Len(fixedPart) \in Nat /\ Len(fixedPart) > 3
    BY <1>1, FillerAssumption DEF EventTypes
  <2>2. fixedPart[3] \in Byte /\ fixedPart[4] \in Byte
    <3>1. 3 \in 1 .. Len(fixedPart) /\ 4 \in 1 .. Len(fixedPart)
      BY <2>1
    <3> QED
      BY <3>1, ElementOfSeq
  <2>3. ToUInt16(fixedPart, 2) = fixedPart[3] + 256 * fixedPart[4]
    BY DEF ToUInt16
  <2>4. ToUInt16(fixedPart, 2) \in Nat
    <3>1. \A x, y \in Byte : x + 256 * y \in Nat
      BY DEF Byte
    <3> QED
      BY <2>2, <2>3, <3>1, Zenon
  <2> QED
    BY <1>1, <2>4 DEF GetVariablePartMessageSize
<1>2. CASE eventType # EventType_SampleRooms
  BY <1>2 DEF GetVariablePartMessageSize
<1> QED
  BY <1>1, <1>2

(* Fill adds the byte it is given, whatever becomes of the size, and the   *)
(* size is known from then on (Fill).                                      *)
LEMMA FillGood ==
  ASSUME NEW eventType \in EventTypes, NEW filler, GoodFiller(eventType, filler),
         NEW b \in Byte
  PROVE  LET f == Fill(eventType, filler, b)
         IN  /\ GoodFiller(eventType, f)
             /\ f.messageSize >= FixedPartSize[eventType]
             /\ f.buffer = Append(filler.buffer, b)
<1> DEFINE known  == IF filler.messageSize = 0 THEN FixedPartSize[eventType]
                     ELSE filler.messageSize
           filled == Append(filler.buffer, b)
<1>1. known \in Nat /\ known >= FixedPartSize[eventType] /\ FixedPartSize[eventType] \in Nat
  BY FillerAssumption DEF GoodFiller, FillerType
<1>2. filled \in Seq(Byte)
  BY DEF GoodFiller, FillerType
<1>3. Len(filled) = known => GetVariablePartMessageSize(eventType, filled) \in Nat
  BY <1>1, <1>2, VariablePartType
<1> QED
  BY <1>1, <1>2, <1>3 DEF Fill, GoodFiller, FillerType

(* A filler that still waits for bytes of a message that is not too big.   *)
Waiting(filler) ==
  \/ filler = NewFiller
  \/ /\ Len(filler.buffer) < filler.messageSize
     /\ filler.messageSize <= MaxMessageSize

(* One more byte, and it is full, or the message is too big, or it waits   *)
(* on; in no case does it hold more than the largest message (Fill).       *)
LEMMA WaitingStays ==
  ASSUME NEW eventType \in EventTypes, NEW filler, GoodFiller(eventType, filler),
         Waiting(filler), NEW b \in Byte
  PROVE  LET f == Fill(eventType, filler, b)
         IN  /\ Len(f.buffer) <= MaxMessageSize
             /\ Filled(f) \/ TooBig(f) \/ Waiting(f)
<1> DEFINE known  == IF filler.messageSize = 0 THEN FixedPartSize[eventType]
                     ELSE filler.messageSize
           filled == Append(filler.buffer, b)
           f      == Fill(eventType, filler, b)
<1>1. /\ filler.buffer \in Seq(Byte) /\ filler.messageSize \in Nat
      /\ filled \in Seq(Byte) /\ Len(filled) = Len(filler.buffer) + 1
  BY DEF GoodFiller, FillerType
<1>2. FixedPartSize[eventType] \in Nat /\ FixedPartSize[eventType] > 2
  BY FillerAssumption DEF EventTypes
<1>3. MaxMessageSize \in Nat /\ MaxMessageSize >= 1
  BY FillerAssumption
<1>4. /\ known \in Nat /\ known >= FixedPartSize[eventType]
      /\ Len(filled) <= known /\ Len(filled) <= MaxMessageSize
  <2>1. CASE filler = NewFiller
    <3>1. filler.messageSize = 0 /\ Len(filler.buffer) = 0
      BY <2>1 DEF NewFiller
    <3> QED
      BY <1>1, <1>2, <1>3, <3>1
  <2>2. CASE filler # NewFiller
    <3>1. /\ Len(filler.buffer) < filler.messageSize
          /\ filler.messageSize <= MaxMessageSize
      BY <2>2 DEF Waiting
    <3>2. Len(filler.buffer) \in Nat
      BY <1>1
    <3>3. filler.messageSize >= FixedPartSize[eventType]
      BY <3>1, <3>2 DEF GoodFiller
    <3> QED
      BY <1>1, <1>2, <1>3, <3>1, <3>2, <3>3
  <2> QED
    BY <2>1, <2>2
<1>5. Len(filled) = known => GetVariablePartMessageSize(eventType, filled) \in Nat
  BY <1>1, <1>4, VariablePartType
<1>6. /\ f.buffer = filled
      /\ f.messageSize = IF Len(filled) = known
                         THEN known + GetVariablePartMessageSize(eventType, filled)
                         ELSE known
  BY DEF Fill
<1> HIDE DEF known, filled, f
<1>7. Len(f.buffer) <= f.messageSize /\ f.messageSize \in Nat /\ Len(f.buffer) \in Nat
  BY <1>1, <1>4, <1>5, <1>6
<1> QED
  BY <1>3, <1>4, <1>6, <1>7 DEF f, Filled, TooBig, Waiting

(* Once a filler holds its message, or more, Fill only lets it grow: it is *)
(* never filled again and keeps its size (Fill).                           *)
LEMMA CompleteStays ==
  ASSUME NEW eventType \in EventTypes, NEW filler, GoodFiller(eventType, filler),
         NEW b \in Byte, Complete(filler)
  PROVE  LET f == Fill(eventType, filler, b)
         IN  Complete(f) /\ ~ Filled(f)
BY DEF Fill, GoodFiller, FillerType, Complete, Filled
=============================================================================
