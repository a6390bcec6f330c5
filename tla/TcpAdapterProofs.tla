-------------------------- MODULE TcpAdapterProofs --------------------------
(***************************************************************************)
(* Theorems about TcpAdapter, for any number of callers, any requests and  *)
(* responses, any limits and any sizes of messages: first its types, its   *)
(* stream and its limits, then the order of what is sent and received.     *)
(***************************************************************************)
EXTENDS TcpAdapter, BytesFillerProofs, FiniteSetTheorems

(* The sending thread's local request is set exactly while the thread has  *)
(* one in hand; after an exception it may be either.                       *)
RequestInHand ==
  /\ sending \in {"serialize", "write"} => request # <<>>
  /\ sending \in {"unstarted", "enter", "connect", "authenticate", "loop", "dequeue"}
       => request = <<>>

FillersGood == \A t \in FillerTypes : GoodFiller(t, fillers[t])

TypeInv == TypeOK /\ RequestInHand /\ FillersGood
-----------------------------------------------------------------------------
(* A stretch of a sequence is made of the same elements.                   *)
LEMMA PartOfSeq ==
  ASSUME NEW S, NEW s \in Seq(S), NEW m \in Nat \ {0}, NEW n \in Nat, n <= Len(s)
  PROVE  SubSeq(s, m, n) \in Seq(S)
<1>1. \A i \in m .. n : i \in 1 .. Len(s)
  OBVIOUS
<1>2. \A i \in m .. n : s[i] \in S
  BY <1>1, ElementOfSeq
<1> QED
  BY <1>2, SubSeqProperties

(* The bytes of an event type are bytes, lowest first (GetBytes).          *)
LEMMA EventTypeBytes ==
  \A t \in EventTypes : GetBytes(t) = <<t, 0>> /\ t \in Byte /\ 0 \in Byte
BY DEF EventTypes, EventType_ConnectServer, EventType_SampleRooms, GetBytes, Byte

(* The two bytes of the event type leave a good filler good (Receiving).   *)
LEMMA FillTypeGood ==
  ASSUME NEW t \in EventTypes, NEW f, GoodFiller(t, f)
  PROVE  LET g == Fill(t, Fill(t, f, GetBytes(t)[1]), GetBytes(t)[2])
         IN  /\ GoodFiller(t, g)
             /\ g.messageSize >= FixedPartSize[t]
             /\ g.buffer = Append(Append(f.buffer, t), 0)
<1>1. /\ GetBytes(t)[1] = t /\ GetBytes(t)[2] = 0
      /\ t \in Byte /\ 0 \in Byte
  BY EventTypeBytes
<1>2. /\ GoodFiller(t, Fill(t, f, t))
      /\ Fill(t, f, t).buffer = Append(f.buffer, t)
  BY <1>1, FillGood
<1> QED
  BY <1>1, <1>2, FillGood

(* What a filled filler holds makes a response (DeserializeResponse).      *)
LEMMA ResponseTyped ==
  ASSUME NEW t \in EventTypes, NEW f, GoodFiller(t, f),
         f.messageSize >= FixedPartSize[t], Filled(f)
  PROVE  /\ Response(f.buffer) \in ResponseType
         /\ Response(f.buffer).eventType = f.buffer[1] + 256 * f.buffer[2]
<1>1. /\ f.buffer \in Seq(Byte) /\ Len(f.buffer) \in Nat /\ Len(f.buffer) > 2
  BY FillerAssumption DEF GoodFiller, FillerType, Filled, EventTypes
<1>2. f.buffer[1] \in Byte /\ f.buffer[2] \in Byte
  <2>1. 1 \in 1 .. Len(f.buffer) /\ 2 \in 1 .. Len(f.buffer)
    BY <1>1
  <2> QED
    BY <1>1, <2>1, ElementOfSeq
<1>3. ToUInt16(f.buffer, 0) = f.buffer[1] + 256 * f.buffer[2]
  BY DEF ToUInt16
<1>4. ToUInt16(f.buffer, 0) \in Nat
  <2>1. \A x, y \in Byte : x + 256 * y \in Nat
    BY DEF Byte
  <2> QED
    BY <1>2, <1>3, <2>1, Zenon
<1>5. Payload(f.buffer) \in Seq(Byte)
  BY <1>1, PartOfSeq DEF Payload
<1> QED
  BY <1>3, <1>4, <1>5 DEF Response, ResponseType
-----------------------------------------------------------------------------
USE DEF connection, queues, sender, receiver, threads, wire, history

(* At the start the types are right. *)
LEMMA InitTypeInv == Init => TypeInv
<1> SUFFICES ASSUME Init PROVE TypeInv
  OBVIOUS
<1>1. /\ fillers \in [FillerTypes -> FillerType]
      /\ FillersGood
  <2>1. \A t \in FillerTypes : t \in EventTypes
    BY AdapterAssumption
  <2> QED
    BY <2>1, NewFillerGood DEF Init, FillersGood, GoodFiller
<1>2. networkStream \in {"null", "open", "closed"}
  BY AdapterAssumption DEF Init
<1>3. calls \in [Callers -> {"idle", "sendError", "sendEnqueue", "receiveError",
                             "receiveDequeue", "startSending", "startReceiving"}]
  BY DEF Init
<1>4. \A S : <<>> \in Seq(S)
  BY EmptySeq
<1>5. /\ sendingQueue \in Seq(Requests) /\ receivingQueue \in Seq(ResponseType)
      /\ inbound \in Seq(Byte) /\ accepted \in Seq(Requests)
      /\ written \in Seq(Requests) /\ responses \in Seq(Responses)
      /\ delivered \in Seq(ResponseType)
  BY <1>4 DEF Init
<1>6. starts \in 0 .. MaxStarts
  <2>1. starts = 0
    BY DEF Init
  <2>2. MaxStarts \in Nat
    BY AdapterAssumption
  <2> QED
    BY <2>1, <2>2
<1>7. /\ socket \in {"none", "open", "closed"} /\ running \in BOOLEAN
      /\ error \in {"", "Sending", "Receiving"} /\ peer \in {"up", "down"}
      /\ request \in {<<>>} \cup {<<r>> : r \in Requests}
      /\ filler \in FillerTypes \cup {NoFiller}
      /\ RequestInHand
  BY DEF Init, RequestInHand
<1>8. /\ sending \in {"unstarted", "enter", "connect", "authenticate", "loop",
                      "dequeue", "serialize", "write", "finally", "done"}
      /\ receiving \in {"unstarted", "await", "loop", "read", "done"}
  BY DEF Init
<1> QED
  BY <1>1, <1>2, <1>3, <1>5, <1>6, <1>7, <1>8 DEF TypeInv, TypeOK

(* The steps of the callers keep the types. *)
LEMMA CallTypeInv ==
  ASSUME TypeInv, NEW c \in Callers
  PROVE  Call(c) \/ InCall(c) => TypeInv'
<1> USE DEF TypeInv, TypeOK, RequestInHand, FillersGood, Moves
<1>1. SendCount(c) => TypeInv'
  BY DEF SendCount
<1>2. SendError(c) => TypeInv'
  BY DEF SendError
<1>3. SendEnqueue(c) => TypeInv'
  <2>1. \A r \in Requests : /\ Append(sendingQueue, r) \in Seq(Requests)
                            /\ Append(accepted, r) \in Seq(Requests)
    BY AppendProperties
  <2>2. SendEnqueue(c) => /\ sendingQueue' \in Seq(Requests)
                          /\ accepted' \in Seq(Requests)
    BY <2>1 DEF SendEnqueue
  <2>3. SendEnqueue(c) =>
          /\ calls' = [calls EXCEPT ![c] = "idle"]
          /\ UNCHANGED <<connection, running, error, receivingQueue, threads, wire,
                         written, responses, delivered, starts>>
    BY DEF SendEnqueue
  <2> QED
    BY <2>2, <2>3
<1>4. ReceiveCount(c) => TypeInv'
  BY DEF ReceiveCount
<1>5. ReceiveError(c) => TypeInv'
  BY DEF ReceiveError
<1>6. ReceiveDequeue(c) => TypeInv'
  <2>1. receivingQueue # <<>> => /\ Tail(receivingQueue) \in Seq(ResponseType)
                                 /\ Append(delivered, Head(receivingQueue))
                                      \in Seq(ResponseType)
    BY HeadTailProperties, AppendProperties
  <2>2. ReceiveDequeue(c) => /\ receivingQueue' \in Seq(ResponseType)
                             /\ delivered' \in Seq(ResponseType)
    BY <2>1 DEF ReceiveDequeue
  <2>3. ReceiveDequeue(c) =>
          /\ calls' = [calls EXCEPT ![c] = "idle"]
          /\ UNCHANGED <<connection, running, error, sendingQueue, threads, wire,
                         accepted, written, responses, starts>>
    BY DEF ReceiveDequeue
  <2> QED
    BY <2>2, <2>3
<1>7. StartRunning(c) => TypeInv'
  <2>1. StartRunning(c) => starts' \in 0 .. MaxStarts
    <3>1. MaxStarts \in Nat
      BY AdapterAssumption
    <3>2. starts < MaxStarts => starts + 1 \in 0 .. MaxStarts
      <4>1. starts \in 0 .. MaxStarts
        BY Zenon
      <4> HIDE DEF TypeInv
      <4> QED
        BY <3>1, <4>1
    <3>3. StartRunning(c) => starts < MaxStarts /\ starts' = starts + 1
      BY DEF StartRunning
    <3> QED
      BY <3>2, <3>3, Zenon
  <2>2. StartRunning(c) =>
          /\ calls' = [calls EXCEPT ![c] = "startSending"]
          /\ running' = TRUE
          /\ UNCHANGED <<connection, error, queues, threads, wire, accepted, written,
                         responses, delivered>>
    BY DEF StartRunning
  <2> QED
    BY <2>1, <2>2
<1>8. StartSending(c) => TypeInv'
  BY DEF StartSending
<1>9. StartReceiving(c) => TypeInv'
  BY DEF StartReceiving
<1>10. Stop(c) => TypeInv'
  BY DEF Stop
<1> QED
  BY <1>1, <1>2, <1>3, <1>4, <1>5, <1>6, <1>7, <1>8, <1>9, <1>10 DEF Call, InCall

(* The steps of the sending thread keep the types. *)
LEMMA SendingTypeInv ==
  ASSUME TypeInv
  PROVE  SendingLocally \/ SendingRemotely => TypeInv'
<1> USE DEF TypeInv, TypeOK, RequestInHand, FillersGood, SendingThrows
<1>1. SendingEnter => TypeInv'
  BY DEF SendingEnter
<1>2. TcpConnect => TypeInv'
  BY DEF TcpConnect
<1>3. Authenticate => TypeInv'
  BY DEF Authenticate
<1>4. SendingLoop => TypeInv'
  BY DEF SendingLoop
<1>5. SendingDequeue => TypeInv'
  <2>1. TakesNothing => TypeInv'
    BY DEF TakesNothing
  <2>2. sendingQueue # <<>> => /\ Head(sendingQueue) \in Requests
                               /\ Tail(sendingQueue) \in Seq(Requests)
    BY HeadTailProperties
  <2>3. ASSUME NEW r \in Requests, NEW rest \in Seq(Requests)
        PROVE  Takes(<<r>>, rest) => TypeInv'
    <3>1. <<r>> \in {<<>>} \cup {<<x>> : x \in Requests} /\ <<r>> # <<>>
      OBVIOUS
    <3>2. Takes(<<r>>, rest) =>
            /\ request' = <<r>> /\ sending' = "serialize" /\ sendingQueue' = rest
            /\ UNCHANGED <<connection, running, error, receivingQueue, receiver, calls,
                           wire, history>>
      BY Zenon DEF Takes
    <3> QED
      BY <3>1, <3>2
  <2> QED
    BY <2>1, <2>2, <2>3 DEF SendingDequeue
<1>6. SendingSerialize => TypeInv'
  BY DEF SendingSerialize
<1>7. SendingWrite => TypeInv'
  <2>1. SendingWrite => request[1] \in Requests
    <3>1. request # <<>> => request[1] \in Requests
      <4>1. request # <<>> => \E r \in Requests : request = <<r>>
        BY Zenon
      <4> HIDE DEF TypeInv
      <4> QED
        BY <4>1
    <3>2. SendingWrite => request # <<>>
      BY DEF SendingWrite
    <3> QED
      BY <3>1, <3>2, Zenon
  <2>2. SendingWrite => written' \in Seq(Requests)
    <3>1. \A x \in Requests : Append(written, x) \in Seq(Requests)
      BY AppendProperties
    <3>2. SendingWrite => written' \in {written, Append(written, request[1])}
      BY DEF SendingWrite
    <3> QED
      BY <2>1, <3>1, <3>2, Zenon
  <2>3. SendingWrite =>
          /\ sending' \in {"loop", "finally"}
          /\ sending' = "loop" => request' = <<>>
          /\ request' \in {<<>>, request}
          /\ error' \in {error, "Sending"}
          /\ UNCHANGED <<connection, running, queues, receiver, calls, wire, accepted,
                         responses, delivered, starts>>
    BY DEF SendingWrite
  <2> QED
    BY <2>2, <2>3
<1>8. SendingFinally => TypeInv'
  BY DEF SendingFinally
<1> QED
  BY <1>1, <1>2, <1>3, <1>4, <1>5, <1>6, <1>7, <1>8
  DEF SendingLocally, SendingRemotely

(* The filler named by an event type, after the two bytes of it; the       *)
(* filler at hand, after one more byte.                                    *)
FilledType(eventType) ==
  Fill(eventType, Fill(eventType, fillers[eventType], GetBytes(eventType)[1]),
       GetBytes(eventType)[2])

(* Reading an event type keeps the types. *)
LEMMA ReceivingTypeTypeInv ==
  ASSUME TypeInv
  PROVE  ReceivingType => TypeInv'
<1> DEFINE t == BigEndian16(inbound)
           rest == SubSeq(inbound, 3, Len(inbound))
<1>1. rest \in Seq(Byte)
  <2>1. inbound \in Seq(Byte) /\ Len(inbound) \in Nat
    BY Zenon, LenProperties DEF TypeInv, TypeOK
  <2> QED
    BY <2>1, PartOfSeq
<1>2. t \in FillerTypes => /\ [fillers EXCEPT ![t] = FilledType(t)]
                                \in [FillerTypes -> FillerType]
                           /\ GoodFiller(t, FilledType(t))
  <2>1. FillerTypes \subseteq EventTypes
    BY AdapterAssumption
  <2>2. t \in FillerTypes => GoodFiller(t, FilledType(t))
    BY <2>1, FillTypeGood DEF FilledType, TypeInv, FillersGood
  <2>3. t \in FillerTypes => FilledType(t) \in FillerType
    BY <2>2 DEF GoodFiller
  <2>4. fillers \in [FillerTypes -> FillerType]
    BY DEF TypeInv, TypeOK
  <2> QED
    BY <2>2, <2>3, <2>4
<1> HIDE DEF t, rest
<1>3. ReceivingType =>
        /\ \/ UNCHANGED <<inbound, filler, fillers>>
           \/ inbound' = rest /\ UNCHANGED <<filler, fillers>>
           \/ /\ inbound' = rest /\ t \in FillerTypes /\ filler' = t
              /\ fillers' = [fillers EXCEPT ![t] = FilledType(t)]
        /\ receiving' \in {"loop", "done"}
        /\ error' \in {error, "Receiving"}
        /\ UNCHANGED <<connection, running, queues, sender, calls, peer, history>>
  BY DEF ReceivingType, ReceivingThrows, FillerFor, FilledType, t, rest
<1> QED
  BY <1>1, <1>2, <1>3 DEF TypeInv, TypeOK, RequestInHand, FillersGood

FilledByte == Fill(filler, fillers[filler], Head(inbound))

(* The step that reads one more byte, less the order of its branches.      *)
LEMMA ReceivingByteStep ==
  ASSUME ReceivingByte
  PROVE  /\ filler # NoFiller
         /\ \/ UNCHANGED <<inbound, filler, fillers, receivingQueue>>
            \/ /\ Len(inbound) >= 1 /\ inbound' = Tail(inbound)
               /\ fillers' = [fillers EXCEPT ![filler] = FilledByte]
               /\ \/ UNCHANGED <<filler, receivingQueue>>
                  \/ /\ Filled(FilledByte) /\ filler' = NoFiller
                     /\ receivingQueue' = Append(receivingQueue,
                                                 Response(FilledByte.buffer))
         /\ receiving' \in {"loop", "done"}
         /\ error' \in {error, "Receiving"}
         /\ UNCHANGED <<connection, running, sendingQueue, sender, calls, peer, history>>
BY DEF ReceivingByte, ReceivingThrows, FilledByte, Readable

(* The filler after one more byte. *)
LEMMA FilledByteGood ==
  ASSUME TypeInv, filler # NoFiller, Len(inbound) >= 1
  PROVE  /\ filler \in FillerTypes /\ filler \in EventTypes
         /\ Tail(inbound) \in Seq(Byte) /\ Head(inbound) \in Byte
         /\ FilledByte \in FillerType /\ GoodFiller(filler, FilledByte)
         /\ FilledByte.messageSize >= FixedPartSize[filler]
         /\ FilledByte.buffer = Append(fillers[filler].buffer, Head(inbound))
<1>1. filler \in FillerTypes /\ filler \in EventTypes
  BY AdapterAssumption DEF TypeInv, TypeOK
<1>2. Tail(inbound) \in Seq(Byte) /\ Head(inbound) \in Byte
  <2>1. inbound \in Seq(Byte)
    BY DEF TypeInv, TypeOK
  <2> QED
    BY <2>1, HeadTailProperties
<1>3. GoodFiller(filler, fillers[filler])
  BY <1>1 DEF TypeInv, FillersGood
<1>4. /\ GoodFiller(filler, FilledByte)
      /\ FilledByte.messageSize >= FixedPartSize[filler]
      /\ FilledByte.buffer = Append(fillers[filler].buffer, Head(inbound))
  BY <1>1, <1>2, <1>3, FillGood DEF FilledByte
<1> QED
  BY <1>1, <1>2, <1>4 DEF GoodFiller

(* Reading one more byte keeps the types. *)
LEMMA ReceivingByteTypeInv ==
  ASSUME TypeInv
  PROVE  ReceivingByte => TypeInv'
<1>1. fillers \in [FillerTypes -> FillerType] /\ receivingQueue \in Seq(ResponseType)
  BY DEF TypeInv, TypeOK
<1>2. ASSUME filler # NoFiller, Len(inbound) >= 1, Filled(FilledByte)
      PROVE  Append(receivingQueue, Response(FilledByte.buffer)) \in Seq(ResponseType)
  <2>1. Response(FilledByte.buffer) \in ResponseType
    BY <1>2, FilledByteGood, ResponseTyped
  <2> QED
    BY <1>1, <2>1, AppendProperties
<1>3. ReceivingByte =>
        \/ UNCHANGED <<inbound, filler, fillers, receivingQueue>>
        \/ /\ Tail(inbound) \in Seq(Byte) /\ inbound' = Tail(inbound)
           /\ filler \in FillerTypes /\ filler' \in {filler, NoFiller}
           /\ FilledByte \in FillerType /\ GoodFiller(filler, FilledByte)
           /\ fillers' = [fillers EXCEPT ![filler] = FilledByte]
           /\ receivingQueue' \in Seq(ResponseType)
  BY <1>1, <1>2, FilledByteGood, ReceivingByteStep
<1> QED
  BY <1>3, ReceivingByteStep DEF TypeInv, TypeOK, RequestInHand, FillersGood

(* The peer's steps keep the types. *)
LEMMA PeerTypeInv ==
  ASSUME TypeInv
  PROVE  PeerSend \/ PeerLost => TypeInv'
<1>1. inbound \in Seq(Byte) /\ responses \in Seq(Responses)
  BY DEF TypeInv, TypeOK
<1>2. \A m \in Responses : /\ inbound \o m \in Seq(Byte)
                           /\ Append(responses, m) \in Seq(Responses)
  BY <1>1, AdapterAssumption, ConcatProperties, AppendProperties
<1>3. \A n \in 0 .. Len(inbound) : SubSeq(inbound, 1, n) \in Seq(Byte)
  BY <1>1, PartOfSeq
<1>4. PeerSend =>
        /\ inbound' \in Seq(Byte) /\ responses' \in Seq(Responses)
        /\ UNCHANGED <<connection, running, error, queues, threads, calls, peer,
                       accepted, written, delivered, starts>>
  BY <1>2 DEF PeerSend
<1>5. PeerLost =>
        /\ peer' = "down" /\ inbound' \in Seq(Byte)
        /\ UNCHANGED <<connection, running, error, queues, threads, calls, history>>
  BY <1>3 DEF PeerLost
<1> QED
  BY <1>4, <1>5 DEF TypeInv, TypeOK, RequestInHand, FillersGood

(* Every step keeps the types. *)
LEMMA StepTypeInv == TypeInv /\ [Next]_vars => TypeInv'
<1> SUFFICES ASSUME TypeInv PROVE [Next]_vars => TypeInv'
  OBVIOUS
<1>1. \A c \in Callers : Call(c) \/ InCall(c) => TypeInv'
  BY CallTypeInv
<1>2. SendingLocally \/ SendingRemotely => TypeInv'
  BY SendingTypeInv
<1>3. Receiving => TypeInv'
  <2>1. ReceivingAwait => TypeInv'
    BY DEF ReceivingAwait, TypeInv, TypeOK, RequestInHand, FillersGood
  <2>2. ReceivingLoop => TypeInv'
    BY DEF ReceivingLoop, TypeInv, TypeOK, RequestInHand, FillersGood
  <2> QED
    BY <2>1, <2>2, ReceivingTypeTypeInv, ReceivingByteTypeInv DEF Receiving
<1>4. PeerSend \/ PeerLost => TypeInv'
  BY PeerTypeInv
<1>5. UNCHANGED vars => TypeInv'
  BY DEF vars, TypeInv, TypeOK, RequestInHand, FillersGood
<1> QED
  BY <1>1, <1>2, <1>3, <1>4, <1>5 DEF Next

(* The variables keep their types for every number of callers, every set   *)
(* of requests and of messages and all limits.                             *)
THEOREM TypeCorrect == Spec => []TypeOK
<1>1. TypeInv => TypeOK
  BY DEF TypeInv
<1> QED
  BY <1>1, InitTypeInv, StepTypeInv, PTL DEF Spec
-----------------------------------------------------------------------------
(***************************************************************************)
(* The safety properties, from the types and one strengthening for each.   *)
(***************************************************************************)

(* No step clears the error. *)
LEMMA StepError == [Next]_vars => error' \in {error, "Sending", "Receiving"}
<1> USE DEF SendingThrows, ReceivingThrows, Moves
<1>1. \A c \in Callers : Call(c) => UNCHANGED error
  BY DEF Call, SendCount, ReceiveCount, StartRunning, Stop
<1>2. \A c \in Callers : InCall(c) => UNCHANGED error
  BY DEF InCall, SendError, SendEnqueue, ReceiveError, ReceiveDequeue, StartSending,
         StartReceiving
<1>3. SendingLocally => error' \in {error, "Sending"}
  BY DEF SendingLocally, SendingEnter, SendingLoop, SendingDequeue, Takes,
         TakesNothing, SendingSerialize, SendingFinally
<1>4. SendingRemotely => error' \in {error, "Sending"}
  BY DEF SendingRemotely, TcpConnect, Authenticate, SendingWrite
<1>5. Receiving => error' \in {error, "Receiving"}
  <2>1. ReceivingAwait \/ ReceivingLoop => UNCHANGED error
    BY DEF ReceivingAwait, ReceivingLoop
  <2>2. ReceivingType => error' \in {error, "Receiving"}
    BY DEF ReceivingType
  <2>3. ReceivingByte => error' \in {error, "Receiving"}
    BY ReceivingByteStep
  <2> QED
    BY <2>1, <2>2, <2>3 DEF Receiving
<1>6. PeerSend \/ PeerLost => UNCHANGED error
  BY DEF PeerSend, PeerLost
<1> QED
  BY <1>1, <1>2, <1>3, <1>4, <1>5, <1>6 DEF Next, vars

(* An error once recorded is never lost, whatever the threads do (error in *)
(* Sending and Receiving, read by Send and Receive).                       *)
THEOREM ErrorNeverCleared == Spec => ErrorSticks
<1>1. [Next]_vars => [error # "" => error' # ""]_vars
  BY StepError
<1> QED
  BY <1>1, PTL DEF Spec, ErrorSticks
-----------------------------------------------------------------------------
(* Where the stream is while the sending thread is where it is: there is   *)
(* none until it connects, nobody else closes it, and it closes it last.   *)
StreamInv ==
  /\ networkStream \in {"null", "open", "closed"}
  /\ sending \in {"unstarted", "enter", "finally"} => networkStream # "closed"
  /\ sending \in {"connect", "authenticate"} => networkStream = "null"
  /\ sending \in {"loop", "dequeue", "serialize", "write"} => networkStream = "open"
  /\ sending = "done" /\ networkStream # "null"
       => networkStream = "closed" /\ socket # "open"

(* Every step keeps StreamInv. *)
LEMMA StepStreamInv == StreamInv /\ [Next]_vars => StreamInv'
<1> USE DEF SendingThrows, ReceivingThrows, Moves, StreamInv
<1> SUFFICES ASSUME StreamInv PROVE [Next]_vars => StreamInv'
  OBVIOUS
<1>1. \A c \in Callers : Call(c) => StreamInv'
  BY DEF Call, SendCount, ReceiveCount, StartRunning, Stop
<1>2. \A c \in Callers : InCall(c) => StreamInv'
  <2> TAKE c \in Callers
  <2>1. StartSending(c) => StreamInv'
    BY DEF StartSending
  <2> QED
    BY <2>1 DEF InCall, SendError, SendEnqueue, ReceiveError, ReceiveDequeue,
                StartReceiving
<1>3. SendingEnter => StreamInv'
  BY DEF SendingEnter
<1>4. SendingLoop \/ SendingDequeue \/ SendingSerialize => StreamInv'
  BY DEF SendingLoop, SendingDequeue, Takes, TakesNothing, SendingSerialize
<1>5. SendingFinally => StreamInv'
  BY DEF SendingFinally
<1>6. TcpConnect => StreamInv'
  BY DEF TcpConnect
<1>7. Authenticate => StreamInv'
  BY DEF Authenticate
<1>8. SendingWrite => StreamInv'
  BY DEF SendingWrite
<1>9. Receiving => UNCHANGED <<connection, sending>>
  <2>1. ReceivingByte => UNCHANGED <<connection, sending>>
    BY ReceivingByteStep
  <2> QED
    BY <2>1 DEF Receiving, ReceivingAwait, ReceivingLoop, ReceivingType
<1>10. PeerSend \/ PeerLost => UNCHANGED <<connection, sending>>
  BY DEF PeerSend, PeerLost
<1>11. UNCHANGED <<connection, sending>> => StreamInv'
  OBVIOUS
<1> QED
  BY <1>1, <1>2, <1>3, <1>4, <1>5, <1>6, <1>7, <1>8, <1>9, <1>10, <1>11
  DEF Next, SendingLocally, SendingRemotely, vars

(* The stream is open while the sending thread works, and an established   *)
(* connection never outlives it (Sending's finally block).                 *)
THEOREM StreamClosed == Spec => []StreamFollowsSending
<1>1. Init => StreamInv
  BY AdapterAssumption DEF Init, StreamInv
<1>2. StreamInv => StreamFollowsSending
  BY DEF StreamInv, StreamFollowsSending
<1> QED
  BY <1>1, <1>2, StepStreamInv, PTL DEF Spec
-----------------------------------------------------------------------------
(* Whoever is on the way through Start has counted it, and after a single  *)
(* Start the receiving thread leaves its wait with no stream only because  *)
(* of a Stop or of an error, which its loop then sees.                     *)
Started == starts >= 1
Restarted == starts > 1

NullStreamInv ==
  /\ \A c \in Callers : calls[c] \in {"startSending", "startReceiving"} => Started
  /\ receiving # "unstarted" => Started
  /\ receiving = "loop" /\ networkStream = "null"
       => running = FALSE \/ error # "" \/ Restarted
  /\ receiving = "read" /\ networkStream = "null" => Restarted

(* Every step keeps NullStreamInv. *)
LEMMA StepNullStreamInv == TypeInv /\ NullStreamInv /\ [Next]_vars => NullStreamInv'
<1> SUFFICES ASSUME TypeInv, NullStreamInv PROVE [Next]_vars => NullStreamInv'
  OBVIOUS
<1>1. /\ starts \in Nat
      /\ calls \in [Callers -> {"idle", "sendError", "sendEnqueue", "receiveError",
                                "receiveDequeue", "startSending", "startReceiving"}]
  <2>1. starts \in 0 .. MaxStarts
    BY DEF TypeInv, TypeOK
  <2>2. calls \in [Callers -> {"idle", "sendError", "sendEnqueue", "receiveError",
                               "receiveDequeue", "startSending", "startReceiving"}]
    BY DEF TypeInv, TypeOK
  <2>3. MaxStarts \in Nat
    BY AdapterAssumption
  <2> QED
    BY <2>1, <2>2, <2>3
<1>2. UNCHANGED starts => /\ Started => Started'
                          /\ Restarted => Restarted'
  BY DEF Started, Restarted
<1>3. starts' = starts + 1 => /\ Started'
                              /\ Started => Restarted'
                              /\ Restarted => Restarted'
  BY <1>1 DEF Started, Restarted
<1> USE DEF SendingThrows, ReceivingThrows, Moves, NullStreamInv
<1>4. ASSUME NEW c \in Callers PROVE Call(c) => NullStreamInv'
  <2>1. StartRunning(c) => NullStreamInv'
    <3>1. StartRunning(c) => starts' = starts + 1
      BY DEF StartRunning
    <3> QED
      BY <1>1, <1>3, <3>1 DEF StartRunning
  <2>2. SendCount(c) \/ ReceiveCount(c) \/ Stop(c) => UNCHANGED starts
    BY DEF SendCount, ReceiveCount, Stop
  <2> QED
    BY <1>1, <1>2, <2>1, <2>2 DEF Call, SendCount, ReceiveCount, Stop
<1>5. ASSUME NEW c \in Callers PROVE InCall(c) => NullStreamInv'
  <2>1. InCall(c) => UNCHANGED starts
    BY DEF InCall, SendError, SendEnqueue, ReceiveError, ReceiveDequeue, StartSending,
           StartReceiving
  <2>2. StartSending(c) => NullStreamInv'
    BY <1>1, <1>2, <2>1 DEF InCall, StartSending
  <2>3. StartReceiving(c) => NullStreamInv'
    BY <1>1, <1>2, <2>1 DEF InCall, StartReceiving
  <2> QED
    BY <1>1, <1>2, <2>1, <2>2, <2>3
    DEF InCall, SendError, SendEnqueue, ReceiveError, ReceiveDequeue
<1>6. SendingLocally => NullStreamInv'
  BY <1>2 DEF SendingLocally, SendingEnter, SendingLoop, SendingDequeue, Takes,
              TakesNothing, SendingSerialize, SendingFinally
<1>7. SendingRemotely => NullStreamInv'
  BY <1>2 DEF SendingRemotely, TcpConnect, Authenticate, SendingWrite
<1>8. ReceivingAwait => NullStreamInv'
  <2>1. running \in BOOLEAN
    BY DEF TypeInv, TypeOK
  <2>2. ReceivingAwait => \/ running = FALSE \/ error # "" \/ networkStream # "null"
    BY <2>1, Zenon DEF ReceivingAwait
  <2>3. ReceivingAwait =>
          /\ receiving = "await" /\ receiving' = "loop"
          /\ UNCHANGED <<networkStream, running, error, calls, starts>>
    BY DEF ReceivingAwait
  <2> QED
    BY <1>2, <2>2, <2>3
<1>9. ReceivingLoop => NullStreamInv'
  BY <1>2 DEF ReceivingLoop
<1>10. ReceivingType \/ ReceivingByte => NullStreamInv'
  <2>1. ReceivingType \/ ReceivingByte =>
          /\ receiving = "read"
          /\ receiving' \in {"loop", "done"}
          /\ receiving' = "loop" => networkStream = "open"
          /\ UNCHANGED <<networkStream, calls, starts>>
    BY DEF ReceivingType, ReceivingByte, Readable
  <2> QED
    BY <1>2, <2>1
<1>11. PeerSend \/ PeerLost => NullStreamInv'
  BY <1>2 DEF PeerSend, PeerLost
<1>12. UNCHANGED vars => NullStreamInv'
  BY <1>2 DEF vars
<1> QED
  BY <1>4, <1>5, <1>6, <1>7, <1>8, <1>9, <1>10, <1>11, <1>12 DEF Next, Receiving

(* As long as Start was called once only, the receiving thread never reads *)
(* from a null stream (Receiving's wait for the sending thread).           *)
THEOREM NullStreamOnlyAfterRestart == Spec => []NullStreamNeedsRestart
<1>1. Init => NullStreamInv
  BY DEF Init, NullStreamInv
<1>2. NullStreamInv => NullStreamNeedsRestart
  BY DEF NullStreamInv, NullStreamNeedsRestart, Restarted
<1> QED
  BY <1>1, <1>2, InitTypeInv, StepTypeInv, StepNullStreamInv, PTL DEF Spec
-----------------------------------------------------------------------------
(* The sending thread leaves its loop only because of a Stop or of an      *)
(* error, and only a second Start undoes the former.                       *)
DeadInv ==
  /\ sending # "unstarted" => Started
  /\ sending \in {"finally", "done"} => running = FALSE \/ error # "" \/ Restarted

(* Every step keeps DeadInv. *)
LEMMA StepDeadInv == TypeInv /\ NullStreamInv /\ DeadInv /\ [Next]_vars => DeadInv'
<1> SUFFICES ASSUME TypeInv, NullStreamInv, DeadInv PROVE [Next]_vars => DeadInv'
  OBVIOUS
<1>1. starts \in Nat /\ running \in BOOLEAN
  <2>1. starts \in 0 .. MaxStarts /\ running \in BOOLEAN
    BY Zenon DEF TypeInv, TypeOK
  <2>2. MaxStarts \in Nat
    BY AdapterAssumption
  <2> QED
    BY <2>1, <2>2
<1>2. UNCHANGED starts => /\ Started => Started'
                          /\ Restarted => Restarted'
  BY DEF Started, Restarted
<1>3. starts' = starts + 1 => /\ Started'
                              /\ Started => Restarted'
                              /\ Restarted => Restarted'
  BY <1>1 DEF Started, Restarted
<1> USE DEF SendingThrows, ReceivingThrows, Moves, DeadInv
<1>4. ASSUME NEW c \in Callers PROVE Call(c) => DeadInv'
  <2>1. StartRunning(c) => DeadInv'
    BY <1>3 DEF StartRunning
  <2>2. SendCount(c) \/ ReceiveCount(c) \/ Stop(c) => DeadInv'
    BY <1>2 DEF SendCount, ReceiveCount, Stop
  <2> QED
    BY <2>1, <2>2 DEF Call
<1>5. ASSUME NEW c \in Callers PROVE InCall(c) => DeadInv'
  <2>1. StartSending(c) => DeadInv'
    BY <1>2 DEF StartSending, NullStreamInv
  <2> QED
    BY <1>2, <2>1
    DEF InCall, SendError, SendEnqueue, ReceiveError, ReceiveDequeue, StartReceiving
<1>6. SendingLoop => DeadInv'
  <2>1. SendingLoop /\ sending' # "dequeue" => running = FALSE \/ error # ""
    BY <1>1, Zenon DEF SendingLoop
  <2>2. SendingLoop => /\ sending = "loop" /\ sending' \in {"dequeue", "finally"}
                       /\ UNCHANGED <<running, error, starts>>
    BY DEF SendingLoop
  <2> QED
    BY <1>2, <2>1, <2>2
<1>7. SendingLocally /\ ~ SendingLoop => DeadInv'
  BY <1>2 DEF SendingLocally, SendingEnter, SendingDequeue, Takes, TakesNothing,
              SendingSerialize, SendingFinally
<1>8. SendingRemotely => DeadInv'
  BY <1>2 DEF SendingRemotely, TcpConnect, Authenticate, SendingWrite
<1>9. Receiving => DeadInv'
  <2>1. Receiving => UNCHANGED <<sending, running, starts>>
    BY DEF Receiving, ReceivingAwait, ReceivingLoop, ReceivingType, ReceivingByte
  <2>2. Receiving => error' \in {error, "Receiving"}
    BY ReceivingByteStep
    DEF Receiving, ReceivingAwait, ReceivingLoop, ReceivingType
  <2> QED
    BY <1>2, <2>1, <2>2
<1>10. PeerSend \/ PeerLost \/ UNCHANGED vars => DeadInv'
  BY <1>2 DEF PeerSend, PeerLost, vars
<1> QED
  BY <1>4, <1>5, <1>6, <1>7, <1>8, <1>9, <1>10 DEF Next

(* As long as Start was called once only, an adapter that is running with  *)
(* no error has a sending thread that has not ended (Start and the loop    *)
(* condition of Sending).                                                  *)
THEOREM DeadOnlyAfterRestart == Spec => []DeadNeedsRestart
<1>1. Init => NullStreamInv /\ DeadInv
  BY DEF Init, NullStreamInv, DeadInv
<1>2. DeadInv => DeadNeedsRestart
  BY DEF DeadInv, DeadNeedsRestart, Restarted
<1> QED
  BY <1>1, <1>2, InitTypeInv, StepTypeInv, StepNullStreamInv, StepDeadInv, PTL DEF Spec
-----------------------------------------------------------------------------
(* Every caller between the check of the limit and the enqueue may add one *)
(* request to the queue.                                                   *)
QueueBoundInv ==
  Len(sendingQueue) + Cardinality(InSend) <= SendLimit + Cardinality(Callers)

(* The callers inside Send are finitely many, and no more than the callers.*)
LEMMA InSendFinite ==
  /\ IsFiniteSet(InSend) /\ Cardinality(InSend) \in Nat
  /\ Cardinality(InSend) <= Cardinality(Callers) /\ Cardinality(Callers) \in Nat
<1>1. InSend \subseteq Callers
  BY DEF InSend
<1> QED
  BY <1>1, AdapterAssumption, FS_Subset, FS_CardinalityType

(* Every step keeps QueueBoundInv. *)
LEMMA StepQueueBoundInv == TypeInv /\ QueueBoundInv /\ [Next]_vars => QueueBoundInv'
<1> SUFFICES ASSUME TypeInv, QueueBoundInv PROVE [Next]_vars => QueueBoundInv'
  OBVIOUS
<1>1. /\ sendingQueue \in Seq(Requests) /\ Len(sendingQueue) \in Nat
      /\ calls \in [Callers -> {"idle", "sendError", "sendEnqueue", "receiveError",
                                "receiveDequeue", "startSending", "startReceiving"}]
  BY LenProperties DEF TypeInv, TypeOK
<1>2. SendLimit \in Nat
  BY AdapterAssumption
<1>3. /\ IsFiniteSet(InSend) /\ Cardinality(InSend) \in Nat
      /\ Cardinality(InSend) <= Cardinality(Callers) /\ Cardinality(Callers) \in Nat
  BY InSendFinite
<1>4. /\ IsFiniteSet(InSend') /\ Cardinality(InSend') \in Nat
      /\ Cardinality(InSend') <= Cardinality(Callers)
  <2>1. InSend' \subseteq Callers
    BY DEF InSend
  <2> QED
    BY <2>1, AdapterAssumption, FS_Subset, FS_CardinalityType
<1>5. InSend' = InSend /\ Len(sendingQueue') <= Len(sendingQueue) => QueueBoundInv'
  BY <1>1, <1>2, <1>3 DEF QueueBoundInv
<1>6. UNCHANGED <<calls, sendingQueue>> => QueueBoundInv'
  BY <1>1, <1>5 DEF InSend
<1> USE DEF Moves
<1>7. ASSUME NEW c \in Callers PROVE Call(c) => QueueBoundInv'
  <2>1. SendCount(c) => QueueBoundInv'
    <3>1. SendCount(c) => Len(sendingQueue) <= SendLimit /\ UNCHANGED sendingQueue
      BY <1>1, <1>2 DEF SendCount, TooManyQueued
    <3>2. Len(sendingQueue) <= SendLimit /\ UNCHANGED sendingQueue => QueueBoundInv'
      BY <1>1, <1>2, <1>3, <1>4 DEF QueueBoundInv
    <3> QED
      BY <3>1, <3>2
  <2>2. ReceiveCount(c) \/ StartRunning(c) => InSend' = InSend /\ UNCHANGED sendingQueue
    BY <1>1 DEF ReceiveCount, StartRunning, InSend
  <2>3. Stop(c) => UNCHANGED <<calls, sendingQueue>>
    BY DEF Stop
  <2> QED
    BY <1>5, <1>6, <1>1, <2>1, <2>2, <2>3 DEF Call
<1>8. ASSUME NEW c \in Callers PROVE InCall(c) => QueueBoundInv'
  <2>1. SendError(c) => QueueBoundInv'
    <3>1. SendError(c) => InSend' \subseteq InSend /\ UNCHANGED sendingQueue
      BY <1>1 DEF SendError, InSend
    <3>2. InSend' \subseteq InSend => Cardinality(InSend') <= Cardinality(InSend)
      BY <1>3, FS_Subset
    <3>3. InSend' \subseteq InSend /\ UNCHANGED sendingQueue => QueueBoundInv'
      BY <1>1, <1>2, <1>3, <1>4, <3>2 DEF QueueBoundInv
    <3> QED
      BY <3>1, <3>3
  <2>2. SendEnqueue(c) => QueueBoundInv'
    <3>1. SendEnqueue(c) => c \in InSend /\ InSend' = InSend \ {c}
      BY <1>1 DEF SendEnqueue, InSend
    <3>2. SendEnqueue(c) => Len(sendingQueue') = Len(sendingQueue) + 1
      BY <1>1, AppendProperties DEF SendEnqueue
    <3>3. c \in InSend => Cardinality(InSend \ {c}) = Cardinality(InSend) - 1
      BY <1>3, FS_RemoveElement
    <3>4. c \in InSend /\ InSend' = InSend \ {c}
            /\ Len(sendingQueue') = Len(sendingQueue) + 1 => QueueBoundInv'
      BY <1>1, <1>2, <1>3, <3>3 DEF QueueBoundInv
    <3> QED
      BY <3>1, <3>2, <3>4
  <2>3. ReceiveError(c) \/ ReceiveDequeue(c) \/ StartSending(c) \/ StartReceiving(c)
          => InSend' = InSend /\ UNCHANGED sendingQueue
    BY <1>1 DEF ReceiveError, ReceiveDequeue, StartSending, StartReceiving, InSend
  <2> QED
    BY <1>1, <1>5, <2>1, <2>2, <2>3 DEF InCall
<1>9. SendingDequeue => QueueBoundInv'
  <2>1. SendingDequeue => /\ UNCHANGED calls
                          /\ \/ UNCHANGED sendingQueue
                             \/ /\ sendingQueue # <<>>
                                /\ sendingQueue' = Tail(sendingQueue)
    BY DEF SendingDequeue, Takes, TakesNothing
  <2>2. sendingQueue # <<>> => Len(Tail(sendingQueue)) = Len(sendingQueue) - 1
    BY <1>1, HeadTailProperties
  <2>3. UNCHANGED calls => InSend' = InSend
    BY DEF InSend
  <2> QED
    BY <1>1, <1>5, <2>1, <2>2, <2>3
<1>10. SendingEnter \/ SendingLoop \/ SendingSerialize \/ SendingFinally
         => UNCHANGED <<calls, sendingQueue>>
  BY DEF SendingEnter, SendingLoop, SendingSerialize, SendingFinally
<1>11. SendingRemotely => UNCHANGED <<calls, sendingQueue>>
  BY DEF SendingRemotely, TcpConnect, Authenticate, SendingWrite
<1>12. Receiving \/ PeerSend \/ PeerLost => UNCHANGED <<calls, sendingQueue>>
  BY DEF Receiving, ReceivingAwait, ReceivingLoop, ReceivingType, ReceivingByte,
         PeerSend, PeerLost
<1>13. UNCHANGED vars => UNCHANGED <<calls, sendingQueue>>
  BY DEF vars
<1> QED
  BY <1>6, <1>7, <1>8, <1>9, <1>10, <1>11, <1>12, <1>13 DEF Next, SendingLocally

(* Send overruns its limit by at most one request for each caller, for any *)
(* limit and any number of callers (Send reads Count and enqueues later).  *)
THEOREM SendQueueBounded == Spec => []SendQueueBound
<1>1. Init => QueueBoundInv
  <2>1. Init => InSend = {} /\ Len(sendingQueue) = 0
    BY DEF Init, InSend
  <2>2. InSend = {} => Cardinality(InSend) = 0
    BY FS_EmptySet
  <2>3. SendLimit \in Nat /\ Cardinality(Callers) \in Nat
    BY AdapterAssumption, FS_CardinalityType
  <2>4. InSend = {} /\ Len(sendingQueue) = 0 => QueueBoundInv
    BY <2>2, <2>3 DEF QueueBoundInv
  <2> QED
    BY <2>1, <2>4
<1>2. TypeInv /\ QueueBoundInv => SendQueueBound
  <2>1. TypeInv => Len(sendingQueue) \in Nat
    BY LenProperties DEF TypeInv, TypeOK
  <2>2. SendLimit \in Nat
    BY AdapterAssumption
  <2> QED
    BY <2>1, <2>2, InSendFinite DEF QueueBoundInv, SendQueueBound
<1> QED
  BY <1>1, <1>2, InitTypeInv, StepTypeInv, StepQueueBoundInv, PTL DEF Spec
-----------------------------------------------------------------------------
(***************************************************************************)
(* What the two queues of TcpAdapter promise: requests are written in the  *)
(* order Send accepted them, a filler answers once only, and what Receive  *)
(* returns is what was sent first.                                         *)
(***************************************************************************)
(* Appending at the end of a concatenation appends to its last part. *)
LEMMA AppendToConcat ==
  ASSUME NEW S, NEW s \in Seq(S), NEW q \in Seq(S), NEW x \in S
  PROVE  Append(s \o q, x) = s \o Append(q, x)
<1>1. s \o q \in Seq(S) /\ <<x>> \in Seq(S)
  BY ConcatProperties
<1>2. Append(s \o q, x) = (s \o q) \o <<x>> /\ Append(q, x) = q \o <<x>>
  BY <1>1, AppendIsConcat
<1> QED
  BY <1>1, <1>2, ConcatAssociative

(* Taking the head of the last part into the empty middle part changes     *)
(* nothing, nor does moving the middle part's only element to the end of   *)
(* the first part.                                                         *)
LEMMA MoveHead ==
  ASSUME NEW S, NEW s \in Seq(S), NEW q \in Seq(S), q # <<>>
  PROVE  s \o <<>> \o q = s \o <<Head(q)>> \o Tail(q)
<1>1. Head(q) \in S /\ Tail(q) \in Seq(S) /\ <<Head(q)>> \in Seq(S)
  BY HeadTailProperties
<1>2. q = <<Head(q)>> \o Tail(q)
  <2>1. Len(Tail(q)) = Len(q) - 1 /\ \A i \in 1 .. Len(Tail(q)) : Tail(q)[i] = q[i + 1]
    BY HeadTailProperties
  <2>2. Head(q) = q[1]
    OBVIOUS
  <2>3. <<Head(q)>> \o Tail(q) \in Seq(S)
    BY <1>1, ConcatProperties
  <2>4. Len(<<Head(q)>> \o Tail(q)) = Len(q)
    BY <1>1, <2>1, ConcatProperties
  <2>5. \A i \in 1 .. Len(q) : (<<Head(q)>> \o Tail(q))[i] = q[i]
    BY <1>1, <2>1, <2>2, ConcatProperties
  <2> QED
    BY <2>3, <2>4, <2>5, SeqEqual
<1>3. s \o <<>> = s
  BY ConcatEmptySeq
<1> QED
  BY <1>1, <1>2, <1>3, ConcatAssociative

(* And back: the element in the middle joins the first part.               *)
LEMMA MoveMiddle ==
  ASSUME NEW S, NEW s \in Seq(S), NEW q \in Seq(S), NEW x \in S
  PROVE  s \o <<x>> \o q = Append(s, x) \o <<>> \o q
<1>1. Append(s, x) = s \o <<x>> /\ Append(s, x) \in Seq(S)
  BY AppendIsConcat, AppendProperties
<1> QED
  BY <1>1, ConcatEmptySeq
-----------------------------------------------------------------------------
(* The sequences of requests and what the sending thread has in hand.      *)
LEMMA RequestTypes ==
  ASSUME TypeInv
  PROVE  /\ sendingQueue \in Seq(Requests) /\ accepted \in Seq(Requests)
         /\ written \in Seq(Requests) /\ request \in Seq(Requests)
         /\ sending = "dequeue" => request = <<>>
         /\ sending = "write" =>
              request[1] \in Requests /\ request = <<request[1]>>
<1>1. /\ sendingQueue \in Seq(Requests) /\ accepted \in Seq(Requests)
      /\ written \in Seq(Requests)
  BY DEF TypeInv, TypeOK
<1>2. request = <<>> \/ \E r \in Requests : request = <<r>>
  BY Zenon DEF TypeInv, TypeOK
<1>3. /\ sending = "dequeue" => request = <<>>
      /\ sending = "write" => request # <<>>
  BY DEF TypeInv, RequestInHand
<1>4. request \in Seq(Requests)
  <2>1. <<>> \in Seq(Requests) /\ \A r \in Requests : <<r>> \in Seq(Requests)
    OBVIOUS
  <2> QED
    BY <1>2, <2>1, Zenon
<1>5. request # <<>> => request[1] \in Requests /\ request = <<request[1]>>
  BY <1>2
<1> QED
  BY <1>1, <1>3, <1>4, <1>5

(* Every step keeps the requests in order. *)
LEMMA StepRequestsInOrder ==
  TypeInv /\ RequestsInOrder /\ [Next]_vars => RequestsInOrder'
<1> SUFFICES ASSUME TypeInv, RequestsInOrder PROVE [Next]_vars => RequestsInOrder'
  OBVIOUS
<1>1. /\ sendingQueue \in Seq(Requests) /\ accepted \in Seq(Requests)
      /\ written \in Seq(Requests) /\ request \in Seq(Requests)
      /\ written \o request \in Seq(Requests)
  BY RequestTypes, ConcatProperties
<1>2. UNCHANGED <<accepted, written, request, sendingQueue>> => RequestsInOrder'
  BY DEF RequestsInOrder
<1> USE DEF Moves, SendingThrows
<1>3. ASSUME NEW c \in Callers PROVE InCall(c) => RequestsInOrder'
  <2>1. SendEnqueue(c) => RequestsInOrder'
    <3>1. ASSUME NEW r \in Requests
          PROVE  Append(accepted, r) = written \o request \o Append(sendingQueue, r)
      <4> DEFINE taken == written \o request
      <4>1. taken \in Seq(Requests) /\ accepted = taken \o sendingQueue
        BY <1>1 DEF RequestsInOrder
      <4> SUFFICES Append(accepted, r) = taken \o Append(sendingQueue, r)
        OBVIOUS
      <4> HIDE DEF taken
      <4>2. sendingQueue \in Seq(Requests)
        BY <1>1
      <4>3. Append(taken \o sendingQueue, r) = taken \o Append(sendingQueue, r)
        BY <4>1, <4>2, AppendToConcat
      <4> QED
        BY <4>1, <4>3, Zenon
    <3>2. SUFFICES ASSUME SendEnqueue(c) PROVE RequestsInOrder'
      OBVIOUS
    <3>3. PICK r \in Requests : /\ sendingQueue' = Append(sendingQueue, r)
                                /\ accepted' = Append(accepted, r)
      BY <3>2 DEF SendEnqueue
    <3>4. written' = written /\ request' = request
      BY <3>2 DEF SendEnqueue
    <3>5. accepted' = written \o request \o sendingQueue'
      BY <3>1, <3>3
    <3> QED
      BY <3>4, <3>5 DEF RequestsInOrder
  <2> QED
    BY <1>2, <2>1 DEF InCall, SendError, ReceiveError, ReceiveDequeue, StartSending,
                      StartReceiving
<1>4. SendingDequeue => RequestsInOrder'
  <2>1. SendingDequeue =>
          \/ UNCHANGED <<accepted, written, request, sendingQueue>>
          \/ /\ sending = "dequeue" /\ sendingQueue # <<>>
             /\ request' = <<Head(sendingQueue)>> /\ sendingQueue' = Tail(sendingQueue)
             /\ UNCHANGED <<accepted, written>>
    BY DEF SendingDequeue, Takes, TakesNothing
  <2>2. sending = "dequeue" /\ sendingQueue # <<>> =>
          accepted = written \o <<Head(sendingQueue)>> \o Tail(sendingQueue)
    BY <1>1, RequestTypes, MoveHead DEF RequestsInOrder
  <2> QED
    BY <1>2, <2>1, <2>2 DEF RequestsInOrder
<1>5. SendingWrite => RequestsInOrder'
  <2>1. SendingWrite =>
          \/ UNCHANGED <<accepted, written, request, sendingQueue>>
          \/ /\ sending = "write" /\ request' = <<>>
             /\ written' = Append(written, request[1])
             /\ UNCHANGED <<accepted, sendingQueue>>
    BY DEF SendingWrite
  <2>2. sending = "write" =>
          accepted = Append(written, request[1]) \o <<>> \o sendingQueue
    <3>1. SUFFICES ASSUME sending = "write"
                   PROVE  written \o request \o sendingQueue
                            = Append(written, request[1]) \o <<>> \o sendingQueue
      BY DEF RequestsInOrder
    <3>2. request = <<request[1]>> /\ request[1] \in Requests
      <4>1. request # <<>> /\ request \in {<<>>} \cup {<<r>> : r \in Requests}
        BY <3>1 DEF TypeInv, TypeOK, RequestInHand
      <4>2. PICK r \in Requests : request = <<r>>
        BY <4>1
      <4> QED
        BY <4>2
    <3>3. written \o <<request[1]>> \o sendingQueue
            = Append(written, request[1]) \o <<>> \o sendingQueue
      BY <1>1, <3>2, RequestTypes, MoveMiddle
    <3> QED
      BY <3>2, <3>3
  <2> QED
    BY <1>2, <2>1, <2>2 DEF RequestsInOrder
<1>6. \A c \in Callers :
        Call(c) => UNCHANGED <<accepted, written, request, sendingQueue>>
  BY DEF Call, SendCount, ReceiveCount, StartRunning, Stop
<1>7. SendingEnter \/ SendingLoop \/ SendingSerialize \/ SendingFinally \/ TcpConnect
        \/ Authenticate => UNCHANGED <<accepted, written, request, sendingQueue>>
  BY DEF SendingEnter, SendingLoop, SendingSerialize, SendingFinally, TcpConnect,
         Authenticate
<1>8. Receiving \/ PeerSend \/ PeerLost
        => UNCHANGED <<accepted, written, request, sendingQueue>>
  BY DEF Receiving, ReceivingAwait, ReceivingLoop, ReceivingType, ReceivingByte,
         PeerSend, PeerLost
<1>9. UNCHANGED vars => UNCHANGED <<accepted, written, request, sendingQueue>>
  BY DEF vars
<1> QED
  BY <1>2, <1>3, <1>4, <1>5, <1>6, <1>7, <1>8, <1>9
  DEF Next, SendingLocally, SendingRemotely

(* At the start there are no requests anywhere. *)
LEMMA InitRequestsInOrder == Init => RequestsInOrder
<1>1. <<>> = <<>> \o <<>> \o <<>>
  OBVIOUS
<1> QED
  BY <1>1 DEF Init, RequestsInOrder

(* Every request accepted by Send is written, in hand or queued, in order, *)
(* however the callers and the two threads interleave (Send, Sending).     *)
THEOREM RequestsStayInOrder == Spec => []RequestsInOrder
BY InitRequestsInOrder, StepRequestsInOrder, InitTypeInv, StepTypeInv, PTL DEF Spec

(* Every step is a step of the first-in first-out channel or none of it.   *)
LEMMA StepOutbound ==
  TypeInv /\ RequestsInOrder /\ [Next]_vars => [Outbound!Next]_(Outbound!vars)
<1> SUFFICES ASSUME TypeInv, RequestsInOrder
             PROVE  [Next]_vars => [Outbound!Next]_(Outbound!vars)
  OBVIOUS
<1>1. UNCHANGED <<accepted, written>> => [Outbound!Next]_(Outbound!vars)
  BY DEF Outbound!vars
<1> USE DEF Moves, SendingThrows
<1>2. ASSUME NEW c \in Callers PROVE InCall(c) => [Outbound!Next]_(Outbound!vars)
  <2>1. SendEnqueue(c) => Outbound!Put
    BY DEF SendEnqueue, Outbound!Put
  <2> QED
    BY <1>1, <2>1 DEF InCall, SendError, ReceiveError, ReceiveDequeue, StartSending,
                      StartReceiving, Outbound!Next
<1>3. SendingWrite => [Outbound!Next]_(Outbound!vars)
  <2>1. sending = "write" => /\ Len(written) < Len(accepted)
                             /\ accepted[Len(written) + 1] = request[1]
    <3>1. SUFFICES ASSUME sending = "write"
                   PROVE  /\ Len(written) < Len(accepted)
                          /\ accepted[Len(written) + 1] = request[1]
      OBVIOUS
    <3>2. /\ written \in Seq(Requests) /\ sendingQueue \in Seq(Requests)
          /\ request[1] \in Requests /\ request = <<request[1]>>
      BY <3>1, RequestTypes
    <3> DEFINE upto == Append(written, request[1])
    <3>3. accepted = upto \o sendingQueue
      <4>1. upto \in Seq(Requests)
        BY <3>2, AppendProperties
      <4>2. accepted = upto \o <<>> \o sendingQueue
        BY <3>2, MoveMiddle DEF RequestsInOrder
      <4> QED
        BY <4>1, <4>2, ConcatEmptySeq
    <3>4. /\ upto \in Seq(Requests) /\ Len(upto) = Len(written) + 1
          /\ upto[Len(written) + 1] = request[1]
      BY <3>2, AppendProperties
    <3>5. Len(written) \in Nat /\ Len(sendingQueue) \in Nat
      BY <3>2, LenProperties
    <3> HIDE DEF upto
    <3> QED
      BY <3>2, <3>3, <3>4, <3>5, ConcatProperties
  <2>2. SendingWrite =>
          \/ UNCHANGED <<accepted, written>>
          \/ /\ sending = "write" /\ written' = Append(written, request[1])
             /\ UNCHANGED accepted
    BY DEF SendingWrite
  <2> QED
    BY <1>1, <2>1, <2>2 DEF Outbound!Next, Outbound!Get
<1>4. \A c \in Callers : Call(c) => UNCHANGED <<accepted, written>>
  BY DEF Call, SendCount, ReceiveCount, StartRunning, Stop
<1>5. SendingLocally \/ TcpConnect \/ Authenticate => UNCHANGED <<accepted, written>>
  BY DEF SendingLocally, SendingEnter, SendingLoop, SendingDequeue, Takes,
         TakesNothing, SendingSerialize, SendingFinally, TcpConnect, Authenticate
<1>6. Receiving \/ PeerSend \/ PeerLost => UNCHANGED <<accepted, written>>
  BY DEF Receiving, ReceivingAwait, ReceivingLoop, ReceivingType, ReceivingByte,
         PeerSend, PeerLost
<1>7. UNCHANGED vars => UNCHANGED <<accepted, written>>
  BY DEF vars
<1> QED
  BY <1>1, <1>2, <1>3, <1>4, <1>5, <1>6, <1>7 DEF Next, SendingRemotely

(* The adapter implements a first-in first-out channel from Send to the    *)
(* network (the sending side of TcpAdapter).                               *)
THEOREM OutboundIsFifo == Spec => RequestsFifo
<1>1. Init => Outbound!Init
  BY DEF Init, Outbound!Init
<1> QED
  BY <1>1, InitRequestsInOrder, StepRequestsInOrder, InitTypeInv, StepTypeInv,
     StepOutbound, PTL
  DEF Spec, RequestsFifo, Outbound!Spec
-----------------------------------------------------------------------------
(* Every response so far, in order: those the application has and those    *)
(* that wait for it.                                                       *)
Received == delivered \o receivingQueue

(* A filler that has bytes at all begins with the two bytes of its type.   *)
Begun(t, f) ==
  \/ f.buffer = <<>>
  \/ Len(f.buffer) >= 2 /\ f.buffer[1] = t /\ f.buffer[2] = 0

(* A response put behind those that wait is received last. *)
LEMMA AppendToReceived ==
  \A d, q \in Seq(ResponseType), r \in ResponseType :
    Append(d \o q, r) = d \o Append(q, r)
<1>1. TAKE d, q \in Seq(ResponseType), r \in ResponseType
<1>2. d \o q \in Seq(ResponseType) /\ <<r>> \in Seq(ResponseType)
  BY ConcatProperties
<1>3. Append(d \o q, r) = (d \o q) \o <<r>> /\ Append(q, r) = q \o <<r>>
  BY <1>2, AppendIsConcat
<1> QED
  BY <1>2, <1>3, ConcatAssociative

(* The strengthening of OneResponsePerFiller: whatever was received came   *)
(* from a filler that is complete, and complete fillers stay silent.       *)
AnswerInv ==
  /\ \A t \in FillerTypes : Begun(t, fillers[t])
  /\ filler # NoFiller => fillers[filler].buffer # <<>>
  /\ \A i \in 1 .. Len(Received) :
       /\ Received[i].eventType \in FillerTypes
       /\ Complete(fillers[Received[i].eventType])
  /\ \A i, j \in 1 .. Len(Received) :
       i # j => Received[i].eventType # Received[j].eventType

(* The bytes of the type begin a filler, and further bytes follow them.    *)
LEMMA BegunByte ==
  ASSUME NEW t \in EventTypes, NEW f, GoodFiller(t, f), Begun(t, f), f.buffer # <<>>,
         NEW b \in Byte
  PROVE  Begun(t, Fill(t, f, b)) /\ Fill(t, f, b).buffer # <<>>
<1>1. f.buffer \in Seq(Byte) /\ Len(f.buffer) \in Nat
  BY LenProperties DEF GoodFiller, FillerType
<1>2. Fill(t, f, b).buffer = Append(f.buffer, b)
  BY FillGood
<1>3. /\ Append(f.buffer, b) # <<>> /\ Len(Append(f.buffer, b)) = Len(f.buffer) + 1
      /\ \A i \in 1 .. Len(f.buffer) : Append(f.buffer, b)[i] = f.buffer[i]
  BY <1>1, AppendProperties
<1>4. /\ Len(f.buffer) >= 2 /\ f.buffer[1] = t /\ f.buffer[2] = 0
      /\ 1 \in 1 .. Len(f.buffer) /\ 2 \in 1 .. Len(f.buffer)
  BY <1>1 DEF Begun
<1> QED
  BY <1>1, <1>2, <1>3, <1>4 DEF Begun

(* A sequence of one byte, and a second one behind it. *)
LEMMA AppendSecond ==
  ASSUME NEW one \in Seq(Byte), Len(one) = 1, NEW b \in Byte
  PROVE  /\ Append(one, b)[1] = one[1] /\ Append(one, b)[2] = b
         /\ Append(one, b) # <<>> /\ Len(Append(one, b)) = 2
<1>1. \A i \in 1 .. Len(one) : Append(one, b)[i] = one[i]
  BY AppendProperties
<1>2. Append(one, b)[Len(one) + 1] = b
  BY AppendProperties
<1>3. Append(one, b) # <<>> /\ Len(Append(one, b)) = Len(one) + 1
  BY AppendProperties
<1>4. 1 \in 1 .. Len(one) /\ Len(one) + 1 = 2
  OBVIOUS
<1> QED
  BY <1>1, <1>2, <1>3, <1>4

(* The event type's two bytes begin a filler, if nothing did before.       *)
LEMMA BegunType ==
  ASSUME NEW t \in EventTypes, NEW f, GoodFiller(t, f), Begun(t, f)
  PROVE  LET g == Fill(t, Fill(t, f, GetBytes(t)[1]), GetBytes(t)[2])
         IN  Begun(t, g) /\ g.buffer # <<>>
<1>1. /\ GetBytes(t)[1] = t /\ GetBytes(t)[2] = 0 /\ t \in Byte /\ 0 \in Byte
  BY EventTypeBytes
<1>2. f.buffer \in Seq(Byte)
  BY DEF GoodFiller, FillerType
<1>3. Fill(t, Fill(t, f, GetBytes(t)[1]), GetBytes(t)[2]).buffer
        = Append(Append(f.buffer, t), 0)
  BY FillTypeGood
<1>4. CASE f.buffer = <<>>
  <2>1. /\ Append(f.buffer, t) \in Seq(Byte) /\ Append(f.buffer, t)[1] = t
        /\ Len(Append(f.buffer, t)) = 1
    BY <1>1, <1>2, <1>4, AppendProperties
  <2> DEFINE one == Append(f.buffer, t)
  <2> HIDE DEF one
  <2>2. /\ Append(one, 0)[1] = one[1] /\ Append(one, 0)[2] = 0
        /\ Append(one, 0) # <<>> /\ Len(Append(one, 0)) = 2
    <3>1. one \in Seq(Byte) /\ Len(one) = 1
      BY <2>1 DEF one
    <3> QED
      BY <1>1, <3>1, AppendSecond
  <2> QED
    BY <1>3, <2>1, <2>2 DEF Begun, one
<1>5. CASE f.buffer # <<>>
  <2>1. GoodFiller(t, Fill(t, f, t))
    BY <1>1, FillGood
  <2>2. Begun(t, Fill(t, f, t)) /\ Fill(t, f, t).buffer # <<>>
    BY <1>1, <1>5, BegunByte
  <2>3. ASSUME NEW g, g = Fill(t, f, t)
        PROVE  Begun(t, Fill(t, g, 0)) /\ Fill(t, g, 0).buffer # <<>>
    BY <1>1, <2>1, <2>2, <2>3, BegunByte
  <2> QED
    BY <1>1, <2>3
<1> QED
  BY <1>4, <1>5

(* The two bytes of the type leave a complete filler complete.             *)
LEMMA CompleteStaysType ==
  ASSUME NEW t \in EventTypes, NEW f, GoodFiller(t, f), Complete(f)
  PROVE  Complete(Fill(t, Fill(t, f, GetBytes(t)[1]), GetBytes(t)[2]))
<1>1. /\ GetBytes(t)[1] = t /\ GetBytes(t)[2] = 0 /\ t \in Byte /\ 0 \in Byte
  BY EventTypeBytes
<1>2. GoodFiller(t, Fill(t, f, t)) /\ Complete(Fill(t, f, t))
  BY <1>1, FillGood, CompleteStays
<1> QED
  BY <1>1, <1>2, CompleteStays

(* What a filler answers with is a response of its own type.               *)
LEMMA AnswerType ==
  ASSUME NEW t \in EventTypes, NEW f, GoodFiller(t, f), Begun(t, f), f.buffer # <<>>,
         f.messageSize >= FixedPartSize[t], Filled(f)
  PROVE  Response(f.buffer).eventType = t /\ Complete(f)
<1>1. Response(f.buffer).eventType = f.buffer[1] + 256 * f.buffer[2]
  BY ResponseTyped
<1>2. f.buffer[1] = t /\ f.buffer[2] = 0 /\ t \in Nat
  BY DEF Begun, EventTypes, EventType_ConnectServer, EventType_SampleRooms
<1>3. f.messageSize > 0 /\ Len(f.buffer) = f.messageSize
  <2>1. f.messageSize \in Nat /\ FixedPartSize[t] \in Nat /\ FixedPartSize[t] > 0
    BY FillerAssumption DEF GoodFiller, FillerType, EventTypes
  <2> QED
    BY <2>1 DEF Filled
<1> QED
  BY <1>1, <1>2, <1>3 DEF Complete

(* One filler changes and stays begun, and nothing else that AnswerInv is  *)
(* about changes.                                                          *)
LEMMA AnswerInvFill ==
  ASSUME TypeInv, AnswerInv,
         NEW t \in FillerTypes, NEW f,
         Begun(t, f), f.buffer # <<>>,
         Complete(fillers[t]) => Complete(f),
         fillers' = [fillers EXCEPT ![t] = f],
         filler' \in {t, NoFiller},
         Received' = Received
  PROVE  AnswerInv'
<1>1. fillers \in [FillerTypes -> FillerType]
  BY DEF TypeInv, TypeOK
<1>2. fillers'[t] = f /\ \A u \in FillerTypes : u # t => fillers'[u] = fillers[u]
  BY <1>1
<1>3. \A u \in FillerTypes : Begun(u, fillers'[u])
  BY <1>2 DEF AnswerInv
<1>4. filler' # NoFiller => fillers'[filler'].buffer # <<>>
  BY <1>2
<1>5. \A u \in FillerTypes : Complete(fillers[u]) => Complete(fillers'[u])
  BY <1>2
<1> HIDE DEF Received
<1> QED
  BY <1>3, <1>4, <1>5 DEF AnswerInv

(* The other steps that AnswerInv is about. *)
LEMMA AnswerInvSame ==
  ASSUME AnswerInv, UNCHANGED fillers, filler' \in {filler, NoFiller},
         Received' = Received
  PROVE  AnswerInv'
BY DEF AnswerInv

(* The filler at hand answers: it was not complete, so nothing of its type *)
(* was received before.                                                    *)
LEMMA AnswerInvAnswer ==
  ASSUME TypeInv, AnswerInv,
         NEW t \in FillerTypes, NEW f, NEW response \in ResponseType,
         Begun(t, f), ~ Complete(fillers[t]), Complete(f),
         response.eventType = t,
         fillers' = [fillers EXCEPT ![t] = f],
         filler' = NoFiller,
         Received' = Append(Received, response)
  PROVE  AnswerInv'
<1>1. /\ fillers \in [FillerTypes -> FillerType]
      /\ delivered \in Seq(ResponseType) /\ receivingQueue \in Seq(ResponseType)
  BY DEF TypeInv, TypeOK
<1>2. Received \in Seq(ResponseType) /\ Len(Received) \in Nat
  <2>1. Received \in Seq(ResponseType)
    BY <1>1, ConcatProperties DEF Received
  <2> QED
    BY <2>1, LenProperties
<1>3. fillers'[t] = f /\ \A u \in FillerTypes : u # t => fillers'[u] = fillers[u]
  BY <1>1
<1>4. \A u \in FillerTypes : Begun(u, fillers'[u])
  BY <1>3 DEF AnswerInv
<1>5. /\ Len(Received') = Len(Received) + 1
      /\ \A i \in 1 .. Len(Received) : Received'[i] = Received[i]
      /\ Received'[Len(Received) + 1] = response
  BY <1>2, AppendProperties
<1>6. \A i \in 1 .. Len(Received) : /\ Received[i].eventType \in FillerTypes
                                    /\ Complete(fillers[Received[i].eventType])
                                    /\ Received[i].eventType # t
  BY DEF AnswerInv
<1>7. \A i \in 1 .. Len(Received') :
        /\ Received'[i].eventType \in FillerTypes
        /\ Complete(fillers'[Received'[i].eventType])
  BY <1>2, <1>3, <1>5, <1>6
<1>8. \A i, j \in 1 .. Len(Received') :
        i # j => Received'[i].eventType # Received'[j].eventType
  BY <1>2, <1>5, <1>6 DEF AnswerInv
<1> QED
  BY <1>4, <1>7, <1>8 DEF AnswerInv

(* The step that reads an event type, less the order of its branches.      *)
LEMMA ReceivingTypeStep ==
  ASSUME ReceivingType
  PROVE  /\ \/ UNCHANGED <<filler, fillers>>
            \/ \E t \in FillerTypes :
                 filler' = t /\ fillers' = [fillers EXCEPT ![t] = FilledType(t)]
         /\ UNCHANGED <<delivered, receivingQueue>>
BY DEF ReceivingType, FillerFor, FilledType

(* The filler at hand after one more byte: it answers, if it does, with a  *)
(* response of its own type, and not at all once it was complete.          *)
LEMMA FillerAtHand ==
  ASSUME TypeInv, AnswerInv, filler # NoFiller, Len(inbound) >= 1
  PROVE  /\ filler \in FillerTypes /\ filler \in EventTypes
         /\ GoodFiller(filler, FilledByte)
         /\ FilledByte.messageSize >= FixedPartSize[filler]
         /\ Begun(filler, FilledByte) /\ FilledByte.buffer # <<>>
         /\ Complete(fillers[filler])
              => Complete(FilledByte) /\ ~ Filled(FilledByte)
         /\ Filled(FilledByte) => /\ Response(FilledByte.buffer).eventType = filler
                                 /\ Complete(FilledByte)
<1>1. /\ filler \in FillerTypes /\ filler \in EventTypes /\ Head(inbound) \in Byte
      /\ GoodFiller(filler, FilledByte)
      /\ FilledByte.messageSize >= FixedPartSize[filler]
  BY FilledByteGood
<1>2. /\ GoodFiller(filler, fillers[filler]) /\ Begun(filler, fillers[filler])
      /\ fillers[filler].buffer # <<>>
  BY <1>1 DEF AnswerInv, TypeInv, FillersGood
<1>3. Begun(filler, FilledByte) /\ FilledByte.buffer # <<>>
  BY <1>1, <1>2, BegunByte DEF FilledByte
<1>4. Complete(fillers[filler]) => Complete(FilledByte) /\ ~ Filled(FilledByte)
  BY <1>1, <1>2, CompleteStays DEF FilledByte
<1>5. Filled(FilledByte) => /\ Response(FilledByte.buffer).eventType = filler
                            /\ Complete(FilledByte)
  BY <1>1, <1>3, AnswerType
<1> QED
  BY <1>1, <1>3, <1>4, <1>5

(* Taking the head of the waiting responses leaves those received the same.*)
LEMMA DequeueReceived ==
  ASSUME TypeInv, NEW c \in Callers, ReceiveDequeue(c)
  PROVE  Received' = Received
<1>1. delivered \in Seq(ResponseType) /\ receivingQueue \in Seq(ResponseType)
  BY DEF TypeInv, TypeOK
<1>2. CASE UNCHANGED <<delivered, receivingQueue>>
  BY <1>2 DEF Received
<1>3. CASE /\ receivingQueue # <<>>
           /\ delivered' = Append(delivered, Head(receivingQueue))
           /\ receivingQueue' = Tail(receivingQueue)
  <2>1. /\ Head(receivingQueue) \in ResponseType
        /\ Tail(receivingQueue) \in Seq(ResponseType)
        /\ Append(delivered, Head(receivingQueue)) \in Seq(ResponseType)
    BY <1>1, <1>3, HeadTailProperties, AppendProperties
  <2>2. delivered \o <<>> \o receivingQueue
          = delivered \o <<Head(receivingQueue)>> \o Tail(receivingQueue)
    BY <1>1, <1>3, MoveHead
  <2>3. Append(delivered, Head(receivingQueue)) = delivered \o <<Head(receivingQueue)>>
    BY <1>1, <2>1, AppendIsConcat
  <2>4. delivered \o <<>> = delivered
    BY <1>1, ConcatEmptySeq
  <2> QED
    BY <1>3, <2>2, <2>3, <2>4, Zenon DEF Received
<1> QED
  BY <1>2, <1>3 DEF ReceiveDequeue

(* Every step keeps AnswerInv. *)
LEMMA StepAnswerInv == TypeInv /\ AnswerInv /\ [Next]_vars => AnswerInv'
<1> SUFFICES ASSUME TypeInv, AnswerInv PROVE [Next]_vars => AnswerInv'
  OBVIOUS
<1>1. delivered \in Seq(ResponseType) /\ receivingQueue \in Seq(ResponseType)
  BY DEF TypeInv, TypeOK
<1>append. \A r \in ResponseType : Append(delivered \o receivingQueue, r)
                                 = delivered \o Append(receivingQueue, r)
  BY <1>1, AppendToReceived, Zenon
<1>2. ASSUME UNCHANGED <<fillers, filler, delivered, receivingQueue>>
      PROVE  AnswerInv'
  BY <1>2, AnswerInvSame DEF Received
<1>3. ASSUME NEW t \in FillerTypes
      PROVE  /\ t \in EventTypes /\ GoodFiller(t, fillers[t]) /\ Begun(t, fillers[t])
  BY AdapterAssumption DEF TypeInv, FillersGood, AnswerInv
<1>4. ReceivingType => AnswerInv'
  <2>1. SUFFICES ASSUME ReceivingType PROVE AnswerInv'
    OBVIOUS
  <2>2. ASSUME NEW t \in FillerTypes, filler' = t,
               fillers' = [fillers EXCEPT ![t] = FilledType(t)],
               UNCHANGED <<delivered, receivingQueue>>
        PROVE  AnswerInv'
    <3>1. Begun(t, FilledType(t)) /\ FilledType(t).buffer # <<>>
      BY <1>3, BegunType DEF FilledType
    <3>2. Complete(fillers[t]) => Complete(FilledType(t))
      BY <1>3, CompleteStaysType DEF FilledType
    <3>3. Received' = Received
      BY <2>2 DEF Received
    <3> QED
      BY <2>2, <3>1, <3>2, <3>3, AnswerInvFill
  <2> QED
    BY <1>2, <2>1, <2>2, ReceivingTypeStep
<1>5. ReceivingByte => AnswerInv'
  <2>1. SUFFICES ASSUME ReceivingByte PROVE AnswerInv'
    OBVIOUS
  <2>2. filler # NoFiller /\ UNCHANGED delivered
    BY <2>1, ReceivingByteStep
  <2>3. ASSUME Len(inbound) >= 1
        PROVE  /\ filler \in FillerTypes /\ filler \in EventTypes
               /\ GoodFiller(filler, FilledByte)
               /\ FilledByte.messageSize >= FixedPartSize[filler]
               /\ Begun(filler, FilledByte) /\ FilledByte.buffer # <<>>
               /\ Complete(fillers[filler])
                    => Complete(FilledByte) /\ ~ Filled(FilledByte)
    BY <2>2, <2>3, FillerAtHand
  <2>4. ASSUME Len(inbound) >= 1, UNCHANGED <<filler, receivingQueue>>,
               fillers' = [fillers EXCEPT ![filler] = FilledByte]
        PROVE  AnswerInv'
    <3>1. Received' = Received
      BY <2>2, <2>4 DEF Received
    <3> QED
      BY <2>3, <2>4, <3>1, AnswerInvFill
  <2>5. ASSUME Len(inbound) >= 1, Filled(FilledByte), filler' = NoFiller,
               receivingQueue' = Append(receivingQueue, Response(FilledByte.buffer)),
               fillers' = [fillers EXCEPT ![filler] = FilledByte]
        PROVE  AnswerInv'
    <3> DEFINE response == Response(FilledByte.buffer)
    <3>1. response \in ResponseType
      BY <2>3, <2>5, ResponseTyped
    <3>2. response.eventType = filler /\ Complete(FilledByte)
      BY <2>2, <2>5, FillerAtHand
    <3> HIDE DEF response
    <3>3. Received' = Append(Received, response)
      <4>1. Append(delivered \o receivingQueue, response)
              = delivered \o Append(receivingQueue, response)
        BY <1>append, <3>1, Zenon
      <4>2. delivered' = delivered /\ receivingQueue' = Append(receivingQueue, response)
        BY <2>2, <2>5 DEF response
      <4> QED
        BY <4>1, <4>2, Zenon DEF Received
    <3> QED
      BY <2>3, <2>5, <3>1, <3>2, <3>3, AnswerInvAnswer
  <2> QED
    BY <1>2, <2>1, <2>2, <2>4, <2>5, ReceivingByteStep
<1> USE DEF Moves, SendingThrows
<1>6. ASSUME NEW c \in Callers PROVE InCall(c) => AnswerInv'
  <2>1. ReceiveDequeue(c) => AnswerInv'
    <3>1. ReceiveDequeue(c) => UNCHANGED <<fillers, filler>>
      BY DEF ReceiveDequeue
    <3> QED
      BY <3>1, DequeueReceived, AnswerInvSame
  <2> QED
    BY <1>2, <2>1 DEF InCall, SendError, SendEnqueue, ReceiveError, StartSending,
                      StartReceiving
<1>7. \A c \in Callers :
        Call(c) => UNCHANGED <<fillers, filler, delivered, receivingQueue>>
  BY DEF Call, SendCount, ReceiveCount, StartRunning, Stop
<1>8. SendingLocally \/ SendingRemotely
        => UNCHANGED <<fillers, filler, delivered, receivingQueue>>
  BY DEF SendingLocally, SendingEnter, SendingLoop, SendingDequeue, Takes,
         TakesNothing, SendingSerialize, SendingFinally, SendingRemotely, TcpConnect,
         Authenticate, SendingWrite
<1>9. ReceivingAwait \/ ReceivingLoop \/ PeerSend \/ PeerLost
        => UNCHANGED <<fillers, filler, delivered, receivingQueue>>
  BY DEF ReceivingAwait, ReceivingLoop, PeerSend, PeerLost
<1>10. UNCHANGED vars => UNCHANGED <<fillers, filler, delivered, receivingQueue>>
  BY DEF vars
<1> QED
  BY <1>2, <1>4, <1>5, <1>6, <1>7, <1>8, <1>9, <1>10 DEF Next, Receiving

(* At the start nothing was received and every filler is empty.            *)
LEMMA InitAnswerInv == Init => AnswerInv
<1>1. SUFFICES ASSUME Init PROVE AnswerInv
  OBVIOUS
<1>2. \A t \in FillerTypes : fillers[t].buffer = <<>>
  BY <1>1 DEF Init, NewFiller
<1>3. Received = <<>>
  <2>1. delivered = <<>> /\ receivingQueue = <<>>
    BY <1>1 DEF Init
  <2>2. <<>> \o <<>> = <<>>
    OBVIOUS
  <2> QED
    BY <2>1, <2>2, Zenon DEF Received
<1>4. filler = NoFiller
  BY <1>1 DEF Init
<1> QED
  BY <1>2, <1>3, <1>4 DEF AnswerInv, Begun

(* A filler answers once at most, so no two responses ever received are of *)
(* the same type, whatever the server sends and however often (Fill and    *)
(* Receiving, which never replace a filler).                               *)
THEOREM FillersAnswerOnce == Spec => []OneResponsePerFiller
<1>1. AnswerInv => OneResponsePerFiller
  BY DEF AnswerInv, OneResponsePerFiller, Received
<1> QED
  BY <1>1, InitAnswerInv, InitTypeInv, StepTypeInv, StepAnswerInv, PTL DEF Spec
-----------------------------------------------------------------------------
(* A call of Start gets to the receiving thread only if it has started the *)
(* sending thread, so no other is there with it, or was there before.      *)
StarterInv ==
  /\ \A c \in Callers : calls[c] = "startReceiving"
       => receiving = "unstarted" /\ sending # "unstarted"
  /\ \A c, d \in Callers :
       calls[c] = "startReceiving" /\ calls[d] = "startReceiving" => c = d
  /\ sending = "unstarted" => receiving = "unstarted"

(* Every step keeps StarterInv. *)
LEMMA StepStarterInv == TypeInv /\ StarterInv /\ [Next]_vars => StarterInv'
<1> SUFFICES ASSUME TypeInv, StarterInv PROVE [Next]_vars => StarterInv'
  OBVIOUS
<1> DEFINE CallStates == {"idle", "sendError", "sendEnqueue", "receiveError",
                          "receiveDequeue", "startSending", "startReceiving"}
<1>1. calls \in [Callers -> CallStates]
  BY DEF TypeInv, TypeOK
<1> HIDE DEF CallStates
<1>2. ASSUME UNCHANGED <<calls, sending, receiving>> PROVE StarterInv'
  BY <1>2 DEF StarterInv
<1>3. ASSUME NEW c \in Callers, NEW to, to # "startReceiving",
             calls' = [calls EXCEPT ![c] = to], receiving' = receiving,
             sending' \in {sending, "enter"}
      PROVE  StarterInv'
  <2>1. \A d \in Callers : calls'[d] = "startReceiving" => calls[d] = "startReceiving"
    BY <1>1, <1>3
  <2> QED
    BY <1>3, <2>1 DEF StarterInv
<1>4. ASSUME NEW c \in Callers PROVE Call(c) => StarterInv'
  BY <1>2, <1>3 DEF Call, SendCount, ReceiveCount, StartRunning, Stop, Moves
<1>5. ASSUME NEW c \in Callers PROVE StartSending(c) => StarterInv'
  <2> SUFFICES ASSUME StartSending(c) PROVE StarterInv'
    OBVIOUS
  <2>1. CASE sending = "unstarted"
    <3>1. /\ calls' = [calls EXCEPT ![c] = "startReceiving"] /\ sending' = "enter"
          /\ receiving' = receiving /\ receiving = "unstarted"
      BY <2>1 DEF StartSending, Moves, StarterInv
    <3>2. \A d \in Callers : calls[d] # "startReceiving"
      BY <2>1 DEF StarterInv
    <3>3. \A d \in Callers : calls'[d] = "startReceiving" => d = c
      BY <1>1, <3>1, <3>2
    <3> QED
      BY <3>1, <3>3 DEF StarterInv
  <2>2. CASE sending # "unstarted"
    <3>1. /\ calls' = [calls EXCEPT ![c] = "idle"] /\ sending' = sending
          /\ receiving' = receiving
      BY <2>2 DEF StartSending, Moves
    <3> QED
      BY <1>3, <3>1
  <2> QED
    BY <2>1, <2>2
<1>6. ASSUME NEW c \in Callers PROVE StartReceiving(c) => StarterInv'
  <2> SUFFICES ASSUME StartReceiving(c) PROVE StarterInv'
    OBVIOUS
  <2>1. /\ calls[c] = "startReceiving" /\ calls' = [calls EXCEPT ![c] = "idle"]
        /\ sending' = sending
    BY DEF StartReceiving, Moves
  <2>2. \A d \in Callers : calls'[d] # "startReceiving"
    <3>1. \A d \in Callers : d # c => calls[d] # "startReceiving"
      BY <2>1 DEF StarterInv
    <3> QED
      BY <1>1, <2>1, <3>1
  <2>3. sending # "unstarted"
    BY <2>1 DEF StarterInv
  <2> QED
    BY <2>1, <2>2, <2>3 DEF StarterInv
<1>7. ASSUME NEW c \in Callers
      PROVE  SendError(c) \/ SendEnqueue(c) \/ ReceiveError(c) \/ ReceiveDequeue(c)
               => StarterInv'
  BY <1>3 DEF SendError, SendEnqueue, ReceiveError, ReceiveDequeue, Moves
<1>8. ASSUME sending # "unstarted", sending' # "unstarted", UNCHANGED <<calls, receiving>>
      PROVE  StarterInv'
  BY <1>8 DEF StarterInv
<1>9. SendingLocally \/ SendingRemotely => StarterInv'
  BY <1>8 DEF SendingLocally, SendingEnter, SendingLoop, SendingDequeue, Takes,
     TakesNothing, SendingSerialize, SendingFinally, SendingRemotely, TcpConnect,
     Authenticate, SendingWrite, SendingThrows
<1>10. ASSUME receiving # "unstarted", receiving' # "unstarted",
              UNCHANGED <<calls, sending>>
       PROVE  StarterInv'
  BY <1>10 DEF StarterInv
<1>11. Receiving => StarterInv'
  BY <1>10 DEF Receiving, ReceivingAwait, ReceivingLoop, ReceivingType, ReceivingByte,
     ReceivingThrows
<1>12. PeerSend \/ PeerLost \/ UNCHANGED vars => StarterInv'
  BY <1>2 DEF PeerSend, PeerLost, vars
<1> QED
  BY <1>4, <1>5, <1>6, <1>7, <1>9, <1>11, <1>12 DEF Next, InCall
-----------------------------------------------------------------------------
(* The first message the server sent; what is on its way to us continues   *)
(* it after the n bytes of it that were read, and ends it while the        *)
(* connection is there.                                                    *)
First == responses[1]

Arrives(n) ==
  /\ responses = <<>> => inbound = <<>>
  /\ responses # <<>> =>
       /\ \A i \in 1 .. Len(inbound) : n + i <= Len(First) => inbound[i] = First[n + i]
       /\ peer = "up" => n + Len(inbound) >= Len(First)

(* How far the first message got: nothing of it was read, or its type was  *)
(* and some of its bytes, or it was received; or none ever will be.        *)
NothingRead ==
  /\ Received = <<>> /\ filler = NoFiller
  /\ \A t \in FillerTypes : fillers[t] = NewFiller
  /\ Arrives(0)

Connecting == fillers[EventType_ConnectServer]
Continues(buffer) == \A i \in 3 .. Len(buffer) : buffer[i] = First[i]

SomeRead ==
  /\ Received = <<>> /\ filler = EventType_ConnectServer
  /\ responses # <<>> /\ BigEndian16(First) = EventType_ConnectServer
  /\ Connecting.messageSize = Len(First)
  /\ Len(Connecting.buffer) < Len(First)
  /\ Continues(Connecting.buffer)
  /\ Arrives(Len(Connecting.buffer))

AllRead ==
  /\ responses # <<>>
  /\ Received = <<Meaning(First)>>
  /\ EventType_ConnectServer \in FillerTypes /\ Complete(Connecting)

NeverReceived ==
  /\ Received = <<>>
  /\ receiving = "done" \/ filler = EventType_SampleRooms

FirstInv == NothingRead \/ SomeRead \/ AllRead \/ NeverReceived

(* The steps that move nothing FirstInv is about. *)
LEMMA FirstInvSame ==
  ASSUME FirstInv, Received' = Received, receiving = "done" => receiving' = "done",
         UNCHANGED <<filler, fillers, inbound, responses, peer>>
  PROVE  FirstInv'
<1>1. First' = First
  BY DEF First
<1>2. \A n : Arrives(n) => Arrives(n)'
  BY <1>1 DEF Arrives
<1>3. NothingRead => NothingRead'
  BY <1>2 DEF NothingRead
<1>4. SomeRead => SomeRead'
  BY <1>1, <1>2 DEF SomeRead, Connecting, Continues
<1>5. AllRead => AllRead'
  BY <1>1 DEF AllRead, Connecting
<1> QED
  BY <1>3, <1>4, <1>5 DEF FirstInv, NeverReceived

(* The messages the server sent and the bytes on their way.                *)
LEMMA WireTypes ==
  ASSUME TypeInv
  PROVE  /\ inbound \in Seq(Byte) /\ Len(inbound) \in Nat
         /\ responses \in Seq(Responses)
         /\ responses # <<>> => /\ Len(responses) \in Nat /\ Len(responses) >= 1
                                /\ First \in Responses /\ First \in Seq(Byte)
                                /\ Len(First) \in Nat /\ Len(First) >= 2
<1>1. inbound \in Seq(Byte) /\ responses \in Seq(Responses)
  BY DEF TypeInv, TypeOK
<1>2. responses # <<>> => Len(responses) \in Nat /\ Len(responses) >= 1
  BY <1>1
<1>3. responses # <<>> => First \in Responses
  BY <1>1, <1>2, ElementOfSeq DEF First
<1>4. \A m \in Responses : m \in Seq(Byte) /\ Len(m) >= 2
  BY AdapterAssumption
<1> QED
  BY <1>1, <1>2, <1>3, <1>4, LenProperties

(* What is known of the filler of the first message while it is being read.*)
LEMMA SomeReadTypes ==
  ASSUME TypeInv, SomeRead
  PROVE  /\ EventType_ConnectServer \in FillerTypes
         /\ GoodFiller(EventType_ConnectServer, Connecting)
         /\ Connecting.buffer \in Seq(Byte) /\ Len(Connecting.buffer) \in Nat
         /\ Len(First) = FixedPartSize[EventType_ConnectServer]
<1>1. filler \in FillerTypes \cup {NoFiller} /\ FillersGood
  BY DEF TypeInv, TypeOK
<1>2. EventType_ConnectServer \in FillerTypes
  BY <1>1 DEF SomeRead, NoFiller, EventType_ConnectServer
<1>3. GoodFiller(EventType_ConnectServer, Connecting)
  BY <1>1, <1>2 DEF FillersGood, Connecting
<1>4. Connecting.buffer \in Seq(Byte)
  BY <1>3 DEF GoodFiller, FillerType
<1>5. First \in Responses /\ BigEndian16(First) = EventType_ConnectServer
  BY WireTypes DEF SomeRead
<1> QED
  BY <1>2, <1>3, <1>4, <1>5, LenProperties, AdapterAssumption

(* The server's next message follows what is on its way.                   *)
LEMMA FirstInvSend ==
  ASSUME TypeInv, FirstInv, PeerSend
  PROVE  FirstInv'
<1>1. PICK m \in Responses : inbound' = inbound \o m /\ responses' = Append(responses, m)
  BY DEF PeerSend
<1>2. /\ Received' = Received /\ peer = "up" /\ peer' = peer
      /\ UNCHANGED <<filler, fillers, receiving>>
  BY DEF PeerSend, Received
<1>3. /\ inbound \in Seq(Byte) /\ responses \in Seq(Responses) /\ m \in Seq(Byte)
      /\ Len(inbound) \in Nat /\ Len(m) \in Nat
  BY AdapterAssumption, WireTypes, LenProperties
<1>4. responses' # <<>>
  BY <1>1, <1>3, AppendProperties
<1>5. responses # <<>> => First' = First
  <2>1. responses # <<>> => 1 \in 1 .. Len(responses)
    BY <1>3
  <2> QED
    BY <1>1, <1>3, <2>1, AppendProperties DEF First
<1>6. responses = <<>> => First' = m
  BY <1>1, <1>3, AppendProperties DEF First
<1>7. /\ Len(inbound') = Len(inbound) + Len(m)
      /\ \A i \in 1 .. Len(inbound) : inbound'[i] = inbound[i]
  BY <1>1, <1>3, ConcatProperties
<1>8. ASSUME NEW n \in Nat, Arrives(n), responses # <<>> PROVE Arrives(n)'
  <2>1. Len(First) \in Nat
    BY <1>8, WireTypes
  <2>2. /\ \A i \in 1 .. Len(inbound) : n + i <= Len(First) => inbound[i] = First[n + i]
        /\ n + Len(inbound) >= Len(First)
    BY <1>2, <1>8 DEF Arrives
  <2>3. ASSUME NEW i \in 1 .. Len(inbound'), n + i <= Len(First)
        PROVE  inbound'[i] = First[n + i]
    <3>1. i \in 1 .. Len(inbound)
      BY <1>3, <1>7, <2>1, <2>2, <2>3
    <3> QED
      BY <1>7, <2>2, <2>3, <3>1
  <2>4. n + Len(inbound') >= Len(First)
    BY <1>3, <1>7, <2>1, <2>2
  <2> QED
    BY <1>4, <1>5, <1>8, <2>3, <2>4 DEF Arrives
<1>9. ASSUME Arrives(0), responses = <<>> PROVE Arrives(0)'
  <2>1. inbound' = m
    <3>1. inbound = <<>>
      BY <1>9 DEF Arrives
    <3> QED
      BY <1>1, <1>3, <3>1, ConcatEmptySeq
  <2>2. \A i \in 1 .. Len(m) : 0 + i = i
    BY <1>3
  <2>3. 0 + Len(m) >= Len(m)
    BY <1>3
  <2> QED
    BY <1>4, <1>6, <1>9, <2>1, <2>2, <2>3 DEF Arrives
<1>10. NothingRead => NothingRead'
  BY <1>2, <1>8, <1>9 DEF NothingRead
<1>11. SomeRead => SomeRead'
  <2>1. SUFFICES ASSUME SomeRead PROVE SomeRead'
    OBVIOUS
  <2>2. Len(Connecting.buffer) \in Nat
    BY <2>1, SomeReadTypes
  <2>3. Connecting' = Connecting /\ First' = First
    BY <1>2, <1>5, <2>1 DEF Connecting, SomeRead
  <2> QED
    BY <1>2, <1>4, <1>8, <2>1, <2>2, <2>3 DEF SomeRead, Continues
<1>12. AllRead => AllRead'
  BY <1>2, <1>4, <1>5 DEF AllRead, Connecting
<1> QED
  BY <1>2, <1>10, <1>11, <1>12 DEF FirstInv, NeverReceived

(* A lost connection leaves the beginning of what was on its way.          *)
LEMMA FirstInvLost ==
  ASSUME TypeInv, FirstInv, PeerLost
  PROVE  FirstInv'
<1>1. PICK n \in 0 .. Len(inbound) : inbound' = SubSeq(inbound, 1, n)
  BY DEF PeerLost
<1>2. /\ Received' = Received /\ peer' = "down" /\ First' = First
      /\ UNCHANGED <<filler, fillers, receiving, responses>>
  BY DEF PeerLost, Received, First
<1>3. inbound \in Seq(Byte) /\ Len(inbound) \in Nat
  BY WireTypes
<1>4. /\ Len(inbound') = n /\ \A i \in 1 .. n : inbound'[i] = inbound[i]
      /\ n \in Nat /\ n <= Len(inbound)
  BY <1>1, <1>3, SubSeqProperties
<1>5. inbound = <<>> => inbound' = <<>>
  BY <1>1, <1>3, <1>4
<1>6. \A k \in Nat : Arrives(k) => Arrives(k)'
  BY <1>2, <1>3, <1>4, <1>5 DEF Arrives
<1>7. SomeRead => Len(Connecting.buffer) \in Nat
  BY SomeReadTypes
<1>8. Connecting' = Connecting
  BY <1>2 DEF Connecting
<1>9. NothingRead => NothingRead'
  BY <1>2, <1>6 DEF NothingRead
<1>10. SomeRead => SomeRead'
  BY <1>2, <1>6, <1>7, <1>8 DEF SomeRead, Continues
<1>11. AllRead => AllRead'
  BY <1>2, <1>8 DEF AllRead
<1> QED
  BY <1>2, <1>9, <1>10, <1>11 DEF FirstInv, NeverReceived

(* The first response is known, by its type, from the only other there is. *)
LEMMA TypesDiffer ==
  /\ EventType_ConnectServer # EventType_SampleRooms
  /\ EventType_ConnectServer # NoFiller /\ EventType_SampleRooms # NoFiller
  /\ EventType_ConnectServer \in EventTypes /\ EventType_SampleRooms \in EventTypes
  /\ FillerTypes \subseteq {EventType_ConnectServer, EventType_SampleRooms}
BY AdapterAssumption
DEF EventTypes, EventType_ConnectServer, EventType_SampleRooms, NoFiller

(* The first message's next byte goes behind the ones before it.           *)
LEMMA FirstNextByte ==
  ASSUME TypeInv, SomeRead, Len(inbound) >= 1
  PROVE  /\ FilledByte.messageSize = Len(First)
         /\ FilledByte.buffer \in Seq(Byte)
         /\ Len(FilledByte.buffer) = Len(Connecting.buffer) + 1
         /\ Len(FilledByte.buffer) \in Nat /\ Len(FilledByte.buffer) <= Len(First)
         /\ Continues(FilledByte.buffer)
<1> DEFINE old == Connecting.buffer
           b   == Head(inbound)
           n   == Len(old)
<1>1. /\ old \in Seq(Byte) /\ n \in Nat
      /\ Len(First) = FixedPartSize[EventType_ConnectServer]
  BY SomeReadTypes
<1>2. /\ inbound \in Seq(Byte) /\ Len(inbound) \in Nat /\ Len(First) \in Nat
      /\ Len(First) >= 2 /\ n < Len(First)
  BY WireTypes DEF SomeRead
<1>3. b \in Byte /\ b = inbound[1] /\ 1 \in 1 .. Len(inbound)
  <2>1. 1 \in 1 .. Len(inbound)
    BY <1>2
  <2> QED
    BY <1>2, <2>1, ElementOfSeq
<1>4. /\ Append(old, b) \in Seq(Byte) /\ Len(Append(old, b)) = n + 1
      /\ \A i \in 1 .. n : Append(old, b)[i] = old[i]
      /\ Append(old, b)[n + 1] = b
  BY <1>1, <1>3, AppendProperties
<1>5. b = First[n + 1]
  <2>1. n + 1 <= Len(First)
    BY <1>1, <1>2
  <2>2. \A i \in 1 .. Len(inbound) : n + i <= Len(First) => inbound[i] = First[n + i]
    BY DEF SomeRead, Arrives
  <2> QED
    BY <1>3, <2>1, <2>2
<1>6. \A i \in 3 .. n + 1 : Append(old, b)[i] = First[i]
  <2>1. \A i \in 3 .. n : old[i] = First[i]
    BY DEF SomeRead, Continues
  <2> HIDE DEF old, b, n
  <2>2. TAKE i \in 3 .. n + 1
  <2>3. CASE i = n + 1
    BY <1>4, <1>5, <2>3
  <2>4. CASE i # n + 1
    <3>1. i \in 3 .. n /\ i \in 1 .. n
      BY <1>1, <2>2, <2>4
    <3> QED
      BY <1>4, <2>1, <3>1
  <2> QED
    BY <2>3, <2>4
<1>7. FilledByte.buffer = Append(old, b)
  BY DEF SomeRead, FilledByte, Fill, Connecting
<1>8. FilledByte.messageSize = Len(First)
  <2>1. Connecting.messageSize = Len(First) /\ Len(First) # 0
    BY <1>2 DEF SomeRead
  <2>2. GetVariablePartMessageSize(EventType_ConnectServer, Append(old, b)) = 0
    BY TypesDiffer DEF GetVariablePartMessageSize
  <2>3. filler = EventType_ConnectServer
    BY DEF SomeRead
  <2>4. Len(First) + 0 = Len(First)
    BY <1>2
  <2> HIDE DEF old, b, n
  <2> QED
    BY <2>1, <2>2, <2>3, <2>4 DEF FilledByte, Fill, Connecting, old, b
<1> QED
  BY <1>1, <1>2, <1>4, <1>6, <1>7, <1>8 DEF Continues

(* What is left on the way continues the first message.                    *)
LEMMA RestArrives ==
  ASSUME TypeInv, NEW n \in Nat, Arrives(n), NEW k \in Nat, k <= Len(inbound),
         responses # <<>>, NEW rest \in Seq(Byte), Len(rest) = Len(inbound) - k,
         \A i \in 1 .. Len(rest) : rest[i] = inbound[k + i]
  PROVE  /\ \A i \in 1 .. Len(rest) :
              (n + k) + i <= Len(First) => rest[i] = First[(n + k) + i]
         /\ peer = "up" => (n + k) + Len(rest) >= Len(First)
<1>1. Len(inbound) \in Nat /\ Len(First) \in Nat
  BY WireTypes
<1>2. /\ \A i \in 1 .. Len(inbound) : n + i <= Len(First) => inbound[i] = First[n + i]
      /\ peer = "up" => n + Len(inbound) >= Len(First)
  BY DEF Arrives
<1>3. ASSUME NEW i \in 1 .. Len(rest), (n + k) + i <= Len(First)
      PROVE  rest[i] = First[(n + k) + i]
  <2>1. k + i \in 1 .. Len(inbound) /\ n + (k + i) = (n + k) + i
    BY <1>1, <1>3
  <2> QED
    BY <1>2, <1>3, <2>1
<1>4. (n + k) + Len(rest) = n + Len(inbound)
  BY <1>1
<1> QED
  BY <1>2, <1>3, <1>4
-----------------------------------------------------------------------------
(* The two steps that read from the stream, less what FirstInv does not    *)
(* ask about: they throw, or read on, or have all of a message.            *)
LEMMA ByteCases ==
  ASSUME ReceivingByte
  PROVE  /\ filler # NoFiller /\ receiving = "read"
         /\ UNCHANGED <<delivered, responses, peer>>
         /\ \/ /\ UNCHANGED <<filler, fillers, receivingQueue>> /\ receiving' = "done"
            \/ /\ Len(inbound) >= 1 /\ inbound' = Tail(inbound)
               /\ fillers' = [fillers EXCEPT ![filler] = FilledByte]
               /\ \/ UNCHANGED <<filler, receivingQueue>> /\ receiving' = "done"
                  \/ /\ UNCHANGED <<filler, receivingQueue>>
                     /\ ~ TooBig(FilledByte) /\ ~ Filled(FilledByte)
                  \/ /\ Filled(FilledByte) /\ filler' = NoFiller
                     /\ Response(FilledByte.buffer).eventType = EventType_ConnectServer
                     /\ receivingQueue' = Append(receivingQueue,
                                                 Response(FilledByte.buffer))
BY DEF ReceivingByte, ReceivingThrows, FilledByte, Readable

(* And the same for the step that reads an event type.                     *)
LEMMA TypeCases ==
  ASSUME ReceivingType
  PROVE  /\ filler = NoFiller /\ receiving = "read"
         /\ UNCHANGED <<delivered, receivingQueue, responses, peer>>
         /\ \/ UNCHANGED <<filler, fillers>> /\ receiving' = "done"
            \/ /\ Len(inbound) >= 2 /\ inbound' = SubSeq(inbound, 3, Len(inbound))
               /\ BigEndian16(inbound) \in FillerTypes
               /\ filler' = BigEndian16(inbound)
               /\ fillers' = [fillers EXCEPT ![BigEndian16(inbound)] =
                                FilledType(BigEndian16(inbound))]
BY DEF ReceivingType, ReceivingThrows, FilledType, Readable, FillerFor

(* One byte fewer is on its way and one more in the filler.                *)
LEMMA ReadOn ==
  ASSUME TypeInv, SomeRead, Len(inbound) >= 1, inbound' = Tail(inbound),
         fillers' = [fillers EXCEPT ![filler] = FilledByte],
         UNCHANGED <<filler, receivingQueue, delivered, responses, peer>>,
         Len(FilledByte.buffer) # Len(First)
  PROVE  SomeRead'
<1> DEFINE n == Len(Connecting.buffer)
<1>1. /\ inbound \in Seq(Byte) /\ Len(inbound) \in Nat /\ Len(First) \in Nat
      /\ responses # <<>>
  BY WireTypes DEF SomeRead
<1>2. /\ Tail(inbound) \in Seq(Byte) /\ Len(Tail(inbound)) = Len(inbound) - 1
      /\ \A i \in 1 .. Len(Tail(inbound)) : Tail(inbound)[i] = inbound[1 + i]
  <2>1. inbound # <<>>
    BY <1>1
  <2>2. /\ Tail(inbound) \in Seq(Byte) /\ Len(Tail(inbound)) = Len(inbound) - 1
        /\ \A i \in 1 .. Len(Tail(inbound)) : Tail(inbound)[i] = inbound[i + 1]
    BY <1>1, <2>1, HeadTailProperties
  <2>3. \A i \in 1 .. Len(Tail(inbound)) : i + 1 = 1 + i
    OBVIOUS
  <2> QED
    BY <2>2, <2>3
<1>3. First' = First /\ Received' = Received
  BY DEF First, Received
<1>4. Connecting' = FilledByte
  <2>1. EventType_ConnectServer \in FillerTypes /\ fillers \in [FillerTypes -> FillerType]
    BY SomeReadTypes DEF TypeInv, TypeOK
  <2>2. filler = EventType_ConnectServer
    BY DEF SomeRead
  <2> QED
    BY <2>1, <2>2 DEF Connecting
<1>5. /\ FilledByte.messageSize = Len(First) /\ Continues(FilledByte.buffer)
      /\ Len(FilledByte.buffer) = n + 1 /\ Len(FilledByte.buffer) <= Len(First)
      /\ n \in Nat
  BY FirstNextByte, SomeReadTypes
<1>6. Len(FilledByte.buffer) < Len(First)
  BY <1>1, <1>5
<1> HIDE DEF n
<1>7. /\ \A i \in 1 .. Len(Tail(inbound)) :
           (n + 1) + i <= Len(First) => Tail(inbound)[i] = First[(n + 1) + i]
      /\ peer = "up" => (n + 1) + Len(Tail(inbound)) >= Len(First)
  <2>1. Arrives(n)
    BY DEF SomeRead, n
  <2> QED
    BY <1>1, <1>2, <1>5, <2>1, RestArrives
<1>8. Arrives(Len(Connecting.buffer))'
  BY <1>1, <1>3, <1>4, <1>5, <1>7 DEF Arrives
<1> QED
  BY <1>1, <1>3, <1>4, <1>5, <1>6, <1>8 DEF SomeRead, Continues

(* The last byte of the first message makes the response it means.         *)
LEMMA ReadToTheEnd ==
  ASSUME TypeInv, SomeRead, Len(inbound) >= 1, Filled(FilledByte),
         fillers' = [fillers EXCEPT ![filler] = FilledByte],
         receivingQueue' = Append(receivingQueue, Response(FilledByte.buffer)),
         Response(FilledByte.buffer).eventType = EventType_ConnectServer,
         UNCHANGED <<delivered, responses>>
  PROVE  AllRead'
<1> DEFINE buffer == FilledByte.buffer
<1>1. /\ buffer \in Seq(Byte) /\ Continues(buffer)
      /\ FilledByte.messageSize = Len(First) /\ Len(buffer) = Len(First)
  BY FirstNextByte DEF Filled
<1>2. /\ First \in Seq(Byte) /\ Len(First) \in Nat /\ Len(First) >= 2
      /\ responses # <<>>
  BY WireTypes DEF SomeRead
<1>3. Payload(buffer) = Payload(First)
  <2>1. SubSeq(buffer, 3, Len(buffer)) = [i \in 1 .. Len(First) - 2 |-> buffer[i + 2]]
    BY <1>1, <1>2
  <2>2. SubSeq(First, 3, Len(First)) = [i \in 1 .. Len(First) - 2 |-> First[i + 2]]
    BY <1>2
  <2>3. \A i \in 1 .. Len(First) - 2 : i + 2 \in 3 .. Len(buffer)
    BY <1>1, <1>2
  <2>4. \A i \in 1 .. Len(First) - 2 : buffer[i + 2] = First[i + 2]
    BY <1>1, <2>3 DEF Continues
  <2> QED
    BY <2>1, <2>2, <2>4 DEF Payload
<1>4. Response(buffer) = Meaning(First)
  <2>1. BigEndian16(First) = EventType_ConnectServer
    BY DEF SomeRead
  <2> QED
    BY <1>3, <2>1 DEF Response, Meaning
<1>5. Received' = <<Meaning(First)>>
  <2>1. Received = <<>> /\ delivered \in Seq(ResponseType)
        /\ receivingQueue \in Seq(ResponseType)
    BY DEF SomeRead, TypeInv, TypeOK
  <2>2. delivered = <<>> /\ receivingQueue = <<>>
    <3>1. Len(delivered) + Len(receivingQueue) = 0
      BY <2>1, ConcatProperties DEF Received
    <3> QED
      BY <2>1, <3>1
  <2>3. delivered' = <<>> /\ receivingQueue' = <<Meaning(First)>>
    BY <1>4, <2>2
  <2>4. <<>> \o <<Meaning(First)>> = <<Meaning(First)>>
    OBVIOUS
  <2> QED
    BY <2>3, <2>4, Zenon DEF Received
<1>6. Connecting' = FilledByte
  <2>1. EventType_ConnectServer \in FillerTypes /\ fillers \in [FillerTypes -> FillerType]
    BY SomeReadTypes DEF TypeInv, TypeOK
  <2>2. filler = EventType_ConnectServer
    BY DEF SomeRead
  <2> QED
    BY <2>1, <2>2 DEF Connecting
<1>7. Complete(FilledByte)
  BY <1>1, <1>2 DEF Complete
<1>8. First' = First
  BY DEF First
<1> QED
  BY <1>2, <1>5, <1>6, <1>7, <1>8, SomeReadTypes DEF AllRead

(* Reading one more byte keeps FirstInv. *)
LEMMA FirstInvByte ==
  ASSUME TypeInv, AnswerInv, FirstInv, ReceivingByte
  PROVE  FirstInv'
<1>1. /\ filler # NoFiller /\ receiving # "done"
      /\ UNCHANGED <<delivered, responses, peer>>
  BY ByteCases
<1>2. CASE SomeRead
  <2>1. Received = <<>>
    BY <1>2 DEF SomeRead
  <2>2. ASSUME UNCHANGED receivingQueue, receiving' = "done" PROVE FirstInv'
    BY <1>1, <2>1, <2>2 DEF FirstInv, NeverReceived, Received
  <2>3. ASSUME Len(inbound) >= 1, inbound' = Tail(inbound),
               fillers' = [fillers EXCEPT ![filler] = FilledByte],
               UNCHANGED <<filler, receivingQueue>>,
               ~ TooBig(FilledByte), ~ Filled(FilledByte)
        PROVE  FirstInv'
    <3>1. Len(FilledByte.buffer) # Len(First)
      BY <1>2, <2>3, FirstNextByte DEF Filled
    <3> QED
      BY <1>1, <1>2, <2>3, <3>1, ReadOn DEF FirstInv
  <2>4. ASSUME Len(inbound) >= 1, Filled(FilledByte),
               fillers' = [fillers EXCEPT ![filler] = FilledByte],
               receivingQueue' = Append(receivingQueue, Response(FilledByte.buffer)),
               Response(FilledByte.buffer).eventType = EventType_ConnectServer
        PROVE  FirstInv'
    BY <1>1, <1>2, <2>4, ReadToTheEnd DEF FirstInv
  <2> QED
    BY <2>2, <2>3, <2>4, ByteCases
<1>3. CASE AllRead
  <2>1. ASSUME Len(inbound) >= 1, Filled(FilledByte)
        PROVE  Response(FilledByte.buffer).eventType # EventType_ConnectServer
    <3>1. filler # EventType_ConnectServer
      BY <1>1, <1>3, <2>1, FillerAtHand DEF AllRead, Connecting
    <3> QED
      BY <1>1, <2>1, <3>1, FillerAtHand
  <2>2. UNCHANGED receivingQueue
    BY <2>1, ByteCases
  <2>3. Received' = Received /\ First' = First
    BY <1>1, <2>2 DEF Received, First
  <2>4. Complete(Connecting)'
    <3>1. fillers \in [FillerTypes -> FillerType]
      BY DEF TypeInv, TypeOK
    <3>2. EventType_ConnectServer \in FillerTypes /\ Complete(Connecting)
      BY <1>3 DEF AllRead
    <3>3. CASE UNCHANGED fillers
      BY <3>2, <3>3 DEF Connecting
    <3>4. CASE Len(inbound) >= 1 /\ fillers' = [fillers EXCEPT ![filler] = FilledByte]
      <4>1. filler = EventType_ConnectServer => Complete(FilledByte)
        BY <1>1, <3>2, <3>4, FillerAtHand DEF Connecting
      <4> QED
        BY <3>1, <3>2, <3>4, <4>1 DEF Connecting
    <3> QED
      BY <3>3, <3>4, ByteCases
  <2> QED
    BY <1>1, <1>3, <2>3, <2>4 DEF FirstInv, AllRead
<1>4. CASE NeverReceived
  <2>1. filler = EventType_SampleRooms /\ Received = <<>>
    BY <1>1, <1>4 DEF NeverReceived
  <2>2. UNCHANGED <<receivingQueue, filler>>
    BY <1>1, <2>1, ByteCases, FillerAtHand, TypesDiffer
  <2> QED
    BY <1>1, <2>1, <2>2 DEF FirstInv, NeverReceived, Received
<1> QED
  BY <1>1, <1>2, <1>3, <1>4 DEF FirstInv, NothingRead

(* The event type of the first message begins its filler.                  *)
LEMMA FirstType ==
  ASSUME TypeInv, NothingRead, Len(inbound) >= 2,
         BigEndian16(inbound) = EventType_ConnectServer,
         EventType_ConnectServer \in FillerTypes,
         inbound' = SubSeq(inbound, 3, Len(inbound)),
         filler' = EventType_ConnectServer,
         fillers' = [fillers EXCEPT ![EventType_ConnectServer] =
                       FilledType(EventType_ConnectServer)],
         UNCHANGED <<delivered, receivingQueue, responses, peer>>
  PROVE  SomeRead'
<1> DEFINE t == EventType_ConnectServer
           F == FixedPartSize[t]
<1>1. inbound \in Seq(Byte) /\ Len(inbound) \in Nat
  BY WireTypes
<1>2. responses # <<>> /\ Arrives(0)
  BY <1>1 DEF NothingRead, Arrives
<1>3. /\ First \in Seq(Byte) /\ First \in Responses
      /\ Len(First) \in Nat /\ Len(First) >= 2
  BY <1>2, WireTypes
<1>4. First[1] = inbound[1] /\ First[2] = inbound[2]
  <2>1. \A i \in 1 .. Len(inbound) : 0 + i <= Len(First) => inbound[i] = First[0 + i]
    BY <1>2 DEF Arrives
  <2>2. 1 \in 1 .. Len(inbound) /\ 2 \in 1 .. Len(inbound) /\ 0 + 1 = 1 /\ 0 + 2 = 2
        /\ 1 <= Len(First) /\ 2 <= Len(First)
    BY <1>1, <1>3
  <2> QED
    BY <2>1, <2>2
<1>5. BigEndian16(First) = t /\ Len(First) = F
  BY <1>3, <1>4, AdapterAssumption DEF BigEndian16
<1>6. F \in Nat /\ F > 2
  BY FillerAssumption, TypesDiffer
<1>7. /\ fillers[t] = NewFiller /\ fillers \in [FillerTypes -> FillerType]
      /\ t \in EventTypes
  BY TypesDiffer DEF NothingRead, TypeInv, TypeOK
<1>8. FilledType(t).messageSize = F /\ Len(FilledType(t).buffer) = 2
  <2>1. GetBytes(t)[1] = t /\ GetBytes(t)[2] = 0 /\ t \in Byte /\ 0 \in Byte
    BY <1>7, EventTypeBytes
  <2> DEFINE one == Append(<<>>, t)
             two == Append(one, 0)
  <2>2. one \in Seq(Byte) /\ Len(one) = 1
    BY <2>1, AppendProperties
  <2> HIDE DEF one
  <2>3. Len(two) = 2
    BY <2>1, <2>2, AppendSecond
  <2> HIDE DEF t, F, two
  <2>4. 1 # F /\ 2 # F /\ F # 0
    BY <1>6
  <2>5. Fill(t, NewFiller, t) = [messageSize |-> F, buffer |-> one]
    BY <2>2, <2>4 DEF Fill, NewFiller, F, one
  <2>6. ASSUME NEW f, f = [messageSize |-> F, buffer |-> one]
        PROVE  Fill(t, f, 0) = [messageSize |-> F, buffer |-> two]
    BY <2>3, <2>4, <2>6 DEF Fill, two
  <2>7. FilledType(t) = [messageSize |-> F, buffer |-> two]
    BY <1>7, <2>1, <2>5, <2>6 DEF FilledType
  <2> QED
    BY <2>3, <2>7
<1>9. Connecting' = FilledType(t)
  BY <1>7 DEF Connecting
<1>10. First' = First /\ Received' = Received
  BY DEF First, Received
<1> DEFINE rest == SubSeq(inbound, 3, Len(inbound))
<1>11. /\ rest \in Seq(Byte) /\ Len(rest) = Len(inbound) - 2
       /\ \A i \in 1 .. Len(rest) : rest[i] = inbound[2 + i]
  <2>1. rest \in Seq(Byte)
    BY <1>1, PartOfSeq
  <2>2. Len(rest) = Len(inbound) - 2
    <3>1. Len(inbound) - 3 + 1 = Len(inbound) - 2
      BY <1>1
    <3> QED
      BY <1>1, <3>1
  <2>3. \A i \in 1 .. Len(inbound) - 2 : rest[i] = inbound[2 + i]
    BY <1>1
  <2> QED
    BY <2>1, <2>2, <2>3
<1> HIDE DEF rest
<1>12. /\ \A i \in 1 .. Len(rest) :
            (0 + 2) + i <= Len(First) => rest[i] = First[(0 + 2) + i]
       /\ peer = "up" => (0 + 2) + Len(rest) >= Len(First)
  BY <1>1, <1>2, <1>11, RestArrives
<1>13. Len(Connecting.buffer)' = 0 + 2
  BY <1>8, <1>9
<1>14. Arrives(Len(Connecting.buffer))'
  BY <1>2, <1>10, <1>12, <1>13 DEF Arrives, rest
<1>15. 0 + 2 < Len(First) /\ Continues(Connecting.buffer)'
  BY <1>5, <1>6, <1>10, <1>13 DEF Continues
<1> QED
  BY <1>2, <1>5, <1>8, <1>9, <1>10, <1>13, <1>14, <1>15 DEF SomeRead, NothingRead

(* Reading an event type keeps FirstInv. *)
LEMMA FirstInvType ==
  ASSUME TypeInv, FirstInv, ReceivingType
  PROVE  FirstInv'
<1> DEFINE t == BigEndian16(inbound)
<1>1. /\ filler = NoFiller /\ receiving # "done"
      /\ UNCHANGED <<delivered, receivingQueue, responses, peer>>
  BY TypeCases
<1>2. Received' = Received /\ First' = First
  BY <1>1 DEF Received, First
<1>3. CASE NothingRead
  <2>1. Received = <<>>
    BY <1>3 DEF NothingRead
  <2>2. CASE receiving' = "done"
    BY <1>2, <2>1, <2>2 DEF FirstInv, NeverReceived
  <2>3. CASE receiving' # "done"
    <3>1. /\ Len(inbound) >= 2 /\ inbound' = SubSeq(inbound, 3, Len(inbound))
          /\ t \in FillerTypes /\ filler' = t
          /\ fillers' = [fillers EXCEPT ![t] = FilledType(t)]
      BY <2>3, TypeCases
    <3>2. CASE t = EventType_ConnectServer
      BY <1>1, <1>3, <3>1, <3>2, FirstType DEF FirstInv
    <3>3. CASE t = EventType_SampleRooms
      BY <1>2, <2>1, <3>1, <3>3 DEF FirstInv, NeverReceived
    <3> QED
      BY <3>1, <3>2, <3>3, TypesDiffer
  <2> QED
    BY <2>2, <2>3
<1>4. CASE AllRead
  <2>1. fillers \in [FillerTypes -> FillerType] /\ FillersGood
    BY DEF TypeInv, TypeOK
  <2>2. EventType_ConnectServer \in FillerTypes /\ Complete(Connecting)
    BY <1>4 DEF AllRead
  <2>3. Complete(FilledType(EventType_ConnectServer))
    BY <2>1, <2>2, CompleteStaysType, TypesDiffer DEF FilledType, Connecting, FillersGood
  <2>4. UNCHANGED fillers \/ fillers' = [fillers EXCEPT ![t] = FilledType(t)]
    BY TypeCases
  <2>5. Connecting' \in {Connecting, FilledType(EventType_ConnectServer)}
    BY <2>1, <2>2, <2>4 DEF Connecting
  <2>6. Complete(Connecting)'
    BY <2>2, <2>3, <2>5
  <2> QED
    BY <1>1, <1>2, <1>4, <2>6 DEF FirstInv, AllRead
<1> QED
  BY <1>1, <1>3, <1>4, TypesDiffer DEF FirstInv, SomeRead, NeverReceived

(* Every step keeps FirstInv. *)
LEMMA StepFirstInv ==
  TypeInv /\ AnswerInv /\ StarterInv /\ FirstInv /\ [Next]_vars => FirstInv'
<1> SUFFICES ASSUME TypeInv, AnswerInv, StarterInv, FirstInv
             PROVE  [Next]_vars => FirstInv'
  OBVIOUS
<1>1. ASSUME UNCHANGED <<delivered, receivingQueue, receiving, filler, fillers, inbound,
                         responses, peer>>
      PROVE  FirstInv'
  BY <1>1, FirstInvSame DEF Received
<1> USE DEF Moves, SendingThrows
<1>2. ASSUME NEW c \in Callers PROVE InCall(c) => FirstInv'
  <2>1. ReceiveDequeue(c) => FirstInv'
    <3>1. ReceiveDequeue(c) =>
            UNCHANGED <<receiving, filler, fillers, inbound, responses, peer>>
      BY DEF ReceiveDequeue
    <3> QED
      BY <3>1, DequeueReceived, FirstInvSame
  <2>2. StartReceiving(c) => FirstInv'
    <3>1. StartReceiving(c) =>
            /\ receiving = "unstarted"
            /\ UNCHANGED <<delivered, receivingQueue, filler, fillers, inbound, responses,
                           peer>>
      BY DEF StartReceiving, StarterInv
    <3> QED
      BY <3>1, FirstInvSame DEF Received
  <2> QED
    BY <1>1, <2>1, <2>2 DEF InCall, SendError, SendEnqueue, ReceiveError, StartSending
<1>3. ASSUME NEW c \in Callers PROVE Call(c) => FirstInv'
  BY <1>1 DEF Call, SendCount, ReceiveCount, StartRunning, Stop
<1>4. SendingLocally \/ SendingRemotely => FirstInv'
  BY <1>1 DEF SendingLocally, SendingEnter, SendingLoop, SendingDequeue, Takes,
     TakesNothing, SendingSerialize, SendingFinally, SendingRemotely, TcpConnect,
     Authenticate, SendingWrite
<1>5. Receiving => FirstInv'
  <2>1. ReceivingAwait \/ ReceivingLoop =>
          /\ receiving # "done"
          /\ UNCHANGED <<delivered, receivingQueue, filler, fillers, inbound, responses,
                         peer>>
    BY DEF ReceivingAwait, ReceivingLoop
  <2>2. ReceivingAwait \/ ReceivingLoop => FirstInv'
    BY <2>1, FirstInvSame DEF Received
  <2> QED
    BY <2>2, FirstInvType, FirstInvByte DEF Receiving
<1>6. UNCHANGED vars => FirstInv'
  BY <1>1 DEF vars
<1> QED
  BY <1>2, <1>3, <1>4, <1>5, <1>6, FirstInvSend, FirstInvLost DEF Next
-----------------------------------------------------------------------------
(* What was put into the channel, one message further.                     *)
LEMMA MeaningsAppend ==
  ASSUME NEW sent \in Seq(Responses), NEW m \in Responses
  PROVE  [i \in 1 .. Len(Append(sent, m)) |-> Meaning(Append(sent, m)[i])]
           = Append([i \in 1 .. Len(sent) |-> Meaning(sent[i])], Meaning(m))
<1> DEFINE more == Append(sent, m)
           in   == [i \in 1 .. Len(sent) |-> Meaning(sent[i])]
           in2  == [i \in 1 .. Len(more) |-> Meaning(more[i])]
           S    == {Meaning(r) : r \in Responses}
<1>1. /\ more \in Seq(Responses) /\ Len(more) = Len(sent) + 1 /\ Len(sent) \in Nat
      /\ \A i \in 1 .. Len(sent) : more[i] = sent[i]
      /\ more[Len(sent) + 1] = m
  BY AppendProperties, LenProperties
<1> HIDE DEF more
<1>2. \A i \in 1 .. Len(sent) : sent[i] \in Responses
  BY ElementOfSeq
<1>3. \A i \in 1 .. Len(more) : more[i] \in Responses
  BY <1>1, ElementOfSeq
<1>4. in \in Seq(S) /\ Len(in) = Len(sent)
  BY <1>1, <1>2
<1>5. in2 \in Seq(S) /\ Len(in2) = Len(sent) + 1
  BY <1>1, <1>3
<1>6. /\ \A i \in 1 .. Len(sent) : in[i] = Meaning(sent[i])
      /\ \A i \in 1 .. Len(sent) + 1 : in2[i] = Meaning(more[i])
  BY <1>1
<1> HIDE DEF in, in2
<1>7. Meaning(m) \in S
  OBVIOUS
<1> HIDE DEF S
<1>8. /\ Append(in, Meaning(m)) \in Seq(S)
      /\ Len(Append(in, Meaning(m))) = Len(sent) + 1
      /\ \A i \in 1 .. Len(sent) : Append(in, Meaning(m))[i] = in[i]
      /\ Append(in, Meaning(m))[Len(sent) + 1] = Meaning(m)
  BY <1>4, <1>7, AppendProperties
<1>9. \A i \in 1 .. Len(in2) : in2[i] = Append(in, Meaning(m))[i]
  <2>1. TAKE i \in 1 .. Len(in2)
  <2>2. CASE i = Len(sent) + 1
    BY <1>1, <1>5, <1>6, <1>8, <2>2
  <2>3. CASE i # Len(sent) + 1
    <3>1. i \in 1 .. Len(sent)
      BY <1>1, <1>5, <2>3
    <3> QED
      BY <1>1, <1>5, <1>6, <1>8, <3>1
  <2> QED
    BY <2>2, <2>3
<1>10. in2 = Append(in, Meaning(m))
  BY <1>5, <1>8, <1>9, SeqEqual
<1> QED
  BY <1>10 DEF in, in2, more

(* Every step is a step of the first-in first-out channel or none of it.   *)
LEMMA StepInbound ==
  TypeInv /\ FirstInv /\ [Next]_vars => [Inbound!Next]_(Inbound!vars)
<1> SUFFICES ASSUME TypeInv, FirstInv
             PROVE  [Next]_vars => [Inbound!Next]_(Inbound!vars)
  OBVIOUS
<1> DEFINE in == [i \in 1 .. Len(responses) |-> Meaning(responses[i])]
<1>1. UNCHANGED <<responses, delivered>> => [Inbound!Next]_(Inbound!vars)
  BY DEF Inbound!vars
<1>2. PeerSend => Inbound!Put
  <2>1. SUFFICES ASSUME PeerSend PROVE Inbound!Put
    OBVIOUS
  <2>2. PICK m \in Responses : responses' = Append(responses, m)
    BY <2>1 DEF PeerSend
  <2>3. responses \in Seq(Responses)
    BY WireTypes
  <2>4. in' = Append(in, Meaning(m))
    BY <2>2, <2>3, MeaningsAppend
  <2>5. delivered' = delivered
    BY <2>1 DEF PeerSend
  <2> QED
    BY <2>4, <2>5 DEF Inbound!Put
<1> USE DEF Moves, SendingThrows
<1>3. ASSUME NEW c \in Callers PROVE ReceiveDequeue(c) => [Inbound!Next]_(Inbound!vars)
  <2>1. SUFFICES ASSUME ReceiveDequeue(c), receivingQueue # <<>>
                 PROVE  Inbound!Get
    BY <1>1 DEF ReceiveDequeue, Inbound!Next
  <2>2. /\ delivered' = Append(delivered, Head(receivingQueue))
        /\ responses' = responses
    BY <2>1 DEF ReceiveDequeue
  <2>3. delivered \in Seq(ResponseType) /\ receivingQueue \in Seq(ResponseType)
    BY DEF TypeInv, TypeOK
  <2>4. Len(Received) = Len(delivered) + Len(receivingQueue) /\ Len(receivingQueue) >= 1
        /\ Received[Len(delivered) + 1] = receivingQueue[1]
    <3>1. /\ Len(receivingQueue) \in Nat /\ Len(receivingQueue) >= 1
          /\ Len(delivered) \in Nat
      BY <2>1, <2>3
    <3> QED
      BY <2>3, <3>1, ConcatProperties DEF Received
  <2>5. Received # <<>>
    BY <2>3, <2>4
  <2>6. responses # <<>> /\ Received = <<Meaning(First)>>
    BY <2>5 DEF FirstInv, NothingRead, SomeRead, AllRead, NeverReceived
  <2>7. Len(delivered) = 0 /\ Head(receivingQueue) = Meaning(First)
    <3>1. Len(Received) = 1 /\ Received[1] = Meaning(First)
      BY <2>6
    <3>2. Len(delivered) = 0
      <4>1. Len(delivered) \in Nat /\ Len(receivingQueue) \in Nat
        BY <2>3, LenProperties
      <4>2. Len(delivered) + Len(receivingQueue) = 1 /\ Len(receivingQueue) >= 1
        BY <2>4, <3>1
      <4> QED
        BY <4>1, <4>2
    <3> QED
      BY <2>3, <2>4, <3>1, <3>2
  <2>8. /\ responses \in Seq(Responses) /\ Len(responses) \in Nat /\ Len(responses) >= 1
    BY <2>6, WireTypes
  <2>9. Len(in) = Len(responses) /\ in[1] = Meaning(First)
    BY <2>8 DEF First
  <2>10. Len(delivered) < Len(in) /\ in[Len(delivered) + 1] = Head(receivingQueue)
    BY <2>7, <2>8, <2>9
  <2>11. in' = in
    BY <2>2
  <2> QED
    BY <2>2, <2>10, <2>11 DEF Inbound!Get
<1>4. ASSUME NEW c \in Callers
      PROVE  Call(c) \/ InCall(c) => [Inbound!Next]_(Inbound!vars)
  BY <1>1, <1>3 DEF Call, SendCount, ReceiveCount, StartRunning, Stop, InCall, SendError,
     SendEnqueue, ReceiveError, StartSending, StartReceiving
<1>5. SendingLocally \/ SendingRemotely => UNCHANGED <<responses, delivered>>
  BY DEF SendingLocally, SendingEnter, SendingLoop, SendingDequeue, Takes,
         TakesNothing, SendingSerialize, SendingFinally, SendingRemotely, TcpConnect,
         Authenticate, SendingWrite
<1>6. Receiving \/ PeerLost => UNCHANGED <<responses, delivered>>
  BY DEF Receiving, ReceivingAwait, ReceivingLoop, ReceivingType, ReceivingByte, PeerLost
<1>7. UNCHANGED vars => UNCHANGED <<responses, delivered>>
  BY DEF vars
<1> QED
  BY <1>1, <1>2, <1>4, <1>5, <1>6, <1>7 DEF Next, Inbound!Next

(* The adapter implements a first-in first-out channel from the server to  *)
(* Receive: what Receive returns is, byte by byte, what was sent first,    *)
(* whatever is sent, and wherever the connection breaks (Receiving, Fill). *)
THEOREM InboundIsFifo == Spec => ResponsesFifo
<1>1. Init => StarterInv /\ FirstInv
  <2>1. SUFFICES ASSUME Init PROVE StarterInv /\ FirstInv
    OBVIOUS
  <2>2. /\ \A t \in FillerTypes : fillers[t] = NewFiller
        /\ filler = NoFiller
        /\ responses = <<>> /\ inbound = <<>>
    BY <2>1 DEF Init
  <2>3. Received = <<>>
    <3>1. delivered = <<>> /\ receivingQueue = <<>>
      BY <2>1 DEF Init
    <3>2. <<>> \o <<>> = <<>>
      OBVIOUS
    <3> QED
      BY <3>1, <3>2, Zenon DEF Received
  <2>4. FirstInv
    BY <2>2, <2>3 DEF FirstInv, NothingRead, Arrives
  <2> QED
    BY <2>1, <2>4 DEF Init, StarterInv
<1>2. Init => Inbound!Init
  <2>1. SUFFICES ASSUME Init PROVE Inbound!Init
    OBVIOUS
  <2> DEFINE in == [i \in 1 .. Len(responses) |-> Meaning(responses[i])]
  <2>2. delivered = <<>> /\ Len(responses) = 0
    BY <2>1 DEF Init
  <2>3. in = <<>>
    <3>1. in \in Seq({}) /\ Len(in) = 0
      BY <2>2
    <3> HIDE DEF in
    <3> QED
      BY <3>1, EmptySeq
  <2> QED
    BY <2>2, <2>3 DEF Inbound!Init
<1> QED
  BY <1>1, <1>2, InitTypeInv, InitAnswerInv, StepTypeInv, StepAnswerInv, StepStarterInv,
     StepFirstInv, StepInbound, PTL
  DEF Spec, ResponsesFifo, Inbound!Spec
=============================================================================
