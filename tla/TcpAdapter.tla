----------------------------- MODULE TcpAdapter -----------------------------
(***************************************************************************)
(* TcpAdapter.cs: the network adapter of the Unity client.                 *)
(*                                                                         *)
(* Application threads call Start, Stop, Send and Receive; Start launches  *)
(* a sending and a receiving thread.  All of them share the plain fields   *)
(* running, error and networkStream and two concurrent queues, with no     *)
(* lock.  An action is one access to shared state, so every interleaving   *)
(* of the threads is a behaviour.  A loop condition running && error == "" *)
(* is one access all the same: error never becomes "" again, so the two    *)
(* reads always amount to one made at the instant of one of them.          *)
(*                                                                         *)
(* The variables sending, receiving and calls are program counters.        *)
(* accepted, written, responses, delivered and starts are history: no      *)
(* guard but the bounds reads them.                                        *)
(***************************************************************************)
EXTENDS BytesFiller, FiniteSets

CONSTANTS
  Callers,        (* the application's threads                                *)
  Requests,       (* what Send may be given                                   *)
  Serializable,   (* the requests SerializeRequest turns into bytes: none, as *)
                  (* the code is (module MessageCodec), any set in general    *)
  Responses,      (* the byte sequences the server may send as one message    *)
  FillerTypes,    (* the event types messageBytesFillers has a filler for     *)
  InitialStreams, (* networkStream as the constructors leave it               *)
  SendLimit,      (* 100 in Send                                              *)
  ReceiveLimit,   (* 100 in Receive                                           *)
  MaxSends, MaxResponses, MaxStarts   (* bounds on the environment            *)

(* The event type of a message as it is on the wire. *)
BigEndian16(m) == 256 * m[1] + m[2]

ASSUME AdapterAssumption ==
  /\ IsFiniteSet(Callers)
  /\ Serializable \subseteq Requests
  /\ Responses \subseteq Seq(Byte)
  /\ \A m \in Responses :
       /\ Len(m) >= 2
       /\ BigEndian16(m) = EventType_ConnectServer
            => Len(m) = FixedPartSize[EventType_ConnectServer]
  /\ FillerTypes \subseteq EventTypes
  /\ InitialStreams \subseteq {"null", "open"}
  /\ SendLimit \in Nat /\ ReceiveLimit \in Nat
  /\ MaxSends \in Nat /\ MaxResponses \in Nat /\ MaxStarts \in Nat

VARIABLES
  networkStream,  (* "null", "open" or "closed"                               *)
  socket,         (* the TcpClient Connect makes: "none", "open", "closed"    *)
  running, error, (* error is "" or the thread that wrote it last             *)
  sendingQueue, receivingQueue,
  sending,        (* where the sending thread is                              *)
  request,        (* its local request: <<>> for null, else <<the request>>   *)
  receiving,      (* where the receiving thread is                            *)
  filler,         (* its local filler: an event type, or NoFiller             *)
  fillers,        (* messageBytesFillers, by event type                       *)
  calls,          (* where each caller is in the method it called             *)
  peer, inbound,  (* the server's end, and the bytes on their way to us       *)
  accepted, written, responses, delivered, starts

connection == <<networkStream, socket>>
queues     == <<sendingQueue, receivingQueue>>
sender     == <<sending, request>>
receiver   == <<receiving, filler, fillers>>
threads    == <<sender, receiver>>
wire       == <<peer, inbound>>
history    == <<accepted, written, responses, delivered, starts>>
vars == <<connection, running, error, queues, threads, calls, wire, history>>

NoFiller == 0

(* What a message on the wire means, and what DeserializeResponse makes of *)
(* a filler's buffer.  The payload is carried over byte by byte; module    *)
(* MessageCodec models how it is divided into fields.                      *)
Payload(bytes) == SubSeq(bytes, 3, Len(bytes))
Meaning(m) == [eventType |-> BigEndian16(m), payload |-> Payload(m)]
Response(buffer) == [eventType |-> ToUInt16(buffer, 0), payload |-> Payload(buffer)]
ResponseType == [eventType : Nat, payload : Seq(Byte)]

(***************************************************************************)
(* The two constructors: the first leaves networkStream null, the one for  *)
(* tests is given a stream.                                                *)
(***************************************************************************)
Init ==
  /\ networkStream \in InitialStreams
  /\ socket = "none" /\ running = FALSE /\ error = ""
  /\ sendingQueue = <<>> /\ receivingQueue = <<>>
  /\ sending = "unstarted" /\ request = <<>>
  /\ receiving = "unstarted" /\ filler = NoFiller
  /\ fillers = [t \in FillerTypes |-> NewFiller]
  /\ calls = [c \in Callers |-> "idle"]
  /\ peer = "up" /\ inbound = <<>>
  /\ accepted = <<>> /\ written = <<>> /\ responses = <<>> /\ delivered = <<>>
  /\ starts = 0
-----------------------------------------------------------------------------
(***************************************************************************)
(* The application's calls.  A call that throws or finds nothing ends with *)
(* its caller idle again; one that throws at its first check changes       *)
(* nothing and is no step.                                                 *)
(***************************************************************************)
Moves(c, from, to) == calls[c] = from /\ calls' = [calls EXCEPT ![c] = to]

InSend == {c \in Callers : calls[c] \in {"sendError", "sendEnqueue"}}

(* Mutant: the limit is off by one. *)
TooManyQueuedByOne == Len(sendingQueue) > SendLimit + 1

TooManyQueued == Len(sendingQueue) > SendLimit

(* Send, first check: not too many requests queued. *)
SendCount(c) ==
  /\ Len(accepted) + Cardinality(InSend) < MaxSends
  /\ ~ TooManyQueued
  /\ Moves(c, "idle", "sendError")
  /\ UNCHANGED <<connection, running, error, queues, threads, wire, history>>

(* Send, second check: no network error so far. *)
SendError(c) ==
  /\ Moves(c, "sendError", IF error = "" THEN "sendEnqueue" ELSE "idle")
  /\ UNCHANGED <<connection, running, error, queues, threads, wire, history>>

SendEnqueue(c) ==
  /\ Moves(c, "sendEnqueue", "idle")
  /\ \E r \in Requests : /\ sendingQueue' = Append(sendingQueue, r)
                         /\ accepted' = Append(accepted, r)
  /\ UNCHANGED <<connection, running, error, receivingQueue, threads, wire, written,
                 responses, delivered, starts>>

(* Receive, first check: not too many responses queued. *)
ReceiveCount(c) ==
  /\ Len(receivingQueue) <= ReceiveLimit
  /\ Moves(c, "idle", "receiveError")
  /\ UNCHANGED <<connection, running, error, queues, threads, wire, history>>

ReceiveError(c) ==
  /\ Moves(c, "receiveError", IF error = "" THEN "receiveDequeue" ELSE "idle")
  /\ UNCHANGED <<connection, running, error, queues, threads, wire, history>>

(* Mutant: the response is looked at and left in the queue. *)
ReceivePeek(c) ==
  /\ Moves(c, "receiveDequeue", "idle")
  /\ delivered' = IF receivingQueue = <<>> THEN delivered
                  ELSE Append(delivered, Head(receivingQueue))
  /\ UNCHANGED <<connection, running, error, queues, threads, wire, accepted,
                 written, responses, starts>>

ReceiveDequeue(c) ==
  /\ Moves(c, "receiveDequeue", "idle")
  /\ IF receivingQueue = <<>>
     THEN UNCHANGED <<receivingQueue, delivered>>
     ELSE /\ receivingQueue' = Tail(receivingQueue)
          /\ delivered' = Append(delivered, Head(receivingQueue))
  /\ UNCHANGED <<connection, running, error, sendingQueue, threads, wire, accepted,
                 written, responses, starts>>

(* Mutant: Start also forgets the error of an earlier start. *)
StartAfresh(c) ==
  /\ starts < MaxStarts
  /\ Moves(c, "idle", "startSending")
  /\ running' = TRUE /\ error' = ""
  /\ starts' = starts + 1
  /\ UNCHANGED <<connection, queues, threads, wire, accepted, written, responses,
                 delivered>>

(* Start sets running before it asks whether the threads can be started.   *)
StartRunning(c) ==
  /\ starts < MaxStarts
  /\ Moves(c, "idle", "startSending")
  /\ running' = TRUE
  /\ starts' = starts + 1
  /\ UNCHANGED <<connection, error, queues, threads, wire, accepted, written,
                 responses, delivered>>

(* Thread.Start throws for a thread that was started before, even one that *)
(* has ended; Start then never gets to the receiving thread.               *)
StartSending(c) ==
  /\ Moves(c, "startSending",
           IF sending = "unstarted" THEN "startReceiving" ELSE "idle")
  /\ sending' = IF sending = "unstarted" THEN "enter" ELSE sending
  /\ UNCHANGED <<connection, running, error, queues, request, receiver, wire,
                 history>>

(* The one call that started the sending thread comes here, so the         *)
(* receiving thread is unstarted.                                          *)
StartReceiving(c) ==
  /\ Moves(c, "startReceiving", "idle")
  /\ receiving' = "await"
  /\ UNCHANGED <<connection, running, error, queues, sender, filler, fillers, wire,
                 history>>

Stop(c) ==
  /\ calls[c] = "idle"
  /\ running' = FALSE
  /\ UNCHANGED <<connection, error, queues, threads, calls, wire, history>>

InCall(c) ==
  \/ SendError(c) \/ SendEnqueue(c) \/ ReceiveError(c) \/ ReceiveDequeue(c)
  \/ StartSending(c) \/ StartReceiving(c)

Call(c) == SendCount(c) \/ ReceiveCount(c) \/ StartRunning(c) \/ Stop(c)
-----------------------------------------------------------------------------
(***************************************************************************)
(* The sending thread.  An exception anywhere in the try block is caught   *)
(* by Sending itself, recorded in error, and followed by the finally block.*)
(***************************************************************************)
SendingThrows == error' = "Sending" /\ sending' = "finally"

SendingEnter ==
  /\ sending = "enter"
  /\ sending' = IF networkStream = "null" THEN "connect" ELSE "loop"
  /\ UNCHANGED <<connection, running, error, queues, request, receiver, calls, wire,
                 history>>

(* Mutant: the stream of the client is used as it is, without TLS. *)
TcpConnectPlain ==
  /\ sending = "connect"
  /\ \/ /\ socket' = "open" /\ networkStream' = "open" /\ sending' = "loop"
        /\ UNCHANGED error
     \/ /\ SendingThrows /\ UNCHANGED connection
  /\ UNCHANGED <<running, queues, request, receiver, calls, wire, history>>

(* Connect: new TcpClient(server, port), which blocks and may throw. *)
TcpConnect ==
  /\ sending = "connect"
  /\ \/ /\ socket' = "open" /\ sending' = "authenticate" /\ UNCHANGED error
     \/ /\ SendingThrows /\ UNCHANGED socket
  /\ UNCHANGED <<networkStream, running, queues, request, receiver, calls, wire,
                 history>>

(* Connect: AuthenticateAsClient.  The client is closed for an             *)
(* AuthenticationException and for no other exception.                     *)
Authenticate ==
  /\ sending = "authenticate"
  /\ \/ /\ networkStream' = "open" /\ sending' = "loop"
        /\ UNCHANGED <<socket, error>>
     \/ /\ socket' \in {"closed", "open"} /\ SendingThrows
        /\ UNCHANGED networkStream
  /\ UNCHANGED <<running, queues, request, receiver, calls, wire, history>>

(* Mutant: the loop does not look at error. *)
SendingLoopRunning ==
  /\ sending = "loop"
  /\ sending' = IF running THEN "dequeue" ELSE "finally"
  /\ UNCHANGED <<connection, running, error, queues, request, receiver, calls, wire,
                 history>>

SendingLoop ==
  /\ sending = "loop"
  /\ sending' = IF running /\ error = "" THEN "dequeue" ELSE "finally"
  /\ UNCHANGED <<connection, running, error, queues, request, receiver, calls, wire,
                 history>>

Takes(r, rest) ==
  /\ sending = "dequeue" /\ sending' = "serialize"
  /\ request' = r /\ sendingQueue' = rest
  /\ UNCHANGED <<connection, running, error, receivingQueue, receiver, calls, wire,
                 history>>
TakesNothing ==
  /\ sending = "dequeue" /\ sending' = "loop"
  /\ UNCHANGED <<connection, running, error, queues, request, receiver, calls, wire,
                 history>>

(* Mutants: a request is taken only while another waits behind it; the     *)
(* newest is taken; the request stays in the queue.                        *)
SendingDequeueAllButOne ==
  IF Len(sendingQueue) < 2 THEN TakesNothing
  ELSE Takes(<<Head(sendingQueue)>>, Tail(sendingQueue))
SendingDequeueNewest ==
  IF sendingQueue = <<>> THEN TakesNothing
  ELSE Takes(<<sendingQueue[Len(sendingQueue)]>>,
             SubSeq(sendingQueue, 1, Len(sendingQueue) - 1))
SendingPeek ==
  IF sendingQueue = <<>> THEN TakesNothing
  ELSE Takes(<<Head(sendingQueue)>>, sendingQueue)

(* Mutant: the loop ends when there is nothing to send. *)
SendingDequeueOrEnd ==
  /\ sending = "dequeue"
  /\ IF sendingQueue = <<>>
     THEN sending' = "finally" /\ UNCHANGED <<request, sendingQueue>>
     ELSE /\ sending' = "serialize"
          /\ request' = <<Head(sendingQueue)>> /\ sendingQueue' = Tail(sendingQueue)
  /\ UNCHANGED <<connection, running, error, receivingQueue, receiver, calls, wire,
                 history>>

(* Count, then TryDequeue: nobody else takes from this queue. *)
SendingDequeue ==
  IF sendingQueue = <<>> THEN TakesNothing
  ELSE Takes(<<Head(sendingQueue)>>, Tail(sendingQueue))

SendingSerialize ==
  /\ sending = "serialize"
  /\ IF request[1] \in Serializable
     THEN sending' = "write" /\ UNCHANGED error
     ELSE SendingThrows
  /\ UNCHANGED <<connection, running, queues, request, receiver, calls, wire,
                 history>>

(* Write takes the bytes, as it may for a while even when the peer is gone,*)
(* or throws.                                                              *)
SendingWrite ==
  /\ sending = "write"
  /\ \/ /\ sending' = "loop" /\ request' = <<>>
        /\ written' = Append(written, request[1])
        /\ UNCHANGED error
     \/ /\ peer = "down" /\ SendingThrows
        /\ UNCHANGED <<request, written>>
  /\ UNCHANGED <<connection, running, queues, receiver, calls, wire, accepted,
                 responses, delivered, starts>>

(* Mutant: the stream is not closed. *)
SendingEnds ==
  /\ sending = "finally" /\ sending' = "done"
  /\ UNCHANGED <<connection, running, error, queues, request, receiver, calls, wire,
                 history>>

(* Closing the stream closes the client it was made from. *)
SendingFinally ==
  /\ sending = "finally"
  /\ sending' = "done"
  /\ IF networkStream = "null"
     THEN UNCHANGED <<networkStream, socket>>
     ELSE /\ networkStream' = "closed"
          /\ socket' = IF socket = "open" THEN "closed" ELSE socket
  /\ UNCHANGED <<running, error, queues, request, receiver, calls, wire, history>>

(* The steps that only need the processor, and those that wait for the     *)
(* network.                                                                *)
SendingLocally == SendingEnter \/ SendingLoop \/ SendingDequeue \/ SendingSerialize
                  \/ SendingFinally
SendingRemotely == TcpConnect \/ Authenticate \/ SendingWrite
-----------------------------------------------------------------------------
(***************************************************************************)
(* The receiving thread.  It writes error and ends when anything throws.   *)
(***************************************************************************)
ReceivingThrows == error' = "Receiving" /\ receiving' = "done"

(* Mutant: the receiving thread does not wait. *)
ReceivingEnter ==
  /\ receiving = "await" /\ receiving' = "loop"
  /\ UNCHANGED <<connection, running, error, queues, sender, filler, fillers, calls,
                 wire, history>>

(* Mutants: the receiving thread does not look at error while it waits, or *)
(* not at running.                                                         *)
ReceivingAwaitStream ==
  /\ receiving = "await" /\ receiving' = "loop"
  /\ ~ (running /\ networkStream = "null")
  /\ UNCHANGED <<connection, running, error, queues, sender, filler, fillers, calls,
                 wire, history>>
ReceivingAwaitConnected ==
  /\ receiving = "await" /\ receiving' = "loop"
  /\ ~ (error = "" /\ networkStream = "null")
  /\ UNCHANGED <<connection, running, error, queues, sender, filler, fillers, calls,
                 wire, history>>

(* The spin that waits for the sending thread to connect; one way out of   *)
(* it is that running is FALSE, and the next condition reads running again.*)
ReceivingAwait ==
  /\ receiving = "await"
  /\ ~ (running /\ error = "" /\ networkStream = "null")
  /\ receiving' = "loop"
  /\ UNCHANGED <<connection, running, error, queues, sender, filler, fillers, calls,
                 wire, history>>

ReceivingLoop ==
  /\ receiving = "loop"
  /\ receiving' = IF running /\ error = "" THEN "read" ELSE "done"
  /\ UNCHANGED <<connection, running, error, queues, sender, filler, fillers, calls,
                 wire, history>>

(* A read of n bytes throws on a null or closed stream, and at the end of  *)
(* what a lost peer sent ("byte is -1"); with a peer still up it blocks.   *)
ReadThrows(n) == networkStream # "open" \/ (peer = "down" /\ Len(inbound) < n)
Readable(n) == networkStream = "open" /\ Len(inbound) >= n

(* Mutant: an event type nobody has a filler for is not told apart. *)
FillerForAny(eventType) == eventType

(* The loop that looks for the filler of an event type. *)
FillerFor(eventType) == IF eventType \in FillerTypes THEN eventType ELSE NoFiller

(* No filler yet: ReadUInt16 gives the event type of the next message, and *)
(* the filler found for it gets the two bytes, low byte first.             *)
ReceivingType ==
  /\ receiving = "read" /\ filler = NoFiller
  /\ \/ /\ ReadThrows(2) /\ ReceivingThrows
        /\ UNCHANGED <<inbound, filler, fillers>>
     \/ /\ Readable(2)
        /\ inbound' = SubSeq(inbound, 3, Len(inbound))
        /\ LET eventType == BigEndian16(inbound)
               raw       == GetBytes(eventType)
           IN  IF FillerFor(eventType) # NoFiller
               THEN /\ filler' = FillerFor(eventType)
                    /\ fillers' = [fillers EXCEPT ![eventType] =
                         Fill(eventType, Fill(eventType, @, raw[1]), raw[2])]
                    /\ receiving' = "loop" /\ UNCHANGED error
               ELSE ReceivingThrows /\ UNCHANGED <<filler, fillers>>
  /\ UNCHANGED <<connection, running, queues, sender, calls, peer, history>>

(* One more byte for the filler at hand.  DeserializeResponse knows only   *)
(* the ConnectServer response and throws for any other.                    *)
ReceivingByte ==
  /\ receiving = "read" /\ filler # NoFiller
  /\ \/ /\ ReadThrows(1) /\ ReceivingThrows
        /\ UNCHANGED <<inbound, filler, fillers, receivingQueue>>
     \/ /\ Readable(1)
        /\ inbound' = Tail(inbound)
        /\ LET f        == Fill(filler, fillers[filler], Head(inbound))
               response == Response(f.buffer)
               known    == response.eventType = EventType_ConnectServer
           IN  /\ fillers' = [fillers EXCEPT ![filler] = f]
               /\ IF TooBig(f) \/ (Filled(f) /\ ~ known)
                  THEN ReceivingThrows /\ UNCHANGED <<filler, receivingQueue>>
                  ELSE /\ receiving' = "loop" /\ UNCHANGED error
                       /\ IF Filled(f)
                          THEN /\ receivingQueue' = Append(receivingQueue, response)
                               /\ filler' = NoFiller
                          ELSE UNCHANGED <<filler, receivingQueue>>
  /\ UNCHANGED <<connection, running, sendingQueue, sender, calls, peer, history>>

Receiving == ReceivingAwait \/ ReceivingLoop \/ ReceivingType \/ ReceivingByte
-----------------------------------------------------------------------------
(***************************************************************************)
(* The server's end of the connection, as the adapter uses it: a byte      *)
(* stream that carries whole messages until it is lost, with any number of *)
(* the bytes still on their way.                                           *)
(***************************************************************************)
PeerSend ==
  /\ networkStream = "open" /\ peer = "up"
  /\ Len(responses) < MaxResponses
  /\ \E m \in Responses : /\ inbound' = inbound \o m
                          /\ responses' = Append(responses, m)
  /\ UNCHANGED <<connection, running, error, queues, threads, calls, peer, accepted,
                 written, delivered, starts>>

PeerLost ==
  /\ networkStream = "open" /\ peer = "up"
  /\ peer' = "down"
  /\ \E n \in 0 .. Len(inbound) : inbound' = SubSeq(inbound, 1, n)
  /\ UNCHANGED <<connection, running, error, queues, threads, calls, history>>

Next ==
  \/ \E c \in Callers : Call(c) \/ InCall(c)
  \/ SendingLocally \/ SendingRemotely
  \/ Receiving
  \/ PeerSend \/ PeerLost

Spec == Init /\ [][Next]_vars

(* Every thread that can run is scheduled again and again; nothing is      *)
(* assumed of the application's next call, of the peer, or of the calls    *)
(* into the network (TcpConnect, Authenticate, SendingWrite).              *)
Fairness ==
  /\ WF_vars(SendingLocally)
  /\ WF_vars(Receiving)
  /\ \A c \in Callers : WF_vars(InCall(c))

FairSpec == Spec /\ Fairness
-----------------------------------------------------------------------------
TypeOK ==
  /\ networkStream \in {"null", "open", "closed"}
  /\ socket \in {"none", "open", "closed"}
  /\ running \in BOOLEAN
  /\ error \in {"", "Sending", "Receiving"}
  /\ sendingQueue \in Seq(Requests) /\ receivingQueue \in Seq(ResponseType)
  /\ sending \in {"unstarted", "enter", "connect", "authenticate", "loop", "dequeue",
                  "serialize", "write", "finally", "done"}
  /\ request \in {<<>>} \cup {<<r>> : r \in Requests}
  /\ receiving \in {"unstarted", "await", "loop", "read", "done"}
  /\ filler \in FillerTypes \cup {NoFiller}
  /\ fillers \in [FillerTypes -> FillerType]
  /\ calls \in [Callers -> {"idle", "sendError", "sendEnqueue", "receiveError",
                            "receiveDequeue", "startSending", "startReceiving"}]
  /\ peer \in {"up", "down"} /\ inbound \in Seq(Byte)
  /\ accepted \in Seq(Requests) /\ written \in Seq(Requests)
  /\ responses \in Seq(Responses) /\ delivered \in Seq(ResponseType)
  /\ starts \in 0 .. MaxStarts

(* Every request Send accepted is written, in the sending thread's hands   *)
(* or still queued, in that order: the sending side loses none but the one *)
(* in hand, writes none twice and never overtakes (Send, Sending).         *)
RequestsInOrder == accepted = written \o request \o sendingQueue

(* Send reads the queue's count and enqueues later, so its limit is        *)
(* overrun, but by no more than one request per concurrent caller.         *)
SendQueueBound == Len(sendingQueue) <= SendLimit + Cardinality(Callers)

(* The sending thread never ends with an established connection still open *)
(* (finally in Sending), and while it is at work nobody closes the stream. *)
StreamFollowsSending ==
  /\ sending = "done" /\ networkStream # "null"
       => networkStream = "closed" /\ socket # "open"
  /\ sending \in {"loop", "dequeue", "serialize", "write"} => networkStream = "open"

(* The receiving thread reads from a stream that is there, unless Start    *)
(* was called again: Stop lets it out of its wait, the second Start sets   *)
(* running and so lets it into the loop before there is a stream.          *)
NullStreamNeedsRestart ==
  receiving = "read" /\ networkStream = "null" => starts > 1

(* An adapter that looks alive, running and with no error, so that Send    *)
(* goes on accepting, is alive, unless it was stopped and started again:   *)
(* the second Start sets running and cannot start the threads again.       *)
DeadNeedsRestart ==
  running /\ error = "" /\ sending = "done" => starts > 1

(* A filler completes at most once in the life of the adapter, so at most  *)
(* one response of each type ever gets as far as the queue (Fill).         *)
OneResponsePerFiller ==
  LET received == delivered \o receivingQueue
  IN  \A i, j \in 1 .. Len(received) :
        i # j => received[i].eventType # received[j].eventType

(* Once an error is recorded it stays recorded, although the second thread *)
(* to fail overwrites the text of the first (error in Sending, Receiving). *)
ErrorSticks == [][error # "" => error' # ""]_vars

(* Both directions of the adapter are first-in first-out channels.  What   *)
(* the application receives is, message by message and byte by byte, what  *)
(* the server sent.                                                        *)
Outbound == INSTANCE FifoChannel
  WITH Message <- Requests, in <- accepted, out <- written
Inbound == INSTANCE FifoChannel
  WITH Message <- {Meaning(m) : m \in Responses},
       in <- [i \in 1 .. Len(responses) |-> Meaning(responses[i])], out <- delivered

RequestsFifo == Outbound!Spec
ResponsesFifo == Inbound!Spec
-----------------------------------------------------------------------------
(* No call into the network blocks the sending thread for ever.            *)
NetworkReturns == []<>(sending \notin {"connect", "authenticate", "write"})

Ended == sending = "done" /\ receiving = "done"

(* After Stop both threads end, unless Start is called again in time.      *)
StopEndsBoth ==
  NetworkReturns => ((sending # "unstarted" /\ ~ running) ~> (running \/ Ended))

(* An error in either thread brings both down: the sending thread sees it  *)
(* in its loop and closes the stream, which wakes the blocked reader.      *)
ErrorEndsBoth == NetworkReturns => (error # "" ~> Ended)

(* A request Send accepted is written unless there is an error or a Stop,  *)
(* after which the adapter is not running or, started again, has ended.    *)
AcceptedIsWritten ==
  NetworkReturns =>
    \A n \in 1 .. MaxSends :
      (Len(accepted) >= n /\ sending # "unstarted")
        ~> (Len(written) >= n \/ error # "" \/ ~ running \/ sending = "done")
=============================================================================
