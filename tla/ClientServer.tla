---------------------------- MODULE ClientServer ----------------------------
(***************************************************************************)
(* The client's TcpAdapter, made with its production constructor, and the  *)
(* banana_server it connects to, next to the server's other clients.  The  *)
(* adapter's connection is that of client Me.  The two ends do not speak   *)
(* the same protocol: the adapter opens a TLS handshake, and the server    *)
(* reads, prints, and never writes.                                        *)
(***************************************************************************)
EXTENDS BananaServer

CONSTANTS
  Me,         (* the client that is the adapter                               *)
  Callers, Requests, EventTypesFilled, SendLimit, ReceiveLimit, MaxSends, MaxStarts,
  FixedPartSize, MaxMessageSize

ASSUME MeAssumption == Me \in Clients

VARIABLES
  networkStream, socket, running, error, sendingQueue, receivingQueue, sending,
  request, receiving, filler, fillers, calls, peer, inbound, accepted, written,
  responses, delivered, starts,   (* TcpAdapter's                             *)
  hello                           (* has the adapter written its ClientHello? *)

A == INSTANCE TcpAdapter WITH
       Serializable <- {}, Responses <- {}, FillerTypes <- EventTypesFilled,
       InitialStreams <- {"null"}, MaxResponses <- 0

adapter == <<networkStream, socket, running, error, sendingQueue, receivingQueue,
             sending, request, receiving, filler, fillers, calls, peer, inbound,
             accepted, written, responses, delivered, starts>>
server  == vars
all     == <<adapter, server, hello>>

InitBoth == A!Init /\ Init /\ hello = FALSE

(* Has the server's end of Me's connection ended?  It ends when the        *)
(* process does, when a failing accept drops it, or when it is cut.        *)
Gone ==
  \/ ~ Running \/ client[Me] = "reset"
  \/ (\A i \in DOMAIN backlog : backlog[i] # Me) /\ (\A d \in Descriptors : table[d] # Me)
-----------------------------------------------------------------------------
(* new TcpClient: a connection to the server, or an exception, whatever    *)
(* the reason.                                                             *)
Dial ==
  /\ A!TcpConnect
  /\ IF socket' = "open" THEN Connect(Me) ELSE UNCHANGED server
  /\ UNCHANGED hello

(* AuthenticateAsClient writes a ClientHello ...                           *)
Hello ==
  /\ sending = "authenticate" /\ ~ hello /\ Write(Me)
  /\ hello' = TRUE /\ UNCHANGED adapter

(* ... and waits for an answer.  Only the end of the connection ends the   *)
(* wait, with an exception that is no AuthenticationException: the client  *)
(* is not closed, and keeps its end open.                                  *)
HandshakeFails ==
  /\ Gone /\ A!Authenticate /\ networkStream' = "null" /\ socket' = "open"
  /\ UNCHANGED <<server, hello>>

(* The network cuts the connection.                                        *)
Cut ==
  /\ client[Me] = "open" /\ Disconnect(Me) /\ client'[Me] = "reset"
  /\ UNCHANGED <<adapter, hello>>

AdapterAlone ==
  /\ A!SendingLocally \/ A!Receiving \/ \E c \in Callers : A!Call(c) \/ A!InCall(c)
  /\ UNCHANGED <<server, hello>>

ServerAlone ==
  /\ \/ Listen \/ Main \/ Interrupt \/ Handle
     \/ \E c \in Clients \ {Me} : Connect(c) \/ Write(c) \/ Disconnect(c)
  /\ UNCHANGED <<adapter, hello>>

NextBoth == Dial \/ Hello \/ HandshakeFails \/ Cut \/ AdapterAlone \/ ServerAlone

(* The threads of both ends are scheduled again and again, and a blocked   *)
(* call of the adapter into the network returns once it can.               *)
FairBoth ==
  /\ WF_all(A!SendingLocally /\ UNCHANGED <<server, hello>>)
  /\ WF_all(A!Receiving /\ UNCHANGED <<server, hello>>)
  /\ \A c \in Callers : WF_all(A!InCall(c) /\ UNCHANGED <<server, hello>>)
  /\ WF_all(Dial \/ HandshakeFails) /\ WF_all(Hello)
  /\ WF_all(Main /\ UNCHANGED <<adapter, hello>>)
  /\ \A h \in 1 .. ThreadLimit :
       WF_all(h \in DOMAIN handlers /\ HandleConnection(h) /\ UNCHANGED <<adapter, hello>>)

SpecBoth == InitBoth /\ [][NextBoth]_all /\ FairBoth
-----------------------------------------------------------------------------
(* The adapter never has a session with this server: however long it is    *)
(* used, no request is written, and the server never reads more of it than *)
(* the one ClientHello (Connect in TcpAdapter, HandleConnection).          *)
NoSession ==
  /\ networkStream = "null" /\ written = <<>> /\ delivered = <<>>
  /\ unread[Me] <= 1 /\ (unread[Me] = 1 => hello)

(* Each waits for the other: while the adapter is in its handshake and the *)
(* connection is not cut, the handler that has it stays and reads, and     *)
(* with it the thread and the descriptor, also after Stop.                 *)
MutualWait ==
  sending = "authenticate" /\ client[Me] = "open" /\ Running =>
    \A h \in DOMAIN handlers :
      handlers[h].conn = Me => handlers[h].at \in {"enter", "read"} /\ open(h) = Me

(* When the server's end is gone both threads of the adapter end, although *)
(* there never was a stream to close.                                      *)
EndOfServerEndsAdapter ==
  (sending = "authenticate" /\ Gone /\ receiving # "unstarted") ~> A!Ended

(* Stop frees the receiving thread even while the sending thread is stuck  *)
(* in the handshake, unless Start is called again in time.                 *)
StopFreesReceiver ==
  (receiving # "unstarted" /\ ~ running) ~> (running \/ receiving = "done")
=============================================================================
