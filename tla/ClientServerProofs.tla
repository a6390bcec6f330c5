------------------------- MODULE ClientServerProofs -------------------------
(***************************************************************************)
(* Proofs about ClientServer: the server next to an adapter is the server  *)
(* of BananaServer, the two never have a session, and the handler waits as *)
(* long as the adapter does; for any number of clients and callers.        *)
(***************************************************************************)
EXTENDS ClientServer, BananaServerProofs

(* A step of the two is a step of the server with its clients, or none.    *)
LEMMA StepOfServer == [NextBoth]_all => [Next]_vars
<1>1. Dial => [Next]_vars
  BY MeAssumption DEF Dial, server, Next, Client
<1>2. Hello => [Next]_vars
  BY MeAssumption DEF Hello, Next, Client
<1>3. HandshakeFails => [Next]_vars
  BY DEF HandshakeFails, server
<1>4. Cut => [Next]_vars
  BY MeAssumption DEF Cut, Next, Client
<1>5. AdapterAlone => [Next]_vars
  BY DEF AdapterAlone, server
<1>6. ServerAlone => [Next]_vars
  BY DEF ServerAlone, Next, Client
<1>7. UNCHANGED all => [Next]_vars
  BY DEF all, server
<1> QED
  BY <1>1, <1>2, <1>3, <1>4, <1>5, <1>6, <1>7 DEF NextBoth

(* The adapter is one of the clients the server was made for: the two      *)
(* together implement BananaServer, whose invariants hold here as well.    *)
THEOREM ServerIsImplemented == SpecBoth => Spec
<1>1. InitBoth => Init
  BY DEF InitBoth
<1> QED
  BY <1>1, StepOfServer, PTL DEF SpecBoth, Spec
-----------------------------------------------------------------------------
(* The adapter gets no further than its handshake.                         *)
NoStream ==
  /\ networkStream = "null" /\ written = <<>> /\ delivered = <<>> /\ receivingQueue = <<>>
  /\ sending \in {"unstarted", "enter", "connect", "authenticate", "finally", "done"}

(* A client has at most as many writes unread as it made.                  *)
HelloOnce ==
  /\ unread \in [Clients -> Nat]
  /\ unread[Me] <= 1 /\ (unread[Me] = 1 => hello = TRUE)

(* Every step keeps NoStream. *)
LEMMA AdapterKeeps ==
  ASSUME NoStream, NextBoth PROVE NoStream'
<1> USE DEF A!connection, A!queues, A!sender, A!receiver, A!threads, A!wire, A!history,
            A!Moves, A!SendingThrows, A!ReceivingThrows
<1>1. CASE Dial
  BY <1>1 DEF Dial, A!TcpConnect, NoStream
<1>2. CASE Hello \/ Cut \/ ServerAlone
  BY <1>2 DEF Hello, Cut, ServerAlone, adapter, NoStream
<1>3. CASE HandshakeFails
  BY <1>3 DEF HandshakeFails, A!Authenticate, NoStream
<1>4. CASE A!SendingLocally
  BY <1>4 DEF A!SendingLocally, A!SendingEnter, A!SendingLoop, A!SendingDequeue,
              A!Takes, A!TakesNothing, A!SendingSerialize, A!SendingFinally, NoStream
<1>5. CASE A!Receiving
  <2>1. CASE A!ReceivingAwait \/ A!ReceivingLoop
    BY <2>1 DEF A!ReceivingAwait, A!ReceivingLoop, NoStream
  <2>2. CASE A!ReceivingType
    BY <2>2 DEF A!ReceivingType, NoStream
  <2>3. CASE A!ReceivingByte
    <3>1. ~ A!Readable(1)
      BY DEF A!Readable, NoStream
    <3>2. receivingQueue' = receivingQueue
      BY <2>3, <3>1, Zenon DEF A!ReceivingByte
    <3>3. UNCHANGED <<networkStream, written, delivered, sending>>
      BY <2>3 DEF A!ReceivingByte
    <3> QED
      BY <3>2, <3>3 DEF NoStream
  <2> QED
    BY <1>5, <2>1, <2>2, <2>3 DEF A!Receiving
<1>6. ASSUME NEW c \in Callers, A!Call(c) \/ A!InCall(c) PROVE NoStream'
  <2>1. CASE A!Call(c)
    BY <2>1 DEF A!Call, A!SendCount, A!ReceiveCount, A!StartRunning, A!Stop, NoStream
  <2>2. CASE A!SendError(c) \/ A!SendEnqueue(c) \/ A!ReceiveError(c)
    BY <2>2 DEF A!SendError, A!SendEnqueue, A!ReceiveError, NoStream
  <2>3. CASE A!ReceiveDequeue(c)
    BY <2>3 DEF A!ReceiveDequeue, NoStream
  <2>4. CASE A!StartSending(c) \/ A!StartReceiving(c)
    BY <2>4 DEF A!StartSending, A!StartReceiving, NoStream
  <2> QED
    BY <1>6, <2>1, <2>2, <2>3, <2>4 DEF A!InCall
<1> QED
  BY <1>1, <1>2, <1>3, <1>4, <1>5, <1>6 DEF NextBoth, AdapterAlone

(* Every step keeps HelloOnce. *)
LEMMA HelloKeeps ==
  ASSUME HelloOnce, NextBoth PROVE HelloOnce'
<1>1. ASSUME UNCHANGED <<unread, hello>> PROVE HelloOnce'
  BY <1>1 DEF HelloOnce
<1>2. CASE Dial \/ HandshakeFails \/ AdapterAlone
  <2>1. UNCHANGED <<unread, hello>>
    BY <1>2 DEF Dial, Connect, HandshakeFails, AdapterAlone, server, vars
  <2> QED
    BY <1>1, <2>1
<1>3. CASE Hello
  <2>1. unread' = [unread EXCEPT ![Me] = @ + 1] /\ ~ hello /\ hello' = TRUE
    BY <1>3 DEF Hello, Write
  <2>2. unread[Me] = 0
    BY <2>1, MeAssumption DEF HelloOnce
  <2> QED
    BY <2>1, <2>2, MeAssumption DEF HelloOnce
<1>4. CASE Cut
  <2>1. PICK how \in {"closed", "reset"} :
          unread' = [unread EXCEPT ![Me] = IF how = "reset" THEN 0 ELSE @]
    BY <1>4 DEF Cut, Disconnect
  <2>2. hello' = hello
    BY <1>4 DEF Cut
  <2> QED
    BY <2>1, <2>2, MeAssumption DEF HelloOnce
<1>5. CASE ServerAlone
  <2>1. hello' = hello
    BY <1>5 DEF ServerAlone
  <2>2. CASE Listen \/ Main \/ Interrupt
    <3>1. unread' = unread
      BY <2>2 DEF Listen, Main, Interrupt, Accept, Accepted, AcceptFails, Spawn, Ends, network
    <3> QED
      BY <1>1, <2>1, <3>1
  <2>3. ASSUME NEW h \in DOMAIN handlers, HandleConnection(h) PROVE HelloOnce'
    <3>1. CASE ReadData(h)
      <4>1. PICK n \in 1 .. unread[open(h)] : unread' = [unread EXCEPT ![open(h)] = @ - n]
        BY <3>1 DEF ReadData
      <4>2. open(h) \in Clients
        BY <3>1 DEF ReadData
      <4>3. unread[open(h)] - n \in Nat /\ unread[open(h)] - n < unread[open(h)]
        BY <4>1, <4>2 DEF HelloOnce
      <4> QED
        BY <2>1, <4>1, <4>2, <4>3, MeAssumption DEF HelloOnce
    <3>2. CASE ~ ReadData(h)
      <4>1. unread' = unread
        BY <2>3, <3>2 DEF HandleConnection, SetBlocking, ReadEnd, ReadError, Close, network
      <4> QED
        BY <1>1, <2>1, <4>1
    <3> QED
      BY <3>1, <3>2
  <2>4. ASSUME NEW c \in Clients \ {Me}, Connect(c) \/ Write(c) \/ Disconnect(c)
        PROVE  HelloOnce'
    <3>1. \/ unread' = unread
          \/ unread' = [unread EXCEPT ![c] = @ + 1]
          \/ \E how \in {"closed", "reset"} :
               unread' = [unread EXCEPT ![c] = IF how = "reset" THEN 0 ELSE @]
      BY <2>4 DEF Connect, Write, Disconnect
    <3>2. unread' \in [Clients -> Nat] /\ unread'[Me] = unread[Me]
      BY <3>1, MeAssumption DEF HelloOnce
    <3> QED
      BY <2>1, <3>2 DEF HelloOnce
  <2> QED
    BY <1>5, <2>2, <2>3, <2>4 DEF ServerAlone, Handle
<1> QED
  BY <1>2, <1>3, <1>4, <1>5 DEF NextBoth

(* No request is ever written to this server, and of the adapter it reads  *)
(* one ClientHello at most (Connect in TcpAdapter, HandleConnection).      *)
THEOREM NeverASession == SpecBoth => []NoSession
<1>1. InitBoth => NoStream /\ HelloOnce
  <2>1. A!Init => NoStream
    BY Zenon DEF A!Init, NoStream
  <2>2. Init => HelloOnce
    BY MeAssumption DEF Init, HelloOnce
  <2> QED
    BY <2>1, <2>2 DEF InitBoth
<1>2. NoStream /\ HelloOnce /\ [NextBoth]_all => NoStream' /\ HelloOnce'
  <2>1. UNCHANGED all /\ NoStream /\ HelloOnce => NoStream' /\ HelloOnce'
    BY DEF all, adapter, server, vars, NoStream, HelloOnce
  <2> QED
    BY <2>1, AdapterKeeps, HelloKeeps
<1>3. NoStream /\ HelloOnce => NoSession
  BY DEF NoStream, HelloOnce, NoSession
<1> QED
  BY <1>1, <1>2, <1>3, PTL DEF SpecBoth
-----------------------------------------------------------------------------
(* While the client of a connection is there its handler stays and reads,  *)
(* and so the adapter and its handler wait for each other (Connect in      *)
(* TcpAdapter, HandleConnection).                                          *)
THEOREM EachWaitsForTheOther == SpecBoth => []MutualWait
<1>1. OwnDescriptor /\ StaysInv => MutualWait
  <2> SUFFICES ASSUME OwnDescriptor, StaysInv, client[Me] = "open", Running,
                      NEW h \in DOMAIN handlers, handlers[h].conn = Me
               PROVE  handlers[h].at \in {"enter", "read"} /\ open(h) = Me
    BY DEF MutualWait
  <2>1. handlers[h].at \in {"enter", "read"}
    BY DEF StaysInv
  <2> QED
    BY <2>1 DEF OwnDescriptor, Live
<1> QED
  BY <1>1, ServerIsImplemented, DescriptorsAreOwned, StaysAlways, PTL
=============================================================================
