------------------------- MODULE BananaServerProofs -------------------------
(***************************************************************************)
(* Proofs about BananaServer: who holds which descriptor, for any number   *)
(* of clients, descriptors and threads.                                    *)
(***************************************************************************)
EXTENDS BananaServer, TLAPS

HandlerType ==
  [fd : Descriptors, at : {"enter", "read", "close", "returned"}, conn : Clients]

(* The types of what the server holds.  Of the network only the clients'   *)
(* names in the backlog matter here.                                       *)
ServerType ==
  /\ main \in {"listen", "accept", "spawn", "failed", "exited", "terminated"}
  /\ handlers \in Seq(HandlerType)
  /\ table \in [Descriptors -> Clients \cup {NoOne}]
  /\ backlog \in Seq(Clients)

(* What main has accepted and not given away yet is an open descriptor; so *)
(* when it makes a handler for it the connection is known.                 *)
InHand ==
  main = "spawn" => client_sfd \in Descriptors /\ table[client_sfd] \in Clients

(* Before it listens the server has no handlers.                           *)
NoneYet == main = "listen" => handlers = <<>>

(* The invariant: each open descriptor has one holder, and the holder's    *)
(* descriptor is open for the holder's connection.                         *)
HoldersInv == ServerType /\ InHand /\ NoneYet /\ OwnDescriptor /\ NoDescriptorLost
-----------------------------------------------------------------------------
(* What a handler holds.                                                   *)
LEMMA HandlerFields ==
  ASSUME ServerType, NEW h \in DOMAIN handlers
  PROVE  /\ handlers[h].fd \in Descriptors /\ handlers[h].conn \in Clients
<1>1. handlers \in Seq(HandlerType) /\ handlers[h] \in HandlerType
  BY DEF ServerType
<1> QED
  BY <1>1 DEF HandlerType

(* A handler that moves keeps its descriptor and its connection, and all   *)
(* others stay as they are.                                                *)
LEMMA MovesHandler ==
  ASSUME ServerType, NEW h \in DOMAIN handlers, NEW from, NEW to,
         to \in {"read", "close", "returned"}, Moves(h, from, to)
  PROVE  /\ Running /\ handlers[h].at = from
         /\ handlers' \in Seq(HandlerType)
         /\ DOMAIN handlers' = DOMAIN handlers
         /\ \A g \in DOMAIN handlers :
              /\ handlers'[g].fd = handlers[g].fd /\ handlers'[g].conn = handlers[g].conn
              /\ handlers'[g].at = IF g = h THEN to ELSE handlers[g].at
<1>1. handlers \in Seq(HandlerType) /\ handlers[h] \in HandlerType
  BY DEF ServerType
<1>2. [handlers[h] EXCEPT !.at = to] \in HandlerType
  BY <1>1 DEF HandlerType
<1>3. handlers' = [handlers EXCEPT ![h] = [handlers[h] EXCEPT !.at = to]]
  BY DEF Moves
<1>4. handlers' \in Seq(HandlerType) /\ DOMAIN handlers' = DOMAIN handlers
  BY <1>1, <1>2, <1>3
<1> QED
  BY <1>1, <1>3, <1>4 DEF Moves, HandlerType

(* A live handler that moves on and stays live keeps the invariant.        *)
LEMMA StaysLive ==
  ASSUME HoldersInv, NEW h \in DOMAIN handlers, NEW from, NEW to,
         from # "returned", to \in {"read", "close"}, Moves(h, from, to),
         UNCHANGED <<main, client_sfd, table, backlog>>
  PROVE  HoldersInv'
<1>1. /\ Running /\ handlers[h].at = from
      /\ handlers' \in Seq(HandlerType)
      /\ DOMAIN handlers' = DOMAIN handlers
      /\ \A g \in DOMAIN handlers :
           /\ handlers'[g].fd = handlers[g].fd /\ handlers'[g].conn = handlers[g].conn
           /\ handlers'[g].at = IF g = h THEN to ELSE handlers[g].at
  BY MovesHandler DEF HoldersInv
<1>2. \A g \in DOMAIN handlers : Live(g)' <=> Live(g)
  BY <1>1 DEF Live
<1>3. ServerType' /\ InHand' /\ NoneYet'
  BY <1>1 DEF HoldersInv, ServerType, InHand, NoneYet, Running
<1>4. OwnDescriptor'
  BY <1>1, <1>2 DEF HoldersInv, OwnDescriptor, open, Running, Live
<1>5. NoDescriptorLost'
  BY <1>1, <1>2 DEF HoldersInv, NoDescriptorLost
<1> QED
  BY <1>3, <1>4, <1>5 DEF HoldersInv

(* Nothing the server holds changes.                                       *)
LEMMA HoldersKept ==
  ASSUME HoldersInv, UNCHANGED <<main, client_sfd, handlers, table>>,
         backlog' \in Seq(Clients)
  PROVE  HoldersInv'
  BY DEF HoldersInv, ServerType, InHand, NoneYet, OwnDescriptor, NoDescriptorLost,
         Running, Live, open

(* The end of the process.                                                 *)
LEMMA EndsKeeps ==
  ASSUME HoldersInv, NEW how \in {"failed", "exited", "terminated"}, Ends(how)
  PROVE  HoldersInv'
<1>1. /\ main' = how /\ handlers' = handlers /\ backlog' = <<>>
      /\ table' = [d \in Descriptors |-> NoOne]
  BY DEF Ends
<1>2. ServerType' /\ InHand' /\ NoneYet'
  BY <1>1 DEF HoldersInv, ServerType, InHand, NoneYet
<1>3. OwnDescriptor' /\ NoDescriptorLost'
  BY <1>1 DEF OwnDescriptor, NoDescriptorLost, Running
<1> QED
  BY <1>2, <1>3 DEF HoldersInv
-----------------------------------------------------------------------------
(* The steps of the main thread keep HoldersInv. *)
LEMMA MainKeeps ==
  ASSUME HoldersInv, Listen \/ Main \/ Interrupt PROVE HoldersInv'
<1>1. /\ handlers \in Seq(HandlerType) /\ table \in [Descriptors -> Clients \cup {NoOne}]
      /\ backlog \in Seq(Clients) /\ NoOne \notin Clients
  BY ServerAssumption DEF HoldersInv, ServerType
<1>2. CASE Listen
  <2>1. CASE main' = "accept" /\ UNCHANGED <<client_sfd, handlers, table, network>>
    <3>1. handlers = <<>> /\ main = "listen"
      BY <1>2 DEF HoldersInv, NoneYet, Listen
    <3>2. ServerType' /\ InHand' /\ NoneYet'
      BY <1>1, <2>1 DEF ServerType, InHand, NoneYet, network
    <3>3. OwnDescriptor' /\ NoDescriptorLost'
      BY <2>1, <3>1 DEF HoldersInv, OwnDescriptor, NoDescriptorLost
    <3> QED
      BY <3>2, <3>3 DEF HoldersInv
  <2> QED
    BY <1>2, <2>1, EndsKeeps DEF Listen
<1>3. CASE Accept
  <2>1. PICK d \in Free : Accepted(d)
    BY <1>3 DEF Accept
  <2>2. main = "accept" /\ backlog # <<>>
    BY <1>3 DEF Accept, MayAccept
  <2>3. /\ client_sfd' = d /\ main' = "spawn" /\ handlers' = handlers
        /\ table' = [table EXCEPT ![d] = Head(backlog)] /\ backlog' = Tail(backlog)
    BY <2>1 DEF Accepted
  <2>4. d \in Descriptors /\ table[d] = NoOne
    BY <2>1 DEF Free
  <2>5. Head(backlog) \in Clients /\ Tail(backlog) \in Seq(Clients)
    BY <1>1, <2>2
  <2>6. ServerType' /\ InHand' /\ NoneYet'
    BY <1>1, <2>3, <2>4, <2>5 DEF ServerType, InHand, NoneYet
  <2>7. \A h \in DOMAIN handlers : Live(h) =>
          handlers[h].fd # d /\ handlers[h].fd \in Descriptors /\ open(h)' = open(h)
    <3>1. \A h \in DOMAIN handlers : Live(h) =>
            table[handlers[h].fd] \in Clients /\ handlers[h].fd \in Descriptors
      BY <2>2, HandlerFields DEF HoldersInv, OwnDescriptor, Running, open
    <3> QED
      BY <1>1, <2>3, <2>4, <3>1 DEF open
  <2>8. OwnDescriptor'
    BY <2>2, <2>3, <2>7 DEF HoldersInv, OwnDescriptor, Running, Live
  <2>9. NoDescriptorLost'
    BY <1>1, <2>2, <2>3, <2>4 DEF HoldersInv, NoDescriptorLost, Live
  <2> QED
    BY <2>6, <2>8, <2>9 DEF HoldersInv
<1>4. CASE AcceptFails
  <2>1. Tail(backlog) \in Seq(Clients)
    BY <1>1, <1>4 DEF AcceptFails, MayAccept
  <2> QED
    BY <1>4, <2>1, HoldersKept DEF AcceptFails
<1>5. CASE Spawn
  <2>1. main = "spawn"
    BY <1>5 DEF Spawn
  <2>2. CASE Ends("terminated")
    BY <2>2, EndsKeeps
  <2>3. CASE /\ handlers' = Append(handlers, [fd |-> client_sfd, at |-> "enter",
                                              conn |-> table[client_sfd]])
             /\ main' = "accept" /\ UNCHANGED <<client_sfd, table, network>>
    <3> DEFINE new == [fd |-> client_sfd, at |-> "enter", conn |-> table[client_sfd]]
    <3>1. client_sfd \in Descriptors /\ table[client_sfd] \in Clients
      BY <2>1 DEF HoldersInv, InHand
    <3>2. new \in HandlerType
      BY <3>1 DEF HandlerType
    <3>3. new.fd = client_sfd /\ new.at = "enter" /\ new.conn = table[client_sfd]
      OBVIOUS
    <3> HIDE DEF new
    <3>4. /\ handlers' \in Seq(HandlerType)
          /\ DOMAIN handlers' = DOMAIN handlers \cup {Len(handlers) + 1}
          /\ Len(handlers) + 1 \notin DOMAIN handlers
          /\ \A h \in DOMAIN handlers : handlers'[h] = handlers[h]
          /\ handlers'[Len(handlers) + 1] = new
      BY <1>1, <2>3, <3>2 DEF new
    <3>5. \A h \in DOMAIN handlers : Live(h)' = Live(h) /\ open(h)' = open(h)
      BY <2>3, <3>4 DEF Live, open
    <3>6. ServerType' /\ InHand' /\ NoneYet'
      BY <1>1, <2>3, <3>4 DEF ServerType, InHand, NoneYet, network
    <3>7. \A h \in DOMAIN handlers : Live(h) => handlers[h].fd # client_sfd
      BY <2>1 DEF HoldersInv, OwnDescriptor, Running
    <3>8. OwnDescriptor'
      BY <2>1, <2>3, <3>3, <3>4, <3>5, <3>7
      DEF HoldersInv, OwnDescriptor, Running, open
    <3>9. NoDescriptorLost'
      <4>1. PICK n \in DOMAIN handlers' : n = Len(handlers) + 1
        BY <3>4
      <4>2. Live(n)' /\ handlers'[n].fd = client_sfd
        BY <3>3, <3>4, <4>1 DEF Live
      <4>3. SUFFICES ASSUME NEW d \in Descriptors, table[d] # NoOne
                     PROVE  \E g \in DOMAIN handlers' : Live(g)' /\ handlers'[g].fd = d
        BY <2>3 DEF NoDescriptorLost, network
      <4>4. d = client_sfd \/ \E g \in DOMAIN handlers : Live(g) /\ handlers[g].fd = d
        BY <2>1, <4>3 DEF HoldersInv, NoDescriptorLost
      <4> QED
        BY <3>4, <3>5, <4>1, <4>2, <4>4
    <3> QED
      BY <3>6, <3>8, <3>9 DEF HoldersInv
  <2> QED
    BY <1>5, <2>2, <2>3 DEF Spawn
<1>6. CASE Interrupt
  BY <1>6, EndsKeeps DEF Interrupt
<1> QED
  BY <1>2, <1>3, <1>4, <1>5, <1>6 DEF Main

(* The steps of the handlers keep HoldersInv. *)
LEMMA HandleKeeps ==
  ASSUME HoldersInv, NEW h \in DOMAIN handlers, HandleConnection(h) PROVE HoldersInv'
<1>1. ServerType
  BY DEF HoldersInv
<1>2. CASE SetBlocking(h)
  <2>1. Running /\ Live(h)
    BY <1>2 DEF SetBlocking, Moves, Live
  <2>2. handlers[h].conn \in Clients
    BY <1>1, HandlerFields
  <2>3. open(h) # NoOne
    BY <2>1, <2>2, ServerAssumption DEF HoldersInv, OwnDescriptor
  <2>4. /\ Moves(h, "enter", "read")
        /\ UNCHANGED <<main, client_sfd, table, backlog>>
    BY <1>2, <2>3 DEF SetBlocking, network
  <2> QED
    BY <2>4, StaysLive
<1>3. CASE ReadData(h)
  BY <1>3, StaysLive DEF ReadData
<1>4. CASE ReadEnd(h) \/ ReadError(h)
  BY <1>4, StaysLive DEF ReadEnd, ReadError, network
<1>5. CASE Close(h)
  <2>1. /\ Moves(h, "close", "returned")
        /\ table' = [table EXCEPT ![handlers[h].fd] = NoOne]
        /\ UNCHANGED <<main, client_sfd, backlog>>
    BY <1>5 DEF Close, network
  <2>2. /\ Running /\ Live(h)
        /\ handlers' \in Seq(HandlerType)
        /\ DOMAIN handlers' = DOMAIN handlers
        /\ \A g \in DOMAIN handlers :
             /\ handlers'[g].fd = handlers[g].fd
             /\ handlers'[g].conn = handlers[g].conn
             /\ Live(g)' <=> Live(g) /\ g # h
    BY <1>1, <2>1, MovesHandler DEF Live
  <2>3. /\ handlers[h].fd \in Descriptors
        /\ table \in [Descriptors -> Clients \cup {NoOne}]
        /\ \A g \in DOMAIN handlers : handlers[g].fd \in Descriptors
    BY <1>1, HandlerFields DEF ServerType
  <2>4. /\ main = "spawn" => client_sfd # handlers[h].fd
        /\ \A g \in DOMAIN handlers :
             Live(g) /\ g # h => handlers[g].fd # handlers[h].fd
    BY <2>2 DEF HoldersInv, OwnDescriptor
  <2>5. \A d \in Descriptors : d # handlers[h].fd => table'[d] = table[d]
    BY <2>1, <2>3
  <2>6. ServerType' /\ InHand' /\ NoneYet'
    BY <1>1, <2>1, <2>2, <2>3, <2>4, <2>5
    DEF HoldersInv, ServerType, InHand, NoneYet, Running
  <2>7. OwnDescriptor'
    BY <2>1, <2>2, <2>3, <2>4, <2>5 DEF HoldersInv, OwnDescriptor, Running, open
  <2>8. NoDescriptorLost'
    BY <2>1, <2>2, <2>3, <2>4, <2>5 DEF HoldersInv, NoDescriptorLost
  <2> QED
    BY <2>6, <2>7, <2>8 DEF HoldersInv
<1> QED
  BY <1>2, <1>3, <1>4, <1>5 DEF HandleConnection

(* HoldersInv holds in every reachable state. *)
LEMMA HoldersAlways == Spec => []HoldersInv
<1>1. Init => HoldersInv
  <2> SUFFICES ASSUME Init PROVE HoldersInv
    OBVIOUS
  <2>1. ServerType /\ InHand /\ NoneYet
    BY DEF Init, ServerType, InHand, NoneYet
  <2>2. OwnDescriptor /\ NoDescriptorLost
    BY DEF Init, OwnDescriptor, NoDescriptorLost, Running
  <2> QED
    BY <2>1, <2>2 DEF HoldersInv
<1>2. HoldersInv /\ [Next]_vars => HoldersInv'
  <2> SUFFICES ASSUME HoldersInv, [Next]_vars PROVE HoldersInv'
    OBVIOUS
  <2>1. backlog \in Seq(Clients)
    BY DEF HoldersInv, ServerType
  <2>2. CASE Handle
    BY <2>2, HandleKeeps DEF Handle
  <2>3. ASSUME NEW c \in Clients, Connect(c) \/ Write(c) \/ Disconnect(c)
        PROVE  HoldersInv'
    <3>1. backlog' \in Seq(Clients) /\ UNCHANGED <<main, client_sfd, handlers, table>>
      BY <2>1, <2>3 DEF Connect, Write, Disconnect
    <3> QED
      BY <3>1, HoldersKept
  <2>4. CASE UNCHANGED vars
    BY <2>1, <2>4, HoldersKept DEF vars
  <2> QED
    BY <2>2, <2>3, <2>4, MainKeeps DEF Next, Client
<1> QED
  BY <1>1, <1>2, PTL DEF Spec

(* Until it returns, a handler's descriptor is open for the connection it  *)
(* was made for and held by nobody else, although numbers are given out    *)
(* again as soon as they are closed (HandleConnection, main).              *)
THEOREM DescriptorsAreOwned == Spec => []OwnDescriptor
<1>1. HoldersInv => OwnDescriptor
  BY DEF HoldersInv
<1> QED
  BY <1>1, HoldersAlways, PTL

(* Every open descriptor is in the hands of main or of a handler that will *)
(* close it: none leaks, whatever fails (HandleConnection, main).          *)
THEOREM DescriptorsAreKept == Spec => []NoDescriptorLost
<1>1. HoldersInv => NoDescriptorLost
  BY DEF HoldersInv
<1> QED
  BY <1>1, HoldersAlways, PTL
-----------------------------------------------------------------------------
(* A connection is a client's that connected, wherever the server has it.  *)
Known(c) == c \in Clients /\ client[c] # "new"

(* A handler goes on while the client of its connection is there.          *)
StaysInv ==
  /\ client \in [Clients -> {"new", "open", "closed", "reset"}]
  /\ \A i \in DOMAIN backlog : Known(backlog[i])
  /\ \A d \in Descriptors : table[d] # NoOne => Known(table[d])
  /\ \A h \in DOMAIN handlers :
       /\ Known(handlers[h].conn)
       /\ client[handlers[h].conn] = "open" => handlers[h].at \in {"enter", "read"}

(* The steps of the main thread keep StaysInv. *)
LEMMA MainStays ==
  ASSUME HoldersInv, StaysInv, Listen \/ Main \/ Interrupt PROVE StaysInv'
<1>1. /\ handlers \in Seq(HandlerType) /\ table \in [Descriptors -> Clients \cup {NoOne}]
      /\ backlog \in Seq(Clients) /\ NoOne \notin Clients
  BY ServerAssumption DEF HoldersInv, ServerType
<1>2. client' = client
  BY DEF Listen, Main, Accept, Accepted, AcceptFails, Spawn, Interrupt, Ends, network
<1>3. ASSUME NEW how, Ends(how) PROVE StaysInv'
  BY <1>2, <1>3 DEF Ends, StaysInv, Known
<1>4. CASE Listen \/ Interrupt
  BY <1>2, <1>3, <1>4 DEF Listen, Interrupt, network, StaysInv, Known
<1>5. CASE Accept
  <2>1. PICK d \in Free : Accepted(d)
    BY <1>5 DEF Accept
  <2>2. backlog # <<>> /\ handlers' = handlers /\ backlog' = Tail(backlog)
        /\ table' = [table EXCEPT ![d] = Head(backlog)]
    BY <1>5, <2>1 DEF Accept, MayAccept, Accepted
  <2>3. Known(Head(backlog)) /\ \A i \in DOMAIN backlog' : Known(backlog'[i])
    <3>1. /\ Len(backlog) \in Nat \ {0} /\ Head(backlog) = backlog[1]
          /\ Len(backlog') = Len(backlog) - 1
          /\ \A i \in 1 .. Len(backlog') : backlog'[i] = backlog[i + 1]
      BY <1>1, <2>2
    <3>2. DOMAIN backlog = 1 .. Len(backlog) /\ DOMAIN backlog' = 1 .. Len(backlog')
      BY <1>1, <2>2
    <3> QED
      BY <3>1, <3>2 DEF StaysInv
  <2> QED
    BY <1>1, <1>2, <2>2, <2>3 DEF StaysInv, Known
<1>6. CASE AcceptFails
  <2>1. backlog # <<>> /\ backlog' = Tail(backlog) /\ UNCHANGED <<handlers, table>>
    BY <1>6 DEF AcceptFails, MayAccept
  <2>2. \A i \in DOMAIN backlog' : Known(backlog'[i])
    <3>1. /\ Len(backlog) \in Nat \ {0} /\ Len(backlog') = Len(backlog) - 1
          /\ \A i \in 1 .. Len(backlog') : backlog'[i] = backlog[i + 1]
      BY <1>1, <2>1
    <3>2. DOMAIN backlog = 1 .. Len(backlog) /\ DOMAIN backlog' = 1 .. Len(backlog')
      BY <1>1, <2>1
    <3> QED
      BY <3>1, <3>2 DEF StaysInv
  <2> QED
    BY <1>2, <2>1, <2>2 DEF StaysInv, Known
<1>7. CASE Spawn
  <2>1. CASE /\ handlers' = Append(handlers, [fd |-> client_sfd, at |-> "enter",
                                              conn |-> table[client_sfd]])
             /\ UNCHANGED <<table, network>>
    <3> DEFINE new == [fd |-> client_sfd, at |-> "enter", conn |-> table[client_sfd]]
    <3>1. client_sfd \in Descriptors /\ table[client_sfd] \in Clients
      BY <1>7 DEF HoldersInv, InHand, Spawn
    <3>2. new \in HandlerType /\ Known(new.conn) /\ new.at = "enter"
      BY <1>1, <3>1 DEF HandlerType, StaysInv
    <3> HIDE DEF new
    <3>3. /\ DOMAIN handlers' = DOMAIN handlers \cup {Len(handlers) + 1}
          /\ \A h \in DOMAIN handlers : handlers'[h] = handlers[h]
          /\ handlers'[Len(handlers) + 1] = new
      BY <1>1, <2>1, <3>2 DEF new
    <3> QED
      BY <1>2, <2>1, <3>2, <3>3 DEF StaysInv, Known, network
  <2> QED
    BY <1>3, <1>7, <2>1 DEF Spawn
<1> QED
  BY <1>4, <1>5, <1>6, <1>7 DEF Main

(* The steps of the handlers keep StaysInv. *)
LEMMA HandleStays ==
  ASSUME HoldersInv, StaysInv, NEW h \in DOMAIN handlers, HandleConnection(h)
  PROVE  StaysInv'
<1>1. ServerType /\ UNCHANGED <<client, backlog>>
  BY DEF HoldersInv, HandleConnection, SetBlocking, ReadData, ReadEnd, ReadError, Close,
         network
<1>2. Running => (handlers[h].at # "returned" => open(h) = handlers[h].conn)
  BY DEF HoldersInv, OwnDescriptor, Live
<1>3. NoOne \notin Clients
  BY ServerAssumption
<1>4. PICK from \in {"enter", "read", "close"}, to \in {"read", "close", "returned"} :
        /\ Moves(h, from, to)
        /\ client[handlers[h].conn] = "open" => to = "read"
        /\ table' = table \/ table' = [table EXCEPT ![handlers[h].fd] = NoOne]
  <2>1. Known(handlers[h].conn)
    BY DEF StaysInv
  <2>2. CASE SetBlocking(h)
    <3>1. open(h) # NoOne
      BY <1>2, <1>3, <2>1, <2>2 DEF SetBlocking, Moves, Known
    <3>2. Moves(h, "enter", "read") /\ table' = table
      BY <2>2, <3>1 DEF SetBlocking, network
    <3> QED
      BY <3>2
  <2>3. CASE ReadData(h)
    BY <2>3 DEF ReadData
  <2>4. CASE ReadEnd(h)
    <3>1. client[handlers[h].conn] = "closed"
      BY <1>2, <2>4 DEF ReadEnd, Moves
    <3> QED
      BY <2>4, <3>1 DEF ReadEnd
  <2>5. CASE ReadError(h)
    <3>1. client[handlers[h].conn] = "reset"
      BY <1>2, <1>3, <2>1, <2>5 DEF ReadError, Moves, Known
    <3> QED
      BY <2>5, <3>1 DEF ReadError
  <2>6. CASE Close(h)
    <3>1. handlers[h].at = "close"
      BY <2>6 DEF Close, Moves
    <3>2. client[handlers[h].conn] # "open"
      BY <3>1 DEF StaysInv
    <3> QED
      BY <2>6, <3>2 DEF Close
  <2> QED
    BY <2>2, <2>3, <2>4, <2>5, <2>6 DEF HandleConnection
<1>5. /\ DOMAIN handlers' = DOMAIN handlers
      /\ \A g \in DOMAIN handlers :
           /\ handlers'[g].conn = handlers[g].conn
           /\ handlers'[g].at = IF g = h THEN to ELSE handlers[g].at
  BY <1>1, <1>4, MovesHandler
<1>6. \A d \in Descriptors : table'[d] # NoOne => table'[d] = table[d]
  BY <1>1, <1>4 DEF ServerType
<1> QED
  BY <1>1, <1>4, <1>5, <1>6 DEF StaysInv, Known

(* The steps of the clients keep StaysInv. *)
LEMMA ClientStays ==
  ASSUME HoldersInv, StaysInv, NEW c \in Clients, Connect(c) \/ Write(c) \/ Disconnect(c)
  PROVE  StaysInv'
<1>1. UNCHANGED <<handlers, table>> /\ backlog \in Seq(Clients)
  BY DEF HoldersInv, ServerType, Connect, Write, Disconnect
<1>2. CASE Connect(c)
  <2>1. client[c] = "new" /\ client' = [client EXCEPT ![c] = "open"]
        /\ backlog' = Append(backlog, c)
    BY <1>2 DEF Connect
  <2>2. \A e \in Clients : Known(e) => e # c /\ client'[e] = client[e]
    BY <2>1 DEF Known, StaysInv
  <2>3. Known(c)' /\ \A e : Known(e) => Known(e)'
    BY <2>1, <2>2 DEF Known, StaysInv
  <2>4. \A i \in DOMAIN backlog' : backlog'[i] = c \/ (i \in DOMAIN backlog /\ backlog'[i] = backlog[i])
    BY <1>1, <2>1
  <2>5. \A h \in DOMAIN handlers : client'[handlers[h].conn] = client[handlers[h].conn]
    BY <2>2 DEF StaysInv, Known
  <2> QED
    BY <1>1, <2>1, <2>3, <2>4, <2>5 DEF StaysInv
<1>3. CASE Write(c)
  BY <1>1, <1>3 DEF Write, StaysInv, Known
<1>4. CASE Disconnect(c)
  <2>1. PICK how \in {"closed", "reset"} : client' = [client EXCEPT ![c] = how]
    BY <1>4 DEF Disconnect
  <2>2. \A e : Known(e) => Known(e)'
    BY <2>1 DEF Known, StaysInv
  <2>3. backlog' = backlog
    BY <1>4 DEF Disconnect
  <2>4. \A e \in Clients : client'[e] = "open" => client[e] = "open"
    BY <2>1 DEF StaysInv
  <2> QED
    BY <1>1, <2>1, <2>2, <2>3, <2>4 DEF StaysInv, Known
<1> QED
  BY <1>2, <1>3, <1>4

(* StaysInv holds in every reachable state. *)
LEMMA StaysAlways == Spec => []StaysInv
<1>1. Init => StaysInv
  BY DEF Init, StaysInv
<1>2. HoldersInv /\ StaysInv /\ [Next]_vars => StaysInv'
  <2>1. HoldersInv /\ StaysInv /\ UNCHANGED vars => StaysInv'
    BY DEF vars, StaysInv, Known
  <2> QED
    BY <2>1, MainStays, HandleStays, ClientStays DEF Next, Handle, Client
<1> QED
  BY <1>1, <1>2, HoldersAlways, PTL DEF Spec
-----------------------------------------------------------------------------
(* A handler that is about to close what its client has closed has read    *)
(* it to the end.                                                          *)
ReadToEnd ==
  \A h \in DOMAIN handlers :
    handlers[h].at = "close" /\ client[handlers[h].conn] = "closed"
      => unread[handlers[h].conn] = 0

LastInv == unread \in [Clients -> Nat] /\ ReadToEnd

(* The main thread makes handlers that have not read yet.                  *)
LEMMA MainReadsNothing ==
  ASSUME HoldersInv, LastInv, Listen \/ Main \/ Interrupt PROVE LastInv'
<1>1. UNCHANGED <<client, unread>>
  BY DEF Listen, Main, Accept, Accepted, AcceptFails, Spawn, Interrupt, Ends, network
<1>2. \/ handlers' = handlers
      \/ \E x : x.at = "enter" /\ handlers' = Append(handlers, x)
  BY Zenon DEF Listen, Main, Accept, Accepted, AcceptFails, Spawn, Interrupt, Ends
<1>3. CASE handlers' = handlers
  BY <1>1, <1>3 DEF LastInv, ReadToEnd
<1>4. ASSUME NEW x, x.at = "enter", handlers' = Append(handlers, x) PROVE LastInv'
  <2>1. handlers \in Seq(HandlerType)
    BY DEF HoldersInv, ServerType
  <2>2. \A h \in DOMAIN handlers' :
          \/ handlers'[h] = x
          \/ h \in DOMAIN handlers /\ handlers'[h] = handlers[h]
    BY <1>4, <2>1
  <2> QED
    BY <1>1, <1>4, <2>2 DEF LastInv, ReadToEnd
<1> QED
  BY <1>2, <1>3, <1>4

(* A handler ends its loop where there is nothing more to read, or where   *)
(* the connection was cut off.                                             *)
LEMMA HandleReadsAll ==
  ASSUME HoldersInv, StaysInv, LastInv, NEW h \in DOMAIN handlers, HandleConnection(h)
  PROVE  LastInv'
<1>1. ServerType /\ client' = client /\ NoOne \notin Clients
  BY ServerAssumption
     DEF HoldersInv, HandleConnection, SetBlocking, ReadData, ReadEnd, ReadError, Close,
         network
<1>2. Running /\ Live(h) => open(h) = handlers[h].conn
  BY DEF HoldersInv, OwnDescriptor
<1>3. handlers[h].conn \in Clients
  BY <1>1, HandlerFields
<1>4. PICK from \in {"enter", "read", "close"}, to \in {"read", "close", "returned"} :
        /\ Moves(h, from, to)
        /\ to = "close" /\ client[handlers[h].conn] = "closed"
             => unread[handlers[h].conn] = 0
  <2>1. CASE SetBlocking(h)
    <3>1. PICK to \in {"read", "returned"} : Moves(h, "enter", to)
      BY <2>1 DEF SetBlocking
    <3> QED
      BY <3>1
  <2>2. CASE ReadData(h)
    BY <2>2 DEF ReadData
  <2>3. CASE ReadEnd(h)
    <3>1. unread[handlers[h].conn] = 0
      BY <1>2, <2>3 DEF ReadEnd, Moves, Live
    <3> QED
      BY <2>3, <3>1 DEF ReadEnd
  <2>4. CASE ReadError(h)
    <3>1. client[handlers[h].conn] = "reset"
      BY <1>1, <1>2, <1>3, <2>4 DEF ReadError, Moves, Live
    <3> QED
      BY <2>4, <3>1 DEF ReadError
  <2>5. CASE Close(h)
    BY <2>5 DEF Close
  <2> QED
    BY <2>1, <2>2, <2>3, <2>4, <2>5 DEF HandleConnection
<1>5. /\ DOMAIN handlers' = DOMAIN handlers
      /\ \A g \in DOMAIN handlers :
           /\ handlers'[g].conn = handlers[g].conn
           /\ handlers'[g].at = IF g = h THEN to ELSE handlers[g].at
  BY <1>1, <1>4, MovesHandler
<1>6. unread' \in [Clients -> Nat] /\ \A c \in Clients : unread[c] = 0 => unread'[c] = 0
  <2>1. CASE unread' = unread
    BY <2>1 DEF LastInv
  <2>2. CASE ReadData(h)
    <3>1. PICK n \in 1 .. unread[open(h)] : unread' = [unread EXCEPT ![open(h)] = @ - n]
      BY <2>2 DEF ReadData
    <3>2. open(h) \in Clients /\ unread[open(h)] \in Nat
      BY <2>2 DEF ReadData, LastInv
    <3>3. unread[open(h)] - n \in Nat /\ unread[open(h)] # 0
      BY <3>2
    <3> QED
      BY <3>1, <3>2, <3>3 DEF LastInv
  <2> QED
    BY <2>1, <2>2 DEF HandleConnection, SetBlocking, ReadEnd, ReadError, Close, network
<1>7. \A g \in DOMAIN handlers : handlers[g].conn \in Clients
  BY <1>1, HandlerFields
<1> QED
  BY <1>1, <1>4, <1>5, <1>6, <1>7 DEF LastInv, ReadToEnd

(* A client writes only while it is open, and then its handler reads on.   *)
LEMMA ClientIsRead ==
  ASSUME HoldersInv, StaysInv, LastInv, NEW c \in Clients,
         Connect(c) \/ Write(c) \/ Disconnect(c)
  PROVE  LastInv'
<1>1. handlers' = handlers /\ \A g \in DOMAIN handlers : handlers[g].conn \in Clients
  BY HandlerFields DEF HoldersInv, Connect, Write, Disconnect
<1>2. client \in [Clients -> {"new", "open", "closed", "reset"}]
  BY DEF StaysInv
<1>3. /\ unread' \in [Clients -> Nat]
      /\ \A e \in Clients : e # c => unread'[e] = unread[e] /\ client'[e] = client[e]
  BY <1>2 DEF LastInv, Connect, Write, Disconnect
<1>4. ASSUME NEW g \in DOMAIN handlers, handlers[g].at = "close", handlers[g].conn = c
      PROVE  client[c] \notin {"new", "open"}
  BY <1>4 DEF StaysInv, Known
<1>5. client[c] \in {"new", "open"}
  BY DEF Connect, Write, Disconnect
<1> QED
  BY <1>1, <1>3, <1>4, <1>5 DEF LastInv, ReadToEnd

(* What a client wrote before it closed is read before its connection is   *)
(* closed at this end (HandleConnection).                                  *)
THEOREM AllThatIsWrittenIsRead == Spec => WrittenIsRead
<1>1. Init => LastInv
  BY DEF Init, LastInv, ReadToEnd
<1>2. HoldersInv /\ StaysInv /\ LastInv /\ [Next]_vars => LastInv'
  <2>1. LastInv /\ UNCHANGED vars => LastInv'
    BY DEF vars, LastInv, ReadToEnd
  <2> QED
    BY <2>1, MainReadsNothing, HandleReadsAll, ClientIsRead DEF Next, Handle, Client
<1>3. LastInv /\ [Next]_vars =>
        [\A h \in DOMAIN handlers :
           Close(h) /\ client[handlers[h].conn] = "closed"
             => unread[handlers[h].conn] = 0]_vars
  BY DEF LastInv, ReadToEnd, Close, Moves
<1> QED
  BY <1>1, <1>2, <1>3, HoldersAlways, StaysAlways, PTL DEF Spec, WrittenIsRead
=============================================================================
