---------------------------- MODULE BananaServer ----------------------------
(***************************************************************************)
(* banana_server.cpp: a thread that accepts connections, and one thread    *)
(* per connection that reads it until it ends, together with the kernel's  *)
(* descriptor table and backlog as the code uses them, and the clients:    *)
(* testing_client.cpp, which connects, writes and closes, and any other,   *)
(* which may do so in its own time, write again or be cut off.             *)
(*                                                                         *)
(* A client makes one connection, and is named for it.  What it writes is  *)
(* counted, not looked at: the server prints it and no more.               *)
(***************************************************************************)
EXTENDS Naturals, Sequences, FiniteSets

CONSTANTS
  Clients,
  Descriptors,   (* the descriptors left to connections, numbers            *)
  Backlog,       (* of listen: 100                                          *)
  ThreadLimit,   (* the threads the process can create without joining any  *)
  MaxWrites,     (* bound on the writes of a client                         *)
  NoOne

ASSUME ServerAssumption ==
  /\ Descriptors \subseteq Nat /\ Descriptors # {} /\ IsFiniteSet(Descriptors)
  /\ Backlog \in Nat /\ ThreadLimit \in Nat /\ MaxWrites \in Nat
  /\ NoOne \notin Clients

VARIABLES
  main,        (* where the main thread is, or how the process ended          *)
  client_sfd,  (* the descriptor it has accepted and not yet given away       *)
  handlers,    (* connectionHandlers: of each its descriptor, where it is and *)
               (* (history) the connection it was made for                    *)
  table,       (* descriptor -> the connection it is open for                 *)
  backlog,     (* connections waiting to be accepted                          *)
  client,      (* "new", "open", "closed" or "reset", as the client made it   *)
  unread       (* writes of each client that the server has not read          *)

vars == <<main, client_sfd, handlers, table, backlog, client, unread>>
network == <<backlog, client, unread>>

Running == main \in {"accept", "spawn"}
Free == {d \in Descriptors : table[d] = NoOne}

Init ==
  /\ main = "listen" /\ client_sfd = 0 /\ handlers = <<>>
  /\ table = [d \in Descriptors |-> NoOne]
  /\ backlog = <<>>
  /\ client = [c \in Clients |-> "new"] /\ unread = [c \in Clients |-> 0]
-----------------------------------------------------------------------------
(***************************************************************************)
(* main.  However the process ends, the kernel closes what it had open.    *)
(***************************************************************************)
Ends(how) ==
  /\ main' = how
  /\ table' = [d \in Descriptors |-> NoOne] /\ backlog' = <<>>
  /\ UNCHANGED <<client_sfd, handlers, client, unread>>

(* socket, bind and listen, any of which may fail. *)
Listen ==
  /\ main = "listen"
  /\ \/ main' = "accept" /\ UNCHANGED <<client_sfd, handlers, table, network>>
     \/ Ends("failed")

(* Mutant: main waits for the handlers it has before it accepts another.   *)
MayAcceptOneByOne ==
  /\ main = "accept" /\ backlog # <<>> /\ Free # {}
  /\ \A h \in DOMAIN handlers : handlers[h].at = "returned"

(* accept waits for a connection.  Without a free descriptor it fails and  *)
(* leaves the connection where it is, and main just tries again.           *)
MayAccept == main = "accept" /\ backlog # <<>> /\ Free # {}

Accepted(d) ==
  /\ client_sfd' = d
  /\ table' = [table EXCEPT ![d] = Head(backlog)]
  /\ backlog' = Tail(backlog)
  /\ main' = "spawn"
  /\ UNCHANGED <<handlers, client, unread>>

(* The kernel gives out the lowest descriptor that is free.                *)
Accept ==
  /\ MayAccept
  /\ \E d \in Free : (\A e \in Free : d <= e) /\ Accepted(d)

(* accept is given an uninitialized socket_len; if that happens to be      *)
(* negative it fails with the connection already taken, and closes it.     *)
AcceptFails ==
  /\ MayAccept
  /\ backlog' = Tail(backlog)
  /\ UNCHANGED <<main, client_sfd, handlers, table, client, unread>>

(* std::thread throws when no thread can be created, which nobody catches. *)
Spawn ==
  /\ main = "spawn"
  /\ IF Len(handlers) < ThreadLimit
     THEN /\ handlers' = Append(handlers, [fd |-> client_sfd, at |-> "enter",
                                           conn |-> table[client_sfd]])
          /\ main' = "accept"
          /\ UNCHANGED <<client_sfd, table, network>>
     ELSE Ends("terminated")

(* SIGINT: the handler calls exit. *)
Interrupt == Running /\ Ends("exited")
-----------------------------------------------------------------------------
(***************************************************************************)
(* HandleConnection, in the thread of handler h.                           *)
(***************************************************************************)
Moves(h, from, to) ==
  /\ Running /\ handlers[h].at = from
  /\ handlers' = [handlers EXCEPT ![h].at = to]

open(h) == table[handlers[h].fd]    (* what its descriptor is open for *)

(* fcntl: fails for a descriptor that is not open, and the handler returns *)
(* without closing it.                                                     *)
SetBlocking(h) ==
  /\ Moves(h, "enter", IF open(h) # NoOne THEN "read" ELSE "returned")
  /\ UNCHANGED <<main, client_sfd, table, network>>

(* Mutant: the handler reads once and closes. *)
ReadOnce(h) ==
  /\ Moves(h, "read", "close") /\ open(h) \in Clients
  /\ client[open(h)] # "reset"
  /\ \E n \in 1 .. unread[open(h)] : unread' = [unread EXCEPT ![open(h)] = @ - n]
  /\ UNCHANGED <<main, client_sfd, table, backlog, client>>

(* read returns data, of one write or of several; it waits while there is  *)
(* none and the client may still write.                                    *)
ReadData(h) ==
  /\ Moves(h, "read", "read") /\ open(h) \in Clients
  /\ client[open(h)] # "reset"
  /\ \E n \in 1 .. unread[open(h)] : unread' = [unread EXCEPT ![open(h)] = @ - n]
  /\ UNCHANGED <<main, client_sfd, table, backlog, client>>

(* Mutant: the loop does not end at the end of the connection. *)
ReadEndReadsOn(h) ==
  /\ Moves(h, "read", "read") /\ open(h) \in Clients
  /\ client[open(h)] = "closed" /\ unread[open(h)] = 0
  /\ UNCHANGED <<main, client_sfd, table, network>>

(* read returns 0. *)
ReadEnd(h) ==
  /\ Moves(h, "read", "close") /\ open(h) \in Clients
  /\ client[open(h)] = "closed" /\ unread[open(h)] = 0
  /\ UNCHANGED <<main, client_sfd, table, network>>

(* Mutant: an error ends the loop without a close. *)
ReadErrorReturns(h) ==
  /\ Moves(h, "read", "returned")
  /\ open(h) = NoOne \/ client[open(h)] = "reset"
  /\ UNCHANGED <<main, client_sfd, table, network>>

(* read returns -1. *)
ReadError(h) ==
  /\ Moves(h, "read", "close")
  /\ open(h) = NoOne \/ client[open(h)] = "reset"
  /\ UNCHANGED <<main, client_sfd, table, network>>

(* Mutant: the loop goes on after the close. *)
CloseAndReadOn(h) ==
  /\ Moves(h, "close", "read")
  /\ table' = [table EXCEPT ![handlers[h].fd] = NoOne]
  /\ UNCHANGED <<main, client_sfd, network>>

Close(h) ==
  /\ Moves(h, "close", "returned")
  /\ table' = [table EXCEPT ![handlers[h].fd] = NoOne]
  /\ UNCHANGED <<main, client_sfd, network>>

HandleConnection(h) ==
  SetBlocking(h) \/ ReadData(h) \/ ReadEnd(h) \/ ReadError(h) \/ Close(h)
-----------------------------------------------------------------------------
(***************************************************************************)
(* The clients.                                                            *)
(***************************************************************************)
Connect(c) ==
  /\ Running /\ client[c] = "new" /\ Len(backlog) < Backlog
  /\ client' = [client EXCEPT ![c] = "open"]
  /\ backlog' = Append(backlog, c)
  /\ UNCHANGED <<main, client_sfd, handlers, table, unread>>

Write(c) ==
  /\ client[c] = "open" /\ unread[c] < MaxWrites
  /\ unread' = [unread EXCEPT ![c] = @ + 1]
  /\ UNCHANGED <<main, client_sfd, handlers, table, backlog, client>>

(* The client closes its end, or is cut off with what it wrote. *)
Disconnect(c) ==
  /\ client[c] = "open"
  /\ \E how \in {"closed", "reset"} :
       /\ client' = [client EXCEPT ![c] = how]
       /\ unread' = [unread EXCEPT ![c] = IF how = "reset" THEN 0 ELSE @]
  /\ UNCHANGED <<main, client_sfd, handlers, table, backlog>>

Main == Accept \/ AcceptFails \/ Spawn
Handle == \E h \in DOMAIN handlers : HandleConnection(h)
Client == \E c \in Clients : Connect(c) \/ Write(c) \/ Disconnect(c)

Next == Listen \/ Main \/ Interrupt \/ Handle \/ Client

Spec == Init /\ [][Next]_vars

(* The main thread and every handler are scheduled again and again.        *)
Fairness ==
  /\ WF_vars(Main)
  /\ \A h \in 1 .. ThreadLimit :
       WF_vars(h \in DOMAIN handlers /\ HandleConnection(h))

FairSpec == Spec /\ Fairness
-----------------------------------------------------------------------------
TypeOK ==
  /\ main \in {"listen", "accept", "spawn", "failed", "exited", "terminated"}
  /\ client_sfd \in Descriptors \cup {0}
  /\ handlers \in Seq([fd : Descriptors, at : {"enter", "read", "close", "returned"},
                       conn : Clients])
  /\ table \in [Descriptors -> Clients \cup {NoOne}]
  /\ backlog \in Seq(Clients)
  /\ client \in [Clients -> {"new", "open", "closed", "reset"}]
  /\ unread \in [Clients -> 0 .. MaxWrites]

Live(h) == handlers[h].at # "returned"

(* Descriptor numbers are used again as soon as they are closed, by a main *)
(* thread that knows nothing of the handlers.  All the same a handler's    *)
(* descriptor is, until it returns, the connection it was made for, and no *)
(* other handler's: it never reads or closes somebody else's.              *)
OwnDescriptor ==
  Running =>
    \A h \in DOMAIN handlers : Live(h) =>
      /\ open(h) = handlers[h].conn
      /\ main = "spawn" => client_sfd # handlers[h].fd
      /\ \A g \in DOMAIN handlers :
           Live(g) /\ handlers[g].fd = handlers[h].fd => g = h

(* No descriptor is lost: each one that is open is in the hands of main or *)
(* of a handler that has not returned.                                     *)
NoDescriptorLost ==
  \A d \in Descriptors : table[d] # NoOne =>
    \/ main = "spawn" /\ client_sfd = d
    \/ \E h \in DOMAIN handlers : Live(h) /\ handlers[h].fd = d

(* A connection the client ended is closed, unless the process ends first. *)
Closed(c) == \A d \in Descriptors : table[d] # c

EndedIsClosed ==
  \A c \in Clients : client[c] \in {"closed", "reset"} /\ ~ Closed(c) ~> Closed(c)

(* What a client wrote before it closed is read before the connection is   *)
(* closed at this end.                                                     *)
WrittenIsRead ==
  [][\A h \in DOMAIN handlers :
       Close(h) /\ client[handlers[h].conn] = "closed"
         => unread[handlers[h].conn] = 0]_vars

(* Nobody waits for ever to be accepted while descriptors come free again  *)
(* and again, however long the connections before it stay open.            *)
EveryoneAccepted ==
  []<>(Free # {} \/ ~ Running)
    => \A c \in Clients :
         (\E i \in DOMAIN backlog : backlog[i] = c)
           ~> ~ \E i \in DOMAIN backlog : backlog[i] = c
=============================================================================
