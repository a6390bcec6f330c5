# Verification of BananaApi

BananaApi is the beginning of a multiplayer service: a client library for Unity
in C# (`Unity/BananaClient`), its tests (`Unity/Tests`), and a game server in C++
(`GameServer/cpp/src`) with the serialization library it is to use.  This
directory holds TLA+ models of its parts, TLC configurations that check them on
small instances, and proofs checked by TLAPS that hold for every instance.
Paths below are relative to the repository's sources.

To repeat the work: `tlc -config <cfg> <MC module>` for each run listed under
"Runs", and `tlapm <module>` for each module whose name ends in `Proofs`.

## 1. Inventory

### The network adapter of the client: `TcpAdapter.cs`, `NetworkAdpater.cs`

State: the plain fields `running`, `error`, `networkStream`; two concurrent
queues; one *filler* per message type.  Operations: `Start`, `Stop`, `Send` and
`Receive`, called by threads of the application; `Sending`, the body of a thread
that connects (TCP, then TLS), takes requests from the queue, serializes and
writes them; `Receiving`, the body of a thread that waits for the connection,
reads a byte at a time, and queues the responses it assembles.

The parts interact through the shared fields and queues, with no lock.  Hard:
every interleaving of the callers and the two threads; a blocked read that only
the other thread's `finally` block ends; a check of `Send` that is stale when it
is used; a second `Start`, which fails halfway; an error in either thread that
has to end both; a connection lost at any byte.  It is correct if nothing is
lost, reordered or invented in either direction, the limits hold, an error is
never forgotten, and the threads end when they are told to.

### Messages of the client: `BananaMessage.cs`, `BytesUtils.cs`

`SerializationUtils` turns a request into bytes and the bytes of a response into
an object; an `IMessageBytesFiller` collects the bytes of one message, whose
length becomes known only as they come.  Hard: sizes at the edges of a buffer
and of the size limit, byte order, a second message for the same filler.

### The byte stream of the server: `CDataStream` in `serialize.h`

A vector of bytes with a read position, used both as a vector (insert, erase,
resize, rewind, compact) and as a stream (read, ignore, write), with an error
state that may or may not throw.  Hard: the special cases by which these calls
share one position.  It is correct if it behaves as a queue of bytes.

### Serialization templates of the server: `serialize.h`

Numbers, a compact size, strings, vectors, pairs, maps, sets, plain blocks
(`CFlatData`), strings in fields of a fixed length (`CFixedFieldString`) and
structures (`IMPLEMENT_SERIALIZE`), nested.  Hard: the boundaries of the compact
size, on which three functions have to agree; a stream that ends inside an
object; sizes, and repeated keys, that are not to be trusted.

### Files of the server: `CAutoFile` in `serialize.h`

A wrapper that owns a `FILE*`, closes it at the end of its life, and is a stream
for the templates.  State: the pointer, and the error state.  Hard: who has to
close the file after `release`, `operator=`, a copy, `fclose` and destruction; a
transfer that stops in the middle of an object; a `fclose` that fails.  It is
correct if a file is closed once and by its owner, and what was written is read.

### Typed values of broadcasts: `Token.cs`

`Token.Read` takes one typed value out of an array of bytes and returns the
offset of the next.  Hard: the boundaries of the values, for two tables (its own
and that of `BitConverter`) have to agree on them; bytes that are cut off.

### Client and server together

`TcpAdapter` opens a TLS session with a server; the server of the repository
reads, prints and never answers.  Hard: each end waits for the other, with a
thread and a descriptor at stake on either side, and both may end at any time.

### The server and its testing client: `banana_server.cpp`, `testing_client.cpp`

`main` accepts connections and starts a thread for each; `HandleConnection`
reads until the connection ends and closes it; SIGINT ends the process.  Hard:
descriptor numbers that are used again by other threads, errors on the way,
clients that do as they like, threads that are never joined.

### Not modelled

| Part | Why |
| --- | --- |
| `SocketUtils.cs` | Dead code, superseded by `TcpAdapter.Connect`.  One loop over addresses that ends in its first round: `Socket.Connect` throws when it fails, so later addresses are never tried and the socket is left open.  No state outlives the call. |
| `BananaClient.cs`, `BananaClientImpl.cs`, `Example.cs` | Interfaces, a class of empty methods, and an example of their use: no state, no behaviour. |
| `Append`, `AllocateArrayOfPrimitives` of `Token` | Reached only behind a lookup that always throws. |
| `operator&`, `operator FILE *`, `operator->` of `CAutoFile` | They hand out the pointer, or a pointer to it; what a user then does with it is the user's. |
| `secure_allocator` | Clears memory it gives back: no object changes. |
| `HexToBytes`, `ZeroOut` | Pure helpers of `BytesUtils` without a caller in the client. |
| `util.h`, `byteswap.h`, headers of the server | Formatting for an output that is never reached, platform shims, empty headers. |

`PROJECT.json` lists the hazards, each at its line with the properties meant to
catch it, or the reason why none does.

## 2. Modules

| Module | What it is |
| --- | --- |
| `FifoChannel` | Abstract: what one direction of an adapter promises. |
| `BytesFiller` | The filler as an operator: `Fill` takes a filler and a byte. |
| `TcpAdapter` | The adapter: callers, both threads, the network, the server's end. |
| `MessageCodec` | `SerializeRequest`, fillers and `DeserializeResponse` at the sizes of the code. |
| `ByteQueue` | Abstract: what a `CDataStream` promises. |
| `DataStream` | `CDataStream`, one action per call. |
| `CompactSize` | Numbers and compact sizes, written and read: what `Serialization` is built from. |
| `Serialization` | The templates of all types, and a stream that objects go into and come out of. |
| `Token` | `Token.Read` as an operator; `MessageCodec` calls it. |
| `AutoFile` | `CAutoFile`, the files of the C library, and a user who hands them over. |
| `BananaServer` | The server, the kernel's tables as far as it uses them, the clients. |
| `ClientServer` | The composition: `BananaServer`, one of whose clients is a `TcpAdapter`. |
| `MC...` | The constants of the runs, and what the `claim_` runs ask. |
| `...Proofs` | Theorems about the module of that name. |

`TcpAdapter` and `MessageCodec` both extend `BytesFiller`; `TcpAdapter`
instantiates `FifoChannel` twice and `DataStream` instantiates `ByteQueue`.
`MessageCodec` extends `Token`, `Serialization` extends `CompactSize`;
`ClientServer` extends `BananaServer` and instantiates `TcpAdapter`.
Definitions have the names of the code where they can, and the `map` in
`PROJECT.json` gives the lines of each.  A definition whose comment begins with
"Mutant" is no part of a model: it is a plausible mistake, put in the place of
the definition it precedes to see that the properties notice.

### TcpAdapter

`sending`, `receiving` and `calls` are the program counters of the two threads
and of the callers.  An action is one access to shared state: `Send` is
`SendCount`, `SendError`, `SendEnqueue`, and `Start` is `StartRunning`,
`StartSending`, `StartReceiving`.  The loops read `running` and `error` in one
action.  They are two reads in the code; as `error` never becomes empty again
(`ErrorSticks`, proved from the actions alone), the pair always amounts to one
read made at the time of one of them.  The plain fields are read anew in each
round of a loop: the loops contain calls (`Thread.Sleep`, queue operations) over
which the run-time does not keep them in registers.

The network is `inbound`, the bytes on their way to the client, and `peer`; when
the server is lost any of these bytes may be lost with it.  The bytes the client
writes are not looked at, so `written` is a sequence of requests.  A message is
a short sequence of bytes and goes through the real `Fill`; the fixed parts of
the two types are scaled down to 3 and 5 bytes.  `Serializable` says which
requests survive `SerializeRequest`.  The code serializes none (section 5), so
the runs that ask about requests give it one that it does and one that it does
not: they check the adapter as it is around that defect.  `Receiving` throws its
exception again at its end (line 135).  What that does is up to the host: Unity
reports it and the thread ends, which is what the model does, while elsewhere an
exception that leaves a thread ends the process, and nothing is left to check.

### MessageCodec

A behaviour is one `SerializeRequest`, write by write, or one kind of message
fed to its filler again and again, or the tokens of a broadcast, cut off
anywhere, read with one `Token.Read` after the other.  A token is its type and
the bytes of its value; a call that throws returns `Thrown`.  A user name or a password is its
length and whether it has a character that does not fit in a byte: nothing else
of it decides what the code does.  The hosts of the client are little-endian, as
all platforms of Unity are.

### DataStream and ByteQueue

`call` records the call just made and its outcome, so that the abstract queue can
tell what was asked and what came of it.  `behind` of `ByteQueue` is what
`Rewind` can bring back; the queue may forget it whenever bytes leave the front,
which is the freedom the code takes by dropping what was read.  The stream is
shorter than 2^31 bytes, so its `unsigned` sums do not wrap.  Two of its calls
have effects that their names do not suggest, and the queue grants them: `insert`
of a range anywhere but at the front appends at the end, and bytes erased at the
front come back with `Rewind`.

### Serialization

A type is a record of its kind and the types of its parts, and an object is a
type with a value.  `Serialize`, `GetSerializeSize` and `Unserialize` take those of
the parts and give those of the type, as the templates of the code call each other;
`Instantiate` puts the three together, and the recursive function `Template` does
so for each type, as the compiler does.  The depth of a type bounds that recursion.
A map or a set is the sequence of its items in the order of their keys, which is
the order in which the code traverses it.  A stream holds less than 2^31 bytes, so
the `unsigned` sums of `GetSerializeSize` do not wrap.

`Base` is the number of values of a byte: with 4 instead of 256 all boundaries of
the compact size lie below 256.  `room` is how much a vector was made to hold while it was read.
`CutOff` takes away the end of the stream, and `Garble` puts there what a writer
other than this program may have left.  A structure with a plain block in it can
be written and measured but not read: `READWRITE` makes a temporary of the block,
which the reference parameter of the reading `SerReadWrite` does not take, so
such a program does not compile (`Readable`).

### AutoFile

`file` and `failed` are a wrapper's; `bare` is what its user has.  The user opens
files, gives them to wrappers (`Construct`, `Assign`), takes them back
(`Release`), and closes its own.  A wrapper that is copied shares its file with
the copy.  `undefined` records the use of a file that was closed, where C
promises nothing, so a behaviour ends there.  A transfer may stop after any byte,
and closing a file may fail to write out any end of what is buffered.  Whether a
failure throws or is only recorded makes no difference to wrapper and file, so
`exceptions` is not an action; whether the user heeds it is `heedless`.

### BananaServer

`table` and `backlog` are the kernel's.  `handlers` is the vector of threads,
with the descriptor each was given and, for the properties, the connection it
was made for.  Text is counted and not looked at.  `fcntl` is called with the
wrong pair of commands (`F_GETFD`, `F_SETFD`), which changes nothing, so it fails
only for a descriptor that is closed.  The `accept` whose length argument was
never initialized may fail with the connection already taken (`AcceptFails`).

### ClientServer

The adapter is made with its production constructor, so it speaks TLS, and client
`Me` of the server is its connection: `Dial` is `TcpConnect` and `Connect(Me)` in
one, `Hello` the ClientHello that `AuthenticateAsClient` writes, which the server
reads as it reads anything, and `HandshakeFails` the exception once the server's
end is `Gone`.  That the handshake has no time limit is the code's: it sets none.

## 3. Runs

Deadlock is not checked in any run: every system here may really stop, because
the application makes no more calls, a bound is reached, or the process ended.

| Run | States | What it shows |
| --- | --- | --- |
| `tcp_callers` | 204416 | Two callers of `Send`, `Start` and `Stop`, one of the two requests cannot be serialized, both constructors.  Requests stay in order and implement a FIFO channel; the limit of the queue is overrun by one per caller at most; an error stays; only a second `Start` lets the receiver read a missing stream, or leaves an adapter that looks alive without a sending thread.  Under fairness: `Stop` and any error end both threads, a blocked reader included; accepted requests are written unless one of these comes first. |
| `tcp_receiving` | 1024493 | The server sends any two of five messages (two of one type, one with no rooms, one with rooms, one of an unknown type) and may be lost at any byte.  Types; the stream is closed when the sender has ended; one response per type at most; what is delivered is what was sent, in that order. |
| `codec` | 27287 | Lengths of names and passwords around every edge of the buffer; messages with room counts around every edge of a byte; up to three tokens of eight types, cut off at any byte.  Writes stay in the buffer, nothing is ever serialized, responses come out whole with all fields but the reversed user id as sent, and fillers stay within the size limit.  Reading tokens stays on their boundaries and gives the values written, but for those of a byte and of a char; what is cut off is noticed, but for a byte at the very end; and nothing that is there throws, but for a last char and arrays. |
| `data_stream` | 15611 | Every sequence of calls on a stream of up to four bytes: the position stays inside, and the stream implements `ByteQueue`. |
| `serialization` | 178345 | Any two of eighteen objects, the stream cut off anywhere or followed by what somebody else wrote: what comes out is what went in, or it throws; computed and written sizes agree; nothing is returned that would take more bytes than were read; a vector never gets more than a block of room ahead of its elements. |
| `server` | 107353 | Three clients, two descriptors, two threads: no handler touches a connection that is not its own, no descriptor leaks, ended connections are closed, what was written is read first, nobody waits for ever. |
| `auto_file` | 885225 | Two wrappers, two files opened twice: without a copy no file is closed twice or used after its close; a file is left open without an owner only after an assignment; who heeds failures reads back what was written, unless closing the file failed, which nobody is told. |
| `client_server` | 280046 | The adapter and the server, with another client: never a session and never a request written; the handler of the adapter's connection stays in its read as long as the handshake lasts; the end of the server's side ends both threads of the adapter; `Stop` frees the receiving thread, though not the sending one. |
| `claim_filler`, `claim_receive`, `claim_serializes`, `claim_big_endian` | | One sentence each that the repository says of itself and that the model violates: section 5. |

### Why the bounds are enough

- `tcp_callers`: the limit of `Send` is 0, so that one queued request is already
  too many and the overrun by two callers happens within three sends.  Two
  starts are the least for which the failing second `Start` matters.
- `tcp_receiving`: two messages are the least that tell order, loss and the
  filler that is not reset.  Sizes 3, 5 and a limit of 16 leave a message with
  no variable part, one whose count read in the wrong byte order is too big, and
  bytes on both sides of the fixed part.  One caller is enough, for nothing but
  `Receive` touches that queue from outside.
- `codec`: field sizes are those of the code; the limit of a message is 64
  instead of 65535, and 70 bytes are fed, so that one message completes, the
  next begins, and a claim beyond the limit is met.  Three tokens are the least
  with one before and one behind; there is one of each size and kind.
- `data_stream`: four bytes leave room for a front, a middle and an end on both
  sides of the position, and every comparison in the code can go either way.
- `serialization`: with `Base` 4 strings of 0, 1, 15, 16 and 255 characters lie on
  both sides of the boundaries up to UINT_MAX, and a block of three elements is
  smaller than the vectors.  An object beyond UINT_MAX is left out: its size is
  cut when it is read (`ReadSize`), so it would not come out as it went in, but no
  stream of less than 2^31 bytes holds one.  Garbage claims sizes of each form,
  some longer than need be and some beyond UINT_MAX, with too few, enough and
  too many bytes behind them.
- `server`: two descriptors for three clients force a number to be used again
  while another handler lives; two threads let the limit be met by the third.
- `auto_file`: two wrappers and two files are the least to hand one over and to
  overwrite one with another; two opens let a `FILE` be given out again after its
  close, and a writer be followed by a reader; two objects fit in a file.
- `client_server`: one descriptor and a backlog of one make the adapter wait for
  the other client, two threads let both be served, two starts are the least for
  a `Stop` that is undone.  The adapter's queue needs no more than one request,
  for none is ever taken from it.

### Fairness

`TcpAdapter` assumes weak fairness of each thread and of each call in progress:
the operating system schedules a thread that can run.  Nothing is assumed of the
application's next call, of the server, or of calls into the network, which may
block for ever; the liveness properties name the premise `NetworkReturns`, that
the sending thread is not stuck in one.  The receiving thread needs no such
premise: its blocked read ends when the stream is closed, and that is what is
checked.  `BananaServer` assumes weak fairness of the main thread and of each
handler, nothing of the clients and nothing of SIGINT; `EveryoneAccepted` has the
premise that descriptors come free, for clients may hold them for ever.
`ClientServer` assumes both, and that a call of the adapter into the network
returns once the server lets it: a connection is made or refused, the ClientHello
is written, and a handshake fails when the server's end is gone.  Nothing is
assumed of `Cut`, of SIGINT or of the application, so each end may wait for ever,
which is what `MutualWait` is about.

## 4. What is proved

The theorems hold for every value of the constants that satisfies the named
`ASSUME`s, so for any number of callers, clients and descriptors, any requests,
any messages, any limits.  What those assume of the code, beyond the types of the
constants:

- `FillerAssumption`: a fixed part is longer than the event type, and that of a
  `SampleRooms` response than its count (`GetFixedPartMessageSize`).
- `AdapterAssumption`: a server sends whole messages of at least an event type, and
  a `ConnectServer` response as long as its fixed part, for it has no other
  (`GetVariablePartMessageSize`).  Nothing is assumed of messages of other types.
- `CodecAssumption`: the same with the sizes of the code, where a `SampleRooms`
  response is as long as its count says; and a token of a broadcast carries as many
  bytes as `PrimitiveSize` has for its type.
- `BaseAssumption`, `SerializationAssumption`: a byte has more than three values, for
  three of them are codes of the compact size; a block holds at least one element;
  types are what the templates are declared for (`WellFormed`), nested to any finite
  depth; an object put is a value of its type, and what somebody else writes is bytes.

| Theorem | Inductive invariant, and why the property alone is not inductive |
| --- | --- |
| `TypeCorrect` (`TypeOK`) | `TypeInv` adds that the sending thread has a request in hand just where it uses one, and that a filler's size is unknown or at least its fixed part, without which `Fill` need not return a number. |
| `ErrorNeverCleared` (`ErrorSticks`) | None: each action either keeps `error` or names a thread. |
| `StreamClosed` (`StreamFollowsSending`) | `StreamInv` says where the stream is for each place of the sending thread: it is not closed before `finally`, and null while connecting. |
| `NullStreamOnlyAfterRestart` | `NullStreamInv` follows the receiving thread into its loop: without a stream it got there because of a `Stop` or an error, and only a second `Start` undoes the former, nothing the latter. |
| `DeadOnlyAfterRestart` (`DeadNeedsRestart`) | `DeadInv` says why the sending thread is past its loop: a `Stop`, an error, or a second `Start`; with `NullStreamInv`, by which a call that may start the threads has been counted. |
| `SendQueueBounded` | `QueueBoundInv` counts the callers between check and enqueue: each may add one. |
| `RequestsStayInOrder` | `RequestsInOrder` with `TypeInv`, which says when a request is in hand. |
| `OutboundIsFifo` (`RequestsFifo`) | Refinement: initial states and steps of the adapter map to those of `FifoChannel`, under `RequestsInOrder`. |
| `FillersAnswerOnce` | `AnswerInv`: whoever answered is complete, a complete filler never fills again, and a filler's buffer begins with its own type, which ties a response to its filler. |
| `InboundIsFifo` (`ResponsesFifo`) | Refinement, under `FirstInv`: of the first message nothing was read, or its filler holds its beginning, or it was received, or nothing ever will be; and what is on its way continues it where the filler ends.  `AnswerInv` keeps a second response out, and `StarterInv`, that only the call that started the sending thread starts the other, keeps a receiving thread that has ended from being started again. |
| `WritesStayInside`, `NothingIsSerialized` | `SerializeInv` tells from the step how much is written: before the seventh write 267 bytes and the password, so the rest of its field, up to 523, has no room in 519. |
| `BufferStaysBounded` | `FillInv`: a filler that has neither completed nor thrown waits for more of a message that is not too big (lemma `WaitingStays`). |
| `CutOffIsNoticed` | `ReadInv`: the last read ended where its type says, within the bytes that arrived but for a byte.  Lemmas `ReadEnds` and `ReadKeeps` say so of one call of `Read` from the two tables of sizes. |
| `MessagesAreWhole`, `FieldsAreDecoded` | `GatherInv`: the filler holds the message from its first byte, again and again, and its size is that of the fixed part, or, if the message claims a variable part, one it never reaches: the part is added each time it is about to be.  So a message is completed only if it claims none, and then it is the whole message. |
| `TokensAreDecoded`, `WholeTokensAreRead` | `TokenInv`: `Read` stands on the boundary of a token, with as many tokens read as there are in front of it, each the one written or changed as the code changes it.  Lemmas `TokenInPlace` and `ReadInPlace` say what one `Read` does at such a boundary. |
| `StreamIsAQueue` (`QueueOfBytes`) | Refinement, call by call, under `VectorInv`: the content is what is behind the position, and what is before it can be brought back.  The lemmas cut a vector in two and join it, one step of the queue per call. |
| `PositionStaysInside` | `VectorInv`: the vector is a sequence of bytes and the position a number inside it; each call is shown to keep it from what it does to both. |
| `DescriptorsAreOwned`, `DescriptorsAreKept` | `HoldersInv` is both properties together, with what the main thread has in hand and that there are no handlers before it listens.  Neither is inductive without the other: a descriptor is not given out twice because every open one has a holder. |
| `AllThatIsWrittenIsRead` (`WrittenIsRead`) | `LastInv`: a handler that is about to close a connection its client has ended has read all of it; with `HoldersInv`, by which no other handler closes that connection. |
| `OwnedOnce`, `LeaksAreOverwritten` | `OwnInv`: the two are inductive once they come with the types.  That no file is used after its close is not so by itself: it rests on what `OneOwner` says of who has which file. |
| `WhatIsWrittenIsRead` (`ReadBack`) | `ReadInv`: for whoever heeds failures a file holds the objects put in it, less what its close lost and at most half an object more, and who uses it stands between two objects.  With `OwnInv`: the file has no second user to move the position. |
| `ServerIsImplemented` | Refinement: each step of the composition is a step of the server's specification or leaves the server alone.  No run has it as a property; it is what lets the proofs below use those about the server. |
| `NeverASession` (`NoSession`) | `NoStream` says that the adapter gets no further than its handshake and what follows from having no stream; `HelloOnce` that its one write is the ClientHello. |
| `EachWaitsForTheOther` (`MutualWait`) | `StaysInv` of `BananaServerProofs`: a handler leaves its loop only when the client of its connection has ended it; with `OwnDescriptor`, by which the connection it reads is its own. |
| `NoRoomForBogusSizes` (`RoomBounded`) | `room <= Block` is inductive because each read of each type keeps it: lemma `EveryTypeSane`, by induction on the depth of the type and, within a container, on the items read. |
| `SizesAlwaysAgree` (`SizesAgree`) | With `StreamType`; lemma `EveryTypeMeasured` says for every value of every type that as many bytes are written as `GetSerializeSize` computes. |
| `NothingIsInvented` (`NothingInvented`) | `StreamType`, and by `EveryTypeSane`, for any bytes at all: what is read is a value of its type that takes no more bytes than were read, whether sizes are longer than need be or keys repeated. |
| `ObjectsComeBack` (`RoundTrip`) | `RoundTripInv`: the stream holds the bytes of the objects put, one after the other, or a beginning of them if it was cut; the read position stands where the next object begins; a read threw only where the stream ends too early or into a const string.  Lemma `EveryTypeFaithful`: where the bytes of a value stand, reading returns that value and stops behind them, and where only a beginning of them stands it throws. |

`BytesFillerProofs` holds the lemmas about one call of `Fill`, on which both
`TcpAdapterProofs` and `MessageCodecProofs` rest.

Induction over data: the theorems of the library that take an operator cannot be
used, but induction over a set of numbers can: a set that holds 0 and with each
number the next holds all.  `AllNumbers` of `MessageCodecProofs` and `NumbersUpTo` of
`SerializationProofs` say so, from the well-foundedness of the numbers, and
`TypeInduction` makes of it one over types: a set that holds a type whenever it holds
all its parts holds them all.  What a recursive function defines (`EncodedAll`,
`Power`, `NumberOf`, `SumOf`, the items read by `UnserializeItems`, `Template`) is shown
in the same way to exist and to satisfy its equation, before anything is said of it.

Every invariant that a passing run checks is stated by one of these theorems.  Only
model-checked: the liveness properties (`StopEndsBoth`, `ErrorEndsBoth`,
`AcceptedIsWritten`, `EndedIsClosed`, `EveryoneAccepted`, `EndOfServerEndsAdapter`,
`StopFreesReceiver`), which are beyond the prover.

## 5. Findings

| Run | What the code does | What the repository says |
| --- | --- | --- |
| `claim_filler` | A filler is never reset: the second message of a type is added to the first, never completes, and is lost with all that follows; its buffer grows without bound. | "A new filler will be picked for the next message." (`TcpAdapter.cs:128`) |
| `claim_receive` | `Receive` throws once `error` is set, even when responses received before are queued; whether the test below passes is a race with the end of its stream. | `Assert.IsNotNull(response);` (`TcpAdapterTest.cs:70`) |
| `claim_serializes` | `SerializeRequest` throws for every request: its magic number takes eight bytes where four are counted, and `WriteBytes` wants a byte to spare. | The test that wants the bytes of its request (`TcpAdapterTest.cs:99`) |
| `claim_big_endian` | Numbers are written as they are in memory, lowest byte first on the hosts the header assumes; the client's are big-endian. | "Serialize to BE, and Unserialize from BE." (`serialize.h:2`) |

Also met.  Against a comment, without a run of its own:

- `Start`, `Stop` and `Start` again before the connection is made let the receiving
  thread read a null stream, although it is "Waiting for sendingThread to establish
  the connnection." (`TcpAdapter.cs:95`).  `NullStreamNeedsRestart` says that this
  takes a second `Start`, and its proof that nothing else does it.
- `stream << stream` takes along what was read from it already, `+=` does not,
  although the one "concatenates like" the other (`serialize.h:993`).

With nothing in the repository that says otherwise:

- The client always speaks TLS and the server never does: between the two of this
  repository there is never a session (`NoSession`), and neither end gives up
  (`MutualWait`).
- A `Stop` and a second `Start`, which throws, leave an adapter that takes requests,
  shows no error, and has no threads (`DeadNeedsRestart`).
- `Stop` drops requests that wait, and does not end a sending thread that is in its
  handshake.  A failed TLS handshake leaks its socket unless it throws an
  `AuthenticationException`.  The later of two errors replaces the earlier.
- Numbers of rooms and user ids are read in the wrong byte order (`FieldsDecoded`
  states it), so a `SampleRooms` response with rooms never completes.
- `Token.Read` gives the first byte of the array for every byte, takes two bytes for
  a char where it counts one, and throws for every array (`TokensDecoded`,
  `CutOffNoticed`, `WholeTokensRead` state it).
- A `CAutoFile` that is copied closes its file twice, one that is assigned to leaks
  it, and a failure to write out at its close is lost (`OneOwner`,
  `LeakNeedsOverwriting`, `ReadBack`).
- Sizes beyond 32 bits are cut when they are read; a string is resized to the size
  it claims at once, and one of 2^31 bytes or more fails the assertion at
  `serialize.h:941`, where a shorter one that is not there throws; a structure with a `FLATDATA` field cannot be read.
- A server whose threads cannot be created any more terminates.  What it prints of
  a read is up to a zero byte of its buffer, `std::string(buffer, 0, r)`, and not
  the `r` bytes read; as the content is only printed, the model counts it.

## 6. Plan

The order was: the adapter, because all of the client's concurrency is there;
the fillers and the codec under it; then the server's stream, its templates and
its threads; then the tokens, the files, and the composition of both programs.
All parts that have behaviour are modelled, and all their safety invariants are
proved.  Left:

- A byte-level composition of the client's codec with the server's templates has
  to wait for the code: `banana_message.h` is empty, and the server parses nothing.
