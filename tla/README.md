# A verification of cpp-iocplib in TLA+

cpp-iocplib is a C++ network library over Windows I/O completion ports: an
acceptor and its worker threads, sessions that send and receive over one
socket each, a small client side, and an example server and client that
exchange FlatBuffers messages, with the FlatBuffers headers in the repository.
The modules here model the concurrent core, both sides of a connection, and the
part of FlatBuffers the messages go through, as the code under `src/` has it.
TLC checks them on small instances, and TLAPS proves the safety properties of the
concurrent core and of the FlatBuffers builder for every instance.

Run from this directory: `tlc -config MCSessionSender.cfg MCSessionSender`
and likewise for the other configurations; `tlapm SessionSenderProofs.tla`, and
likewise for the other modules that end in `Proofs`.

## 1. Inventory

| part | state it keeps | operations | interacts with |
|---|---|---|---|
| `IoCompletionPort`, `IoCompletionPortWorker` (`io_completion_port.h`) | the port's handle, the workers, the count of attached sockets | `Create`, `Attach`, `Detach`, `Close`; `Run`, `Join` | every completion of every socket passes through its queue to a worker, which calls `OnCompleteOverlappedIO` of whoever the OVERLAPPED's `weak_ptr` leads to |
| `Acceptor`, `AcceptSocket` (`acceptor.h`) | the listening socket, `opened_`, the AcceptSockets with one OVERLAPPED and one socket each, the list `sockets_` of sessions | `Open`, `Close`, `OnCompleteOverlappedIO`, `OnAccept`, `PostAccept` | owns the port; hands accepted sockets to `SocketSession::OnAccept` on a worker |
| `ServerBase` (`server_base.h`), `examples/server/main.cpp` | the Acceptor; a flag set by signals | `Open`, `Close` | pass on to the Acceptor |
| `SocketSession` (`socket_session.h/.cpp`) | its socket, a pointer to the port, a receiver and a sender | `OnAccept`, `OnCompleteOverlappedIO`, `SendAsync`, the virtual `OnReceivePacket` | dispatches completions by the type in the OVERLAPPED |
| `SessionSender` | `send_queue_`, `sending_packets_`, `sending_offset_`, `post_send_signal`, `send_error_`, one OVERLAPPED, `lock_` | `SendAsync`, `OnSend`, `BeginSend`, `PostCompletionPortSignal` | any thread calls `SendAsync`; workers call `OnSend` |
| `SessionReceiver` | `zero_byet_recv_`, `recv_error_`, `buffer_`, one OVERLAPPED, `lock_` | `OnAccept`, `BeginReceive`, `OnReceive`, `OnError` | workers call `OnReceive`, which calls `OnReceivePacket` with the lock held |
| `SocketBuffer` (`socket_buffer.h`) | the header and the data of one packet | `Allocate`, `buffer`, `GetBufferSize`, `Slice` (no caller) | the elements of the sender's lists |
| `PacketReceiver` (`packet.h`) | `length_`, `offset_`, `buffer_` | `OnReceive`, `IsComplete`, `Clear` | called with what was received, by the server's session and by the client |
| server `ClientSession` (`examples/server`) | a PacketReceiver | `OnReceivePacket`, `OnPacket`, three handlers that answer with `SendAsync` | the receiver above it, the sender below |
| `ClientSocket` (`client_socket.h`) | a socket, a SocketIoThread, the receive buffer, a PacketReceiver, `send_buffers_`, `sending_size_` | `Connect`, `Close`, `OnSocketRead/Write/Close`, `SendPacket` | called from the application's thread and from the I/O thread |
| `SocketIoThread` (`socket_io_thread.h`) | `requests_`, `events_`, two maps, `running_` | `Run`, `RequestRegisterSocket`, `RequestUnregisterSocket`, `Close` | one thread per client socket |
| client `ClientSession`, `client.cpp` (`examples/client`) | nothing of its own | the dialogue Login, ConnectServer, Logout | ClientSocket |
| `WinSock` (`win_sock.h`) | a handle | one system call each | base of the sockets above |
| generated messages (`examples/message`) | nothing | `Create...`, accessors, `Verify` of each table | on the builder, the tables and the verifier below; called by both examples |
| `FlatBufferBuilder`, `vector_downward` (`examples/flatbuffers`) | one block with two stacks, vtables, the fields of the open table, a pool of strings | `Create...`, `StartTable`, `AddElement`, `EndTable`, `Finish`, `Clear`, `Reset`, `Release` | each handler that answers makes one |
| `Table`, `Vector`, `String`, `Verifier` | the buffer; the verifier counts depth and tables | `GetField`, `LookupByKey`, `GetBufferStartFromRootPointer`; `VerifyBuffer` | called with every packet received |
| `flexbuffers::Builder`, `Reference`, `Verifier` (`flexbuffers.h`) | a buffer, a stack of values, pools of keys and strings | one function per kind of value, `EndVector`, `EndMap`, `Finish`; lookup, `MutateInt`, verification | no caller in the two programs |
| schemas as buffers (`reflection_generated.h`) | nothing | as the generated messages, with keys, identifier and size prefix | no caller in the two programs |

What is hard in this code, and what makes each part correct:

* **One OVERLAPPED, several users.**  The sender, the receiver and each
  AcceptSocket have a single OVERLAPPED.  It is correct for the kernel, the
  port or one worker to have it, never two of them; which of them has it is
  told only by a flag (`post_send_signal`, `zero_byet_recv_`) or by the order of
  the calls in a callback.
* **Lost wake-ups.**  Nothing polls.  A packet queued, or a byte that arrives,
  at the wrong moment between "there is nothing to do" and "wake me" is not
  handled until something else happens.
* **Partial results.**  A WSASend may complete short, a call may fail for lack
  of resources and be tried again, on state the first attempt has changed.
* **Lifetimes.**  Buffers must outlive the WSASend that reads them, sessions
  the completions that look for them, the port the callbacks that use it.
* **Shutdown.**  `Close` waits for a counter, then for every worker; every path
  through `Open` and through an accept must leave both able to get there.
* **Two threads, one socket.**  The client's socket, its send list and the
  offset into it are used by the application and by the I/O thread, part of it
  under locks; network events are recorded once and must be enabled again.
* **Building backwards in a block that moves.**  Offsets and scratch data must
  survive every growth of the block, and nothing of one buffer may be left for
  the next one of the same builder.
* **Reading what a stranger sent.**  A handler follows offsets that only the
  verifier has looked at; verifier, accessors and builder must agree on every
  one of them, in widths (FlexBuffers) that depend on what lies between.
* **Framing.**  Packets are cut out of a stream whose pieces have no relation
  to packet boundaries, with 32-bit arithmetic on lengths the peer chose.

`PROJECT.json` lists each of these hazards at its line, with the properties
that watch over it.

## 2. Modules

```
ByteStream            what a stream of bytes promises (abstract)
  ^ refined by SessionSender      ^ refined by SessionReceiver
SessionSender   <- SessionSenderProofs                  MCSessionSender
SessionReceiver <- SessionReceiverProofs                MCSessionReceiver
CompletionPort  <- Acceptor <- AcceptorProofs           MCAcceptor
PacketReceiver  <- ServerSession                        MCServerSession
PacketReceiver <- PacketReceiverProofs
ServerSession, PacketReceiverProofs <- ServerSessionProofs
SocketIoThread, PacketReceiver <- ClientSocket          MCClientSocket
ClientSocket, PacketReceiverProofs <- ClientSocketProofs

Scalars <- VectorDownward \
        <- FlatTable      -- FlatBufferBuilder <- BuilderUse   MCBuilderUse
BuilderUse <- BuilderProofs <- BuilderUseProofs
           FlatTable <- FlatVerifier
Scalars <- Schemas <- Messages, Reflection
FlatBufferBuilder, FlatVerifier, Messages, Reflection, Folding <- GeneratedCode
Scalars, FlatTable, Folding <- FlexBuffers
GeneratedCode, FlexBuffers <- MessageExchange           MCMessageExchange
```

### ByteStream

The promise both halves of a session make: bytes numbered 1, 2, 3, ... come
out in order, each once, and not before they were handed over.  Several may
come out in one step.  It promises no progress: the connection may break.

### SessionSender

A byte is named by its position in the stream of all that `SendAsync` was ever
given, a `SocketBuffer` is an interval of positions, and so losing, repeating
or reordering a byte is visible in `wire`, the sequence the kernel has put on the
connection.  `sender` is the record of the members that `lock_` protects, under
the names of the code.  `SendAsync` and `OnSend` hold the lock from first to
last line, so each is one action; between them come the kernel's steps
(`PutOnWire` one byte at a time, and the completion of a WSASend in full, short,
failed or aborted) and the gap between a worker's `Dequeue` and its getting the
lock.  `BeginSend` is the set of its outcomes, because `OnSend` calls it once or
twice and goes on according to what it returned.  `Faults` says which failures
a run allows.  Two abstractions need a word:

* The three codes in the switch of `OnSend` are one value, `WSAENOBUFS`.
* The loop over `sending_packets_` that pops whole packets is `PopCount`, the
  one number of packets the byte count covers.  Since the packets follow one
  another in the stream (`Tiled`, part of the proved invariant) the size of the
  first k is a difference of two positions.  That covers the loop's own end
  condition too: it stops when nothing is left of the count or of the list.

A `SendAsync` that is called before `OnAccept` changes nothing; it is the
guard `session_`.  When `PostQueuedCompletionStatus` fails, `SendAsync` throws
after queueing: the third disjunct of `PostCompletionPortSignal`.

### SessionReceiver

`OnReceive` holds the lock over its whole read loop, but the stream moves
meanwhile, so the loop is split at every `recv`: `OnReceive` (take the lock, test
and clear the flag), `RecvData`, `OnReceivePacket`, `RecvEnds` (would block,
closed, broken, shortage) and `Leave` (post the next WSARecv, handle its error,
release the lock).  `OnReceiveFailed` is the branch before the lock; it needs
the lock free only for the `BeginReceive` inside it.  `lock_` is the worker that
holds it.  `BeginReceive` and `OnError` are sets of outcomes, as in the sender.
A zero-byte WSARecv can complete well when there is something to read or the
peer has closed.

### CompletionPort and Acceptor

`CompletionPort` has the state of the port and the operations on it, each used as
a conjunct of an action of `Acceptor`.  `Attach` and `Detach` count modulo
`UINT32`, so that a Detach too many shows as the wrap-around it is in a
release build.  `Acceptor` follows `Open` and `Close` call by call, because each
call may throw and leaves what was done before it, and the workers run from
`Create` on.  The callback of an accept is three steps: `Accept` (options set,
session attached and receiving), `PushSocket` (into `sockets_`), `Repost`
(the AcceptSocket gets a new socket and a new AcceptEx).  An exception out of
`Repost` is outside the try block and ends the process: `main = "terminated"`,
after which nothing happens any more.  A session's own completions are not in this
module: here a session is its client, attached or not, and kept alive or not.

### PacketReceiver and ServerSession

`PacketReceiver` has the state of the class of that name and its operations as
operators on it.  A byte is its value, from which lengths are read, and its
position in the stream, which shows when a byte comes from the wrong place.
`kPacketLengthSize` and `Base` make the integers of the code (4 bytes of 256
values) small ones; sums are taken modulo `UINT32`, as there, the weight of the byte
behind the last one of a header (`Weight`).  `buffer_` grows with every `Append_`.  `reserve` changes nothing that can be observed.

`ServerSession` is `OnReceivePacket` of the example server: it gets the next piece of
the stream, and each turn of its loop is a `Turn`.  `OnReceive` is called with the
pointer the loop began with, as in the code.  What the FlatBuffers verifier and
`GetPacket` say of a packet's own data is what the client made it, and of any other
bytes it may be anything.  An empty packet never verifies.  The three handlers
differ only in the result they send, so that they are one: it answers with its kind.
`HandledInOrder` says in three parts what has been handled: the packets from the first
one on, all of them valid, and answered once each (`Answered`).
That `SendAsync` throws, out of the handler and out of the worker's thread
function, when the port refuses a signal, is not in this module.

### SocketIoThread and ClientSocket

`SocketIoThread` has the members of the class and each of its operations as an
operator; `ClientSocket` composes them with the socket and with the two threads
that use it.  `pc` says where each thread is, and a step ends where the other
thread may come between: before and after a lock, at every system call, between
the test and the use of `handle_`, and between the wait of `Run` and each turn of its
loop.  `cursor` is what `Run` keeps in locals, so that an index computed before a
request is taken is used after it.  `kernel` is the socket as the system sees it:
open, the state of the connection, which network events are recorded and which
are enabled.  The server at the other end reads bytes in order and answers whole
requests in order, which is what `ByteStream` and `ServerSession` promise.  An
exception out of a thread, a failed assertion, or in a debug build a subscript past the end
ends the process: `fault`.  `refs` counts who holds the session, because the
last one runs its destructor, and the I/O thread may be the last.

A packet is its number and a byte its position in its stream, so that a byte sent
twice or a result handled twice is visible.  `Mutated form` in a comment marks a
definition that no specification uses: the variant of the operator next to it which
shows that the properties notice the difference.

### Scalars, VectorDownward, FlatBufferBuilder and BuilderUse

A memory is a function from addresses to bytes, and a byte nobody has written is
`Junk`, which no reading accepts as a value.  `VectorDownward` is the block with its two
stacks, and its heap, by names of blocks, so that a leak or a second free shows.
`FlatBufferBuilder` has each operation as an operator from builder to builder; `ok` is
the conjunction of all `FLATBUFFERS_ASSERT`s met.  `Create...` functions that differ only
in how they take their arguments are one operator.  `BuilderUse` is a program that calls them
in any order the library allows: an object refers to earlier ones, a table is
open while its fields are added, and a finished builder is cleared, reset or
released and used again.

### FlatTable, FlatVerifier, Schemas, Messages, Reflection and GeneratedCode

`FlatTable` reads what the builder has written, by addresses in a memory.
`FlatVerifier` is `Verifier` with its chains of `&&`: a check after a failed one
is not made.  The generated headers repeat one pattern for each table, so that a
table type is data (`Schemas`): its fields in the order they are verified, the order in
which `Create` adds them, defaults, which are required, and its key.
`Messages` and `Reflection` are these descriptions, read from the three generated
headers; `GeneratedCode` is the pattern, once.  What a table says is a document, a
function from the names of the fields that are there.

### FlexBuffers

The builder, the reader with its lookups and `MutateInt`, and the verifier of
`flexbuffers.h`.  Numbers have the widths the code computes for them, and
`ElemWidth` is the loop that finds the width of an offset.  A document is the
tree of values; `Said` is what of it can be read back (keys sorted, narrowed numbers
wide again).

### MessageExchange

One buffer at a time goes from a builder to a verifier and a reader, and on
the way it may lose its end or have one byte changed: a message of the dialogue
between the example client and server, with both sides' handlers, a schema, or a
FlexBuffer.  The handlers crash when they follow a null pointer.

`Folding`, `GeneratedCode`, `FlexBuffers` and `MessageExchange` use recursive operators over
documents and offsets; nothing is proved about them.  Two conventions of theirs
need a word.  `Then` and `InTurn` of `Folding` are application and `FoldLeft`;
they only fix the order in which TLC evaluates.  TLC's integers have 32 bits: of
a 64-bit number the lower half is kept, a number of 2^31 or more reads as
negative, and documents have none of those.

The bytes the modules produce were compared with those the headers produce when
compiled: the login request, a schema of 660 bytes and seven FlexBuffers are the
same byte for byte, and so are 6400 verdicts of the FlexBuffers verifier on cut and
changed buffers.

## 3. Runs

| run | configuration | what it shows |
|---|---|---|
| `sender` | 3 workers, payloads 0 and 1 byte behind a 4-byte header, 18 bytes, every fault, fair | the safety properties, the inductive invariant, refinement of `ByteStream`; no packet queued without a completion on its way; every byte is sent unless the connection breaks, a post fails, or a short or failed send strands it in `sending_packets_` |
| `sender_partial` | short sends, fair | **violated**: the rest of a short send is left behind |
| `receiver` | 2 workers, `buffer_` of 2 bytes, 4 bytes from the peer, every fault, at most 3 shortages, fair | one reader, no completion ignored, refinement of `ByteStream`, every byte that arrives once a first WSARecv was posted is delivered |
| `receiver_close` | the peer closes | **violated**: the next WSARecv is posted after the disconnection was recorded |
| `acceptor` | 2 workers, 2 AcceptSockets, 2 clients, every fault, fair | one place per AcceptSocket, sessions kept alive, no callback after the port is reset; every client is taken up while an AcceptSocket is left; Close returns unless a session is attached or it does not detach what Open attached |
| `acceptor_client` | 1 client, no fault, fair | **violated**: Close never returns once a client has connected |
| `server` | 3 packets with 0 or 4 bytes of data, valid or not, in pieces of 1 to 3 bytes, none across packets, fair | copies stay within `buffer_`; packets are handled whole, in order, answered, and not from the first invalid one on; each valid one is handled |
| `server_coalesced` | pieces across packets | **violated**: the next packet is not read from its own first bytes |
| `client` | 2 requests of 2 bytes, results of 2 bytes, room for 1 byte in the kernel, every fault, main closing at any moment, fair | requests go out whole and in order, results are handled once and in order, nothing ends the process while the connection is up and open, the dialogue gets to its end, destroying the session ends its thread |
| `client_close` | a debug build, the server closes | **violated**: both threads call `closesocket` on one handle |
| `builder` | two strings, a vector of 8-byte integers, one of structs, tables with numbers of 1 and 2 bytes, an 8-byte struct and an offset; up to 3 objects in one buffer and 2 in the next; both settings of defaults and of vtables; first block of 8 bytes | what has been written stays readable where it was, aligned, with no byte unwritten; vtables and shared strings once; no assertion fails; no block leaks |
| `messages` | the dialogue with two kinds of strings, four schemas, seventeen FlexBuffers in five ways to build them; any cut, any byte changed to one of five values | what is built reads back, what a verifier accepts is read within the buffer, an intact buffer is rejected just when it has more tables inside of each other, or in all, than the limits (more vectors, for a FlexBuffer), keys are found, the start is found from the root, and an intact message is answered |

**Bounds.**  `MaxBytes` ends the stream: 18 bytes make up to four packets of which
the first ones can be cut at any byte by short sends while the others wait
in the queue, the longest chain the code's branches distinguish (rest of an
earlier send, whole packets behind it, packets queued meanwhile).  The header
stays at its real length.  Three workers suffice to have one in `OnSend`, one
with a completion and one idle; two for the receiver, where the lock admits one
at a time.  A `buffer_` of 2 bytes makes both a full and a partly filled buffer
occur, with bytes of an earlier use behind them.  `MaxShortages = 3` lets a
failed retry be followed by one more failure; `AllRead` is claimed for every byte from
the first posted WSARecv on, pending or not, and up to the first shortage, because after two in a row the code gives up (`socket_session.cpp:94`).
`UINT32 = 8` only needs to exceed the sockets there are, which the assumption
of the module states.  No run uses symmetry, since most check liveness.

For the packets a header is 2 bytes of 3 values, so that a length of 4
needs both, `buffer_` starts at 3 bytes and has to grow for every packet with
data, and a piece of up to 3 bytes may hold a part of a header, all of it, or header and
data.  That no piece crosses a boundary (`Coalescing = FALSE`) is what the example's
dialogue provides: its client sends a request only after the result of
the one before.  The library promises no such thing, hence the second run.

For the client two requests are the fewest of which one is sent by main and one
by the I/O thread, and with room for one byte every request is sent in pieces, so that
`FD_WRITE` has to bring the rest.  Both ways a connection ends (closed, broken), both ways it
does not come up, and a close by main at every point of it are there.

In `builder` the first block of 8 bytes makes the first objects replace it, with and without
an open table.  Three objects suffice for two tables with equal and unequal vtables and something they refer
to, and the second buffer is what a builder that remembers too much would spoil.  In
`messages` the fillers of 200 to 250 bytes put an offset at 255 or 256 in
vectors and in maps, where its width changes what it must hold.  The limits tried
lie around what the documents have.

| run | distinct states | | run | distinct states |
|---|---|---|---|---|
| `sender` | 88,772 | | `client` | 634,770 |
| `builder` | 896,010 | | `messages` | 130,158 |

**Deadlock** is not checked: each of these systems may stop, when callers call
no more, the connection has broken, or Close has returned.

**Fairness.**  Workers loop for as long as the port lives, so some worker takes
what is queued and a worker in a callback goes on: weak fairness of `Dequeue`
over all workers, and of each worker's own steps.  No lock is held for longer
than a handler, and no action waits for a lock that is given back only to be
taken again for ever.  The kernel finishes an operation it can finish (weak
fairness), for the sender as long as the peer reads.  `AcceptEx` of the
Acceptor is strongly fair towards the waiting clients: errors may come, but not for
ever.  The main thread goes on with `Open` and `Close` once it has called them.
In `ServerSession` what arrived is passed on, which is what
`AllRead` shows of the receiver.  In `ClientSocket` each of the two threads goes on,
and the kernel with the server behind it; the key main waits for need never
be pressed.  No fairness makes anybody call `SendAsync`, `Open` or `Close`, connect, send or
break a connection.

## 4. What the violations mean

Five disagreements between the code and what its comments or assertions
say, each with a run (`findings` in `PROJECT.json`):

1. A WSASend that completes short while `send_queue_` is empty strands the
   rest of its packet: `BeginSend` returns at `socket_session.cpp:199` without a
   look at `sending_packets_`.  `SentUnlessStranded` shows what else may leave
   a byte behind; the next `SendAsync` brings the rest along, in order
   (`ResumesWhereWireEnds`).
2. `recv` of 0 is recorded as a disconnection, and the next zero-byte WSARecv is
   posted nevertheless (`:76-86`); it completes at once, and so on for ever.
3. Sessions are attached and never detached, and `Close` waits for the count
   (`io_completion_port.h:102`).
4. The server's loop hands `OnReceive` the same pointer again for the rest of
   a piece (`examples/server/client_session.cpp:20`), so the second packet in a
   piece is read from the bytes of the first.
5. `WinSock::Close` tests `handle_` before `closesocket` and clears it after; with
   the server closing while main does, both threads get past the test.

Others are known and have no run of their own:

* The comment at `socket_session.cpp:164` says "try once more", and the second attempt
  is none: the first has already emptied `send_queue_`, so the second `BeginSend` returns
  success without a WSASend, and the packets wait for the next `SendAsync`.  `RetriedOnce`
  of `SessionSender` does not hold; `SentUnlessStranded` excuses what is left behind.
* `Attach` ignores a failure (`io_completion_port.h:122`), and `Open` sets `opened_` after
  it, so that `Close` detaches what was never counted; without assertions the counter
  wraps around and `Close` waits.  `DetachAssertion` of `Acceptor` does not hold then
  (it does without this failure: `DetachesWhatIsAttached`).  The run `acceptor`
  allows the failure and takes the counter modulo `UINT32`: its `TypeOK` and
  `CloseReturnsWithoutSessions` say nothing about this case.
* The comment at `verifier.h:29` calls `max_depth` the maximum nesting of tables and
  vectors.  The verifier counts tables only (`VerifyComplexity`, which only
  `VerifyTableStart` calls), so a table in a vector of a table has depth 2, and a document
  that nests deeper than `max_depth`, vectors included, may be accepted.  `LimitsAreExact` says what
  the code counts, not what the comment says, and holds.
* `Open` that throws in `PostAccept` has attached the listening socket and not set
  `opened_`: `Close` waits for ever.
* `client.cpp` sends its login right after a non-blocking `connect`; if that is
  not yet through, `send` fails with WSAENOTCONN and throws out of main.
* Closing the client while its thread reads or writes has that thread throw
  WSAENOTSOCK, and between its wait and a request it may look up an event that has
  just been erased.  `SurvivesWhileConnected` begins after the first of these moments and
  ends before the second.  The I/O thread may hold the last reference to the session, and
  then joins itself.
* `CreateVectorOfStructs` and `StartVectorOfStructs` (`flatbuffer_builder.h:787`,
  `:1185`) pass `len * sizeof(T) / AlignOf<T>()` as the number of elements of
  `sizeof(T)` bytes, so that the padding in front of the vector is computed for another length
  than it gets.  It comes out right for every alignment but 1, which is proved
  (`AlignedArePadded`), and with alignment 1 if `sizeof(T) * (sizeof(T) - 1) * len` is a
  multiple of 4: one struct of two bytes has two bytes of padding between
  its length and itself, and reads back as zeros (`PaddedAlike` in `BuilderUseProofs`).
* The FlexBuffers verifier returns from `VerifyKey` at the first byte that is not zero
  (`flexbuffers.h:1787`), so the zero behind a key is not known to be there:
  `AcceptedIsInside` claims only that a key begins in the buffer.  `Clear` (`:947`) says it
  resets all state and leaves `has_duplicate_keys_`.

## 5. Proofs

Everything below holds for every value of the constants: any sets of
workers, AcceptSockets and clients, any sizes of buffers, packets, requests and results,
any number of packets, any set of faults.  The only assumptions are the named `ASSUME`s of
the modules (sets are finite, sizes are positive, a packet fits a length), which TLC
evaluates in the runs, and four hypotheses, `~Coalescing`, `"attach" \notin Faults`,
`Asserted` and `StructsPadded`, each named with the theorems that have it.  No
property is inductive alone; each proof has an inductive invariant (`IInv`) that says what
the property leaves unsaid, one lemma per action that it is kept, and the properties as
consequences.

### SessionSenderProofs

| theorem | statement |
|---|---|
| `InductiveInvariant` | `Spec => []IInv` |
| `TypeCorrect` | `Spec => []TypeOK` |
| `OneOverlappedInFlight` | `Spec => []SingleOutstanding` |
| `BytesInOrder` | `Spec => []InOrder` |
| `NoBufferFreedEarly` | `Spec => []BuffersAlive` |
| `ResumesWithoutGap` | `Spec => []ResumesWhereWireEnds` |
| `ImplementsStream` | `Spec => StreamSpec` |

That the bytes leave in order
depends on what each WSASend in the kernel still has to send; that depends on
`sending_offset_`, which the completions in the port and in the workers' hands
are about to change.  `IInv` keeps that account.  `Tiled`: the packets
kept are, list after list, the end of the stream without a gap.
`WireWithin`: the wire has got somewhere into `sending_packets_`.
`PendingAccounts`: an operation in progress has still to send all from the end
of the wire to the end of `sending_packets_`.  `PortAccounts` and
`WorkerAccounts`: the byte count of a completion not yet handled is the
distance from the acknowledged bytes to the end of the wire.  `IdleAccounts`: with
nothing outstanding that distance is 0.  Once the connection has broken an
aborted send may have left bytes on the wire that no completion reports,
so the equalities are only claimed while it is up.

The lemmas of the actions rest on lemmas about tilings: appending
(`TilesAppend`), joining (`TilesConcat`), dropping packets (`TilesDrop`), skipping
into the first (`TilesAdvance`), and sending a byte (`TilesTakeFirst`); on them rest
what `MoveQueue`, `WsaBufs` and `Acknowledge` do to a well-formed sender.
`ConcludeOutcome` settles what all outcomes of `OnSend` have in common.

### SessionReceiverProofs

| theorem | statement |
|---|---|
| `InductiveInvariant` | `Spec => []IInv` |
| `TypeCorrect` | `Spec => []TypeOK` |
| `OneReceiveAtATime` | `Spec => []SingleReceive` |
| `FlagTellsTheTruth` | `Spec => []FlagMatches` |
| `ImplementsStream` | `Spec => StreamSpec` |

`SingleReceive` and `FlagMatches` need each other: a worker clears the flag and reads only if
it was set, and only the one that clears it posts again.  They need `LockHeld` besides (the lock
is held by the worker in the loop) and `SilentBeforeAccept`.  For the stream, `Prefix` says
that what was delivered is the beginning, and `BufferAccounts` that what `recv` took and
`OnReceivePacket` did not yet get is the beginning of `buffer_`.  `BeginReceiveOutcome`,
`OnErrorOutcome` and `ReArmOutcome` say what a call can come to: at most one WSARecv is started,
and the flag says whether one was.

### AcceptorProofs

| theorem | statement |
|---|---|
| `InductiveInvariant` | `Spec => []IInv` |
| `TypeCorrect` | `Spec => []TypeOK` |
| `JoinedBeforeReset` | `Spec => []NoCallbackAfterReset` |
| `OneAcceptPerSocket` | `Spec => []SingleAccept` |
| `AttachedSessionsKept` | `Spec => []SessionsKept` |
| `CountIsExact` | `Spec => []Counts` |
| `DetachesWhatIsAttached` | `"attach" \notin Faults` implies `Spec => []DetachAssertion` |
| `CloseWaitsForSessions` | `Spec => [][CloseWait => Attached = {}]_vars` |

`OnePlace` is `SingleAccept` without cardinalities: the completion of an AcceptSocket is at one
position of the queue or with one worker, just when the socket is `"taken"`.
`CallbackMatches` ties where a worker is in the callback to where it is in `Run`.  The
lemmas on `Queued` say what taking the head and appending do to positions.

`Counts` is a second invariant, inductive together with the first: `attached_sockets_` is the
number of sockets attached (`Counted`), which needs that no session is attached twice, hence
that a client is in the completion of one accept (`OneAccept`, over `OnePlace`).  From it
follow when `Detach`'s assertion holds (the hypothesis is needed: see section 4), and
that the wait of `Close` ends only with no session attached, which is why the run
`acceptor_client` finds it waiting for ever.

### PacketReceiverProofs

| theorem | statement |
|---|---|
| `HeaderRoundTrip` | the digits of `n < UINT32`, least significant first, are read back as `n` |

`PacketReceiver` has a recursive function (`Weight`) and a fold over the header.  The
prover cannot instantiate the library's induction theorems, whose parameter is an operator, so
this module begins with induction on sets instead: `LeastElement`, from it `Induction` for a set that
has 0 and with each number the next, `RecursionExists` for functions defined by recursion, and
`SumsExist` for a fold of a sum.  `RemainderUnique` and `NextDigit` are the arithmetic of
digits.  On these rest `HeaderRoundTrip`, what `Append_` leaves where it was and puts behind it
(`AppendBehindOffset`), and `OnReceiveFills`: a receiver that has the beginning of a
packet and gets the bytes behind it has a longer beginning, knows the length once it has
the header, and reports as remaining what it did not take.

### ServerSessionProofs

| theorem | statement |
|---|---|
| `NothingBeyondBuffer` | `Spec => []WithinBuffer` |
| `InductiveInvariant` | `~Coalescing` implies `Spec => []IInv` |
| `TypeCorrect` | `~Coalescing` implies `Spec => []TypeOK` |
| `ReceiverFollowsStream` | `~Coalescing` implies `Spec => []HoldsNextPacket` |
| `PacketsInOrder` | `~Coalescing` implies `Spec => []HandledInOrder` |

`~Coalescing` says that no piece has bytes of two packets.  It is what the example's
dialogue provides, the other case is a flaw of the loop that the run `server_coalesced` shows, and
without the hypothesis the last three statements are false.  `NothingBeyondBuffer` needs no
hypothesis: it rests on `Sound`, what is true however the stream is cut.
`IInv` adds that the receiver has the beginning of the packet after those handled
(`HoldsBeginning`), that the piece in the loop goes on where the receiver stops (`PieceFits`), and
that only an invalid packet is ever left in it (`StuckInvalid`).

### ClientSocketProofs

| theorem | statement |
|---|---|
| `InductiveInvariant` | `Spec => []IInv` |
| `TypeCorrect` | `Spec => []TypeOK` |
| `RequestsOut` | `Spec => []RequestsInOrder` |
| `ResultsHandled` | `Spec => []ResultsInOrder` |
| `Survival` | `Spec => []SurvivesWhileConnected` |

The invariant comes in parts, and each is shown to be kept with the help of those before it:

1. `Control`: where the threads can be, and that the lock of the send list is held by the
   one in the loop of `TrySendPacket`.
2. `Members`, `Lifetime`: types, and that `handle_` leads to the socket while there is one.
3. `Registered`: `events_` is empty, has the notification, or that and the socket's event, and
   a registration is requested once.
4. `Queued`: `send_buffers_` has the latest requests, and what a `send` has just taken counts
   from where `sending_size_` was.
5. `WireAccounts`: what is on the wire is all requests before the list, `sending_size_`, and what the
   `send` in progress took.  `Close` clears `sending_size_` without the lock before it closes the
   socket, so the account is suspended between the two (`Undisturbed`).
6. `Received`: `packet_receiver_` has the beginning of one result and `recv_buffer_` what
   follows (`HoldsResult`, `HoldsRest`, `Complete`); results come one at a time because a
   request is sent for each but the last (`Exchanged`), so the library's loop, which has the
   server's flaw as well, never meets two in one piece.
7. `Kept`: while the connection is up and main has not begun to close, nobody closes the
   socket, erases its event or lets go of the session (`Connected`, `MainHolds`, `Listed`),
   the loop over the events stays within them (`Scanning`), and `fault` is `"none"` (`Living`).

### BuilderProofs and BuilderUseProofs

| theorem | statement |
|---|---|
| `BuilderInvariant` | `Spec => []UseInv` |
| `BuilderMemoryKept` | `Spec => []MemoryKept` |
| `BuilderStays` | `Spec => [][StepStays]_vars`: no step within a buffer changes a byte of what is serialized, or its distance from the end |
| `BuilderWritesAll` | `Spec => []AllWritten`: no byte given out is one that nothing has written |
| `BuilderReadsBack` | if `StructsPadded`, then `Spec => [](Asserted => ObjectsReadBack)` |
| `BuilderFinishesSound` | `Spec => [](Asserted => FinishedIsSound)` |
| `BuilderSharesOnce` | `Spec => [](Asserted => SharedOnce)` |

for any first block, strings, vectors, structs and fields (`UseAssumption` gives their types,
the sizes scalars have, the alignments `VerifyAlignmentRequirements` allows and the offsets
`FieldIndexToOffset` gives), any number of objects, fields and buffers, and so for any number
of times the block is replaced.  Numbers in the model of the block are unbounded.  Two
hypotheses remain:

* `Asserted` (of a state): no `FLATBUFFERS_ASSERT` of the builder has failed in this buffer,
  and it is at most `FLATBUFFERS_MAX_BUFFER_SIZE` long, beyond which a reference of 32 bits
  does not reach; `vector_downward.h:140` asserts this whenever more is written.
  It cannot be left out: constants that satisfy `UseAssumption` allow a table of 64K
  (`flatbuffer_builder.h:373` asserts that there is none), whose vtable cannot say where its
  fields are.  It is not inductive either and need not be: each action keeps
  `MemoryInv` whatever happens, and an assertion that has failed has failed until the next buffer.
* `StructsPadded` (of the constants, for `BuilderReadsBack` only): vectors of structs aligned
  by one byte are such that `CreateVectorOfStructs` pads them right (section 4).  For greater
  alignments that is proved (`AlignedArePadded`).

In the instance that TLC checks both hold in every state.

`UseInv == MemoryInv /\ (Asserted => ObjectsInv)`.  `MemoryInv` says that the builder is in
`Builders(detached)`, which has two layers:

1. `Vectors(d)`: a `vector_downward` of which `mem` is defined on exactly the reserved bytes,
   `cur` is `reserved - size` and not below `scratch`, and which shares the heap with the detached
   block d and nobody else.  A write outside of the block would extend `mem`, so each
   operation's lemma (`Reallocates`, `MakesSpace`, `Pushes`, `PushesOnScratch`, `Puts`, `Pops`,
   `Clears`, `Resets`, `Releases`, `Destroys`) also says that it writes inside, and what
   happens to the bytes below `scratch`.
2. `Builders(d)`: on top of it, the scratch pad ends with `num_field_loc` FieldLocs behind whole
   offsets (`LocsFit`), the id in each is at most `max_voffset_`, and every serialized byte is
   written (`Clean`).  This is what `MemoryKept` leaves unsaid: `EndTable` makes room for a
   vtable of `max_voffset_` and then writes wherever the ids that it reads back from the scratch
   pad say.  It holds because whatever is serialized between (`Grown`) leaves the scratch pad as
   it is, through every reallocation.

`ObjectsInv` says what the bytes are, by offsets from the end, which are all that a reallocation
keeps:

3. `Holds(v, o, s)`: the bytes s begin o bytes before the end.  `Stays(v, w)` carries it from
   one state to the next (`HoldsOn`), and each operation's lemma says that it only grows.
4. `ObjectAt`: at the offset of each object there is what its kind asks for (`TextAt`,
   `ScalarsAt`, `OffsetsAt`, `TextsAt`, `StructsAt`, `TableAt`), at a multiple of its
   alignment, counted from the end, and `minalign_` is no less.  When `Finish` pads the whole
   to `minalign_` (`FinishedWhole`), the same holds counted from the first byte.
5. `TableOpen`: while a table is built, each FieldLoc says where the value of one of its fields is,
   and each field but a default has one.  `EndTable` turns this into `TableAt`: the vtable has
   0 for the fields without a FieldLoc and the distance for the others, and is the one that is there
   already when its bytes are the same.  A step that takes the new vtable back is the hard
   one: what it uses in its place must say the same of this table (`VBytesSame`).
6. `VTablesIn`: the offsets at the bottom of the scratch pad are those of vtables, and no two are
   the same if the builder shares them.  `SharedStringsOnce` says that of strings: a string
   that is found in the pool and taken back was the last thing written.

What is read follows from 4 (`StringReadsBack` to `TableReadsBack`, on top of `ReadsHeld`: what
`EndianScalar` wrote, `ReadScalar` reads).

`BuilderProofs` has the lemmas about the operators of the block and the builder, from the
memory to what is read at an offset; `BuilderUseProofs` has `ObjectsInv`, one lemma for each action,
and the theorems.  The loops over the fields, over the offsets of a vector and over its strings are folds; the lemmas
`FoldExists`, `FoldStays` and `FoldCounts` stand for the induction over their indexes.  (`BuilderProofs` repeats `LeastElement`, `Induction` and
`RecursionExists`, since it cannot extend a module with the constants of `PacketReceiver`.)

### Not proved

All liveness is checked by TLC only: the prover has neither fairness nor ENABLED.  So are the
properties of `MessageExchange`, whose modules use recursive operators over
documents.  `UseInv` itself is proved and not checked: it ranges over all vtables there can
be, which TLC cannot enumerate; its consequences are checked.  What the code violates
(section 4) is refuted by TLC.

## 6. Not modelled

* The destruction of sessions and the closing of their sockets on the server: the
  code has neither (`sockets_` only grows).
* `SocketBuffer::Slice`, which nothing calls; the wrap-around of a packet size
  near 2^32.
* `OverlappedContext`'s memset over its `weak_ptr`, the copy of the context in
  `Run`, memory and alignment.
* Socket options, address building, logging, signals.
* Allocations that fail: `packet.h:38` reserves the length a peer sends, and an exception
  there would end the process.
* Of the client: several sockets on one I/O thread, which no caller has.
* Of the FlatBuffers builder: custom allocators, moving and swapping, `force_align`,
  forms of functions that only convert their arguments.  Of its readers: iterators,
  `flatbuffers::Array`, mutation in place, nested buffers.  64-bit values beyond
  their lower half; floating point.
* Of FlexBuffers: floating point, the verifier's reuse tracker (off unless asked for),
  conversion to and from text.
* `idl.h`, `reflection.h`, `minireflect.h`, `util.h`, `code_generators.h`, `flatc.h`,
  `grpc.h`, `registry.h`, `hash.h`: no part of the two programs calls them, and of the parser
  and the code generators the repository has only declarations.

## 7. Plan

Done: the send half, the receive half, the port with the Acceptor, the packets with the
server's session, the client with its I/O thread, each with the proofs of its safety
properties; the FlatBuffers builder, with the proofs of its safety properties; the dialogue,
FlatBuffers and FlexBuffers.  Next, in this order:

1. The verifier on top of `BuilderReadsBack`: that what a builder finished is accepted, for
   which the modules under `MessageExchange` have to be written without recursive operators.
2. The whole server session on one port: receiver, packets and sender, their
   OVERLAPPEDs side by side, against an abstract stream of requests and results.
