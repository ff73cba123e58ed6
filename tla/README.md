# TLA+ verification of the Kinetic C++ client

The Kinetic C++ client talks to a Kinetic drive (a key/value disk) over one TCP or TLS
connection. Its core is a small asynchronous engine without threads of its own: an application
submits requests with callbacks and then calls `Run` again and again; `Run` writes what can be
written, reads what can be read, calls callbacks back, and says which file descriptor sets to
`select()` on. Everything else in the library is built on this engine.

What makes it hard is what callbacks may do while the engine's own loops stand still: submit more
requests, and remove others. Errors, refusals, damaged responses and destruction all have to give
every callback exactly one fate through two objects and three containers, in every order.

This directory holds TLA+ modules for the engine, for the framing of packets below it (in both of
its implementations) and for what lies above it: the calls of the interface and the drive they are
about, the blocking and the threadsafe connections, the key range iterator, and the factory that
opens a connection. TLC configurations check them, and TLAPS checks proofs about the components
where the bookkeeping happens.

## Inventory

| Component | State | Operations | Hard behaviour | What makes it correct |
|---|---|---|---|---|
| `NonblockingReceiver` | `map_` (sequence number -> handler, key), `handler_to_message_seq_map_` (key -> sequence number), the reader of the current response, `connection_id_`, `handler_` | constructor (handshake), `Enqueue`, `Receive`, `CallAllErrorHandlers`, `Remove`, destructor | handlers remove entries of the map the error loop iterates over; responses out of order, repeated, unsolicited, damaged | the two maps stay inverse; no CHECK fails; one fate per handler; returned status tells the truth |
| `NonblockingSender` | `request_queue_`, `sequence_number_`, `current_writer_`, `handler_` | `Enqueue`, `Send`, `Remove`, destructor | handlers submit to the queue that is being drained; a request half written | order of requests, no handler lost or called twice |
| `NonblockingPacketService` | `failed_`, `next_key_`, the sender and the receiver | `Submit`, `Run`, `Remove`, `CleanUp`, destructor | failure in one half; fd sets computed from statuses that callbacks have made stale | fd sets cover the work; each request in one place; callbacks run |
| packet reader and writer | five states: magic, lengths, message, value | `Read`, `Write` | bytes arrive in any pieces | stream is cut into the same packets |
| string reader and writer | bytes transferred | `Read`, `Write` | partial transfers, EINTR, EAGAIN, TLS | every byte once |
| `NonblockingKineticConnection` | `cluster_version_` | one per kind of request, each builds a command and a handler | several connections share a drive; the drive may crash, a response may be damaged | every call takes effect as its arguments say, once; what was acknowledged as persistent stays |
| `BlockingKineticConnection` | one non-blocking connection | the same operations, each through `RunOperation` | timeout racing a late answer; callbacks that hold references to the caller's variables | result is that of this operation |
| `Threadsafe...Connection` (two) | a recursive mutex | the same operations, locked; but `SecureErase` of the blocking one calls `InstantErase` | an iterator bypasses the lock | operations are atomic |
| `KeyRangeIterator` | a frame of keys, position, boundary | construct, `++`, `*`, `==` | keys change between frames; exhausted iterators | keys in order, none skipped |
| `KineticConnectionFactory` | none | connect, handshake, build the engine | order of construction; exceptions | everything built or nothing |
| `SocketWrapper` | fd, TLS session | `Connect`, destructor | several addresses, each may fail at several steps | one descriptor open in the end |
| `MessageStream`, `ByteStream`, `ReaderWriter` | stream, `ssl_created_` | blocking framing for servers and tools | short reads and writes; TLS ownership | every byte once, every session freed once |
| `HmacProvider`, value classes, status codes | none | pure functions | lengths | tables and hashes |

Interactions: the application calls the service; the service calls the sender, then the receiver;
the sender hands each written request to the receiver (`receiver_->Enqueue`) and asks it for the
connection id; both call handlers; handlers call the application's callbacks; those may call
`Submit` and `Remove` of the same service, in the middle of the loop that called them. One thread
runs all of this; the only concurrency is with the drive and the network.

## Modules

| Module | Models | Kind |
|---|---|---|
| `NonblockingReceiver` | `nonblocking_packet_receiver.cc/.h` | component |
| `NonblockingReceiverProofs` | theorems about it | proofs |
| `NonblockingSender` | `nonblocking_packet_sender.cc/.h` | component |
| `NonblockingSenderProofs` | theorems about it | proofs |
| `PacketService` | `nonblocking_packet_service.cc/.h`, with instances `R` and `S` of the two above, the socket, the drive and the application | composition |
| `PacketServiceProofs` | theorems about it, on those about its halves; it implements `RequestBoard` | proofs |
| `RequestBoard` | what a connection promises about requests | abstract specification, implemented by `PacketService` |
| `BlockingConnection` | `blocking_kinetic_connection.cc`, on top of `PacketService` | composition |
| `BlockingConnectionProofs` | theorems about it, on those about `PacketService` | proofs |
| `KeyRangeIterator` | `key_range_iterator.cc`, the drive's GETKEYRANGE and other clients | component |
| `KeyRangeIteratorProofs` | theorems about it | proofs |
| `PacketFraming` | `nonblocking_packet.cc` and `nonblocking_string.cc` at the two ends of a stream | component |
| `MessageStream` | the same with `message_stream.cc`, `byte_stream.cc` and `reader_writer.cc` at either end | component |
| `MessageStreamProofs` | theorems about both | proofs |
| `KineticApi` | the calls of `nonblocking_kinetic_connection_interface.h`, what a callback is told, the state of a drive | vocabulary |
| `AtomicStore` | what the interface promises to applications that share a drive | abstract specification, implemented by `KineticClient` |
| `KineticClient` | `nonblocking_kinetic_connection.cc`, `status_code.cc`, several connections and their drive | composition |
| `KineticClientProofs` | theorems about it: persistence, callbacks, compare-and-swap; it implements `AtomicStore` | proofs |
| `ConnectionSetup` | `kinetic_connection_factory.cc`, `socket_wrapper.cc`, the receiver's constructor | component |
| `ThreadsafeConnection` | `threadsafe_*_kinetic_connection.cc`, with `ConnectionSetup` | composition |
| `ThreadsafeConnectionProofs` | theorems about both | proofs |
| `MC...` | the constants of the runs | model checking |

### How state and actions correspond to the code

A call that may run handlers is cut into steps at the handlers, and only there. `rpc` (receiver),
`spc` (sender) and `runpc` (service) say where the one thread stands; an action is the code from
one such point to the next.

* **Receiver.** `map` and `seqOfKey` are `map_` and `handler_to_message_seq_map_`; both are
  functions whose domain changes. `reader` says whether `nonblocking_response_` is set. A response
  is a record of what `Receive` tells apart: HMAC absent, valid or invalid; whether the command
  parses; connection id or none; unsolicited or not; acksequence or none; success or not.
  `CallAllErrorHandlers` becomes a start, one `CallErrorHandler` for each entry (in any order, as
  the map is unordered) and `AllErrorHandlersCalled`, which is `map_.clear()`; `unvisited` is what
  its iterator has still to come to. A CHECK that would fail sets `aborted`. The constructor's
  handshake loop is part of the model: `Init` is the moment before its first `Receive`, and
  nobody can use the object before `HandshakeSucceeds`.
* **Sender.** `queue` is `request_queue_`, `writer` is `current_writer_` with `message_sequence_`
  and `handler_key_`, `writing` is `handler_`. The packet writer is external: it waits, fails, or
  is done. `sent` is a ghost, the requests on the wire.
* **Service.** `Run` is `Run`, `RunAfterSend`, `RunAfterReceive`, with the steps of the two halves
  in between; `Close` is the destructor, after which the members go in the order C++ gives them:
  the sender, and with its last reference the receiver.
* `fate` is a ghost: the list of what happened to each handler. It is a list, so that a second
  callback would be seen.
* **Environment.** A drive answers requests it has received completely, in any order, with success
  or failure; `MaxFaults` times it sends something else: a second greeting, a repeated answer,
  a wrong HMAC, no acksequence, an unreadable command, bytes that are no packet. The socket may
  break, with or without losing what had arrived.

* **Blocking connection.** `bpc` is where the caller stands in `RunOperation`; between `"first
  run"` or `"run"` and `"loop"` the steps are those of `PacketService`'s `Run`. A request's handler
  is its number, so `Op`, the newest, is the operation's. `expired` says whether `timeout_time`
  has passed: the clock is only that bit. `select()` may report a ready socket whether or not one
  is (EINTR, and a descriptor that turns out to have nothing for a TLS session, both lead to
  `Run`); with time up it polls, and only what is ready counts. `GiveUp` is every early return:
  `RemoveHandler`, whose result is ignored, and CLIENT_IO_ERROR.
* **Iterator.** Keys are numbers in the drive's order. `ask` holds the constructor's arguments,
  `first` and `firstInc` the boundary that moves. `Fetch` is `GetKeyRange` with what follows it;
  when it fails the callback may already have replaced the frame. Copies are values of their own,
  so one iterator is enough. `seen` and `stable` are ghosts: the keys it stood on, and the keys of
  the drive that were there all the time.
* **Calls and the drive.** `KineticClient` begins where `PacketService` ends: a connection is a
  `pipeline` of calls whose commands are executed in order and whose responses come in order. The
  first `written` of them are those whose handlers are in the receiver's `map_`, the others are in
  the sender. The failures are those `PacketService` shows. A response whose HMAC is wrong tells
  the receiver's handlers, and the connection goes on. A write that fails (`SendFails`) tells the
  sender's handlers only, a read that fails (`ReceiveFails`) the receiver's only; the other half
  keeps its own, which can still be removed, until the destructors tell them (`Destroy`), except
  perhaps that of a request half written. A call on a failed connection is told at once.
  `RemoveHandler` asks the sender, then the receiver, failed or not. `Command` is the body of each method of
  `NonblockingKineticConnection`, `Handle` that of each handler; a command is a record of the
  protocol's fields, with the values of `Unset` for those not set. The drive (`DriveDoes`) is
  external: it does with a command what the handlers and the integration tests expect. `asked`
  holds a call as the application made it, `command` what became of it, and nothing but `command`
  goes to the drive: a field left out or set from the wrong argument shows.
  `AtomicStore` has no commands; it says of each call, from its arguments, what it does and what
  there is to tell, with a drive of its own.
* **Threads.** `stack` holds the calls each thread is in; under its top there are only calls whose
  callback made the next one. `owner` and `depth` are the state of the `std::recursive_mutex`.
  `Lock` and `Leave` are the `lock_guard`; `Submit`, `Run` and the rest are what the connection
  inside does to the threads: callbacks run, or the operation waits. `NextFrame` is
  `KeyRangeIterator::next_frame`, which is not locked. Which operation of the connection inside a
  method calls makes no difference to the lock and is not modelled: that `SecureErase` of the
  threadsafe blocking connection (lines 132-140) calls `InstantErase` is listed as a hazard that
  no property covers.
* **Setup.** `step` is where `doNewConnection` stands, `held` a ghost: every socket, `SSL_CTX`,
  `SSL` and packet reader that was made and not released. A constructor that throws runs no
  destructor of its own object, only those of its members.
* **Framing.** The writer moves through the five fields with `FieldWritten`, its string writer
  with `WriteBytes`, in pieces of any size; the reader likewise. A byte has `Base` values and a
  length `Digits` bytes, most significant first; whether a message serializes or parses is a
  constant of the packet. An interrupted or blocked call changes nothing and is no step. `begun`,
  `got` and `taken` are ghosts. The core modules use what this one shows: a packet writer waits,
  fails or is done, a reader waits, fails or yields one packet. `MessageStream` adds, at either
  end, the implementation that waits for its bytes: one read for the header, a limit to the size
  of a message, the message serialized after its header is out, and `wwaited`, `rwaited` for the
  counter `socket_timeout` of the `Write` and the `Read` under way. `StreamNext` is the only
  next-state relation: every pair of implementations meets in one run.

Assumptions about the application: handlers submit and remove, but do not call `Run` and do not
destroy the connection; a handler is passed to one `Submit` only (the interface says so); nobody
uses a connection that is being destroyed. A blocking connection is used by one thread, one
operation after another. An iterator's frame size is not 0 (with 0 it is at its end at once).
Lengths fit in their field.

## Runs

| Run | Question | Bounds | Result |
|---|---|---|---|
| `receiver` | Do the receiver's maps and fates stay right with any caller and any drive? | 3 handlers (symmetric), 2 sequence numbers, 2 keys, every response | 4,286 states, holds |
| `sender` | Are requests kept and ordered with any socket, any receiver, and handlers that submit and remove? | 4 handlers (symmetric), 3 keys | 14,880 states, holds |
| `service` | The same for the whole connection, plus matching of answers, connection id, quiet after failure; and does it implement `RequestBoard`? | 3 requests, 1 fault, everything allowed | 2,229,609 states, holds |
| `service_live` | Does an application that follows the manual's `select()` loop see every callback? | 3 requests, removal, no failure | 26,883 states, holds |
| `lost_wakeup` | The same when handlers submit too | 2 requests | violated |
| `lost_handler` | Does the destructor call back every pending request? | 1 request | violated |
| `blocking` | Does every blocking operation return, with its own result, and when may its callback still run? | 2 operations, 1 fault, the socket may break, destruction in between | 134,454 states, holds |
| `iterator` | Does an iteration see the keys that stay, in order, once, and end? | 4 keys, every range, frames of 1 to 3, 2 increments past the end | 192,483 states, holds |
| `framing` | Is what is read what was written, whichever implementations meet and however the stream is cut up? | 2 packets of 5 kinds, 1 stray byte, a stream of 2 bytes, bits for bytes, two-digit lengths, messages of at most 1 byte for `MessageStream`, 2 attempts | 560,884 states, holds |
| `client` | Does every call of the interface take effect as it promises, is its callback told once, a persistent write kept and a conditional write done once, on connections that share a drive and whose halves fail? | 2 connections (symmetric), up to 3 calls, 75 workloads, 2 keys, 1 fault | 752,966 states, holds |
| `threads` | Are threads kept apart, do their calls return, and does opening a connection leave anything behind? | 3 threads, 4 calls of 5 kinds, iterators of one more frame, 2 addresses | 41,384 states, holds |
| `shared_iterator` | The same for an iterator used beside other calls | 2 threads, 2 calls | violated |

Why the bounds are enough to meet the interesting cases. Two sequence numbers and two keys let a
number and a key be reused, collide, and collide separately; three handlers allow one in its
callback, one it removes and one that stays. In the sender, four handlers put one request on the
wire, two in the queue, and leave one to be submitted by a handler while the queue is drained;
two queued requests may share a key. In the connection, three requests can be queued, being
written and awaited at the same time. One fault suffices for each kind of bad response, as each
either fails everyone or is skipped. Two blocking operations let the first time out while it is
queued, being written or awaited, and its answer arrive during the second. Four keys with frames
of one to three give one frame, several, a last frame that is full, and a range whose boundary
key is deleted between two frames. A stream shorter than a field cuts every field of two bytes
in two; the five packets are an empty value, an empty message, one whose bytes look like the
start of a packet, one that does not parse and one that does not serialize. In `client` the
workloads hold every call of the interface after one that changes what it would find (a record
stored, a device locked, a PIN or a cluster version set); the one fault is a crash of the drive, a
damaged response, a failure of either half, an error of the drive, a removed handler, or the
destruction of a working connection. Five workloads are three
calls about one key: the write that creates it and two conditional ones, in either order and from
either connection, or a write, a Flush and a Get. What the application does with a connection
that has failed (removal, destruction) is no fault and is not bounded, so the one fault can be a
half that fails, after which the handlers of the other are removed or kept, and the destructor
comes last. Three threads are one
that holds the lock, one that waits for it and one that has an iterator; four calls allow a
callback to call again while others wait. The class with its calls is chosen at the start, so
each run covers both.

`CHECK_DEADLOCK FALSE` is set in all runs because the system really stops: after the destructor,
after a handshake that threw, and after all requests of the bounded application.

### Fairness

`service_live` and `lost_wakeup` use `FairSpec` of `PacketService`. Weak fairness of `ClientStep` says that the
thread goes on and that handlers return; of `Run`, that the application calls `Run` when the
manual's loop would (`AppSelects`: after it submitted, and when `select()` on the fd sets it was
given would return); of `Greet` and `Answer`, that the drive greets and answers; of `WriteWaits`,
that a write attempt returns; strong fairness of `WriteDone` says that a socket which is tried again and again takes the
whole request in the end. Nothing is assumed about a socket nobody selects on, which is why the
lost wakeup is found.

`BlockingSpec` asks less: that the thread goes on (`RunOperation`, `ClientStep`), that write
attempts return and succeed as above, and that time passes (`DeadlinePasses`). It expects nothing
of the drive, and does not rely on `select()` failing (`SelectFails`). That no fairness of the
drive is needed rests on `MaxFaults` and the bounded requests: a drive that sends packets without
end, each before the reader asks for the next, keeps `Receive` in its loop, and then no deadline
is looked at. In `KeyRangeIterator` the application goes on incrementing and each `GetKeyRange`
returns, which is what `OperationsReturn` shows; other clients may put keys for ever. In
`MessageStream` each end goes on while it can move bytes: the non-blocking one is called again when
`select()` says so, the other is in a loop. `ThreadsafeConnection` assumes that each thread and the
factory go on, and nothing of the drive or of the order in which threads get the lock: as calls
are bounded by `MaxCalls`, a thread is passed over only finitely often. With an unbounded stream of
calls a `std::recursive_mutex` promises no thread its turn, and neither does the model. `receiver`,
`sender`, `service` and `client` state no fairness, as they check safety only.

### What the violated runs show

1. `lost_wakeup`: `Run` calls `Send`, then `Receive`, then fills the fd sets from what the two
   returned. A callback that submits a request during `Receive`, after `Send` has returned
   `kIdle`, leaves a queued request and, if nothing else is outstanding, two empty fd sets. The
   application of DoxygenMainPage.md:92-98 then sleeps in `select()` for ever, and the callback,
   which "will be called once the operation succeeds or fails" (line 60), is not. Programs that
   call `Run` with a `select()` timeout are not affected.
2. `lost_handler`: the sender's destructor fails what is queued, not the request that
   `current_writer_` has begun to write; its callback never runs. `RequestBoard` therefore allows
   one abandoned request, and `OnePlace` shows that it is never more.
3. `shared_iterator`: `IterateKeyRange` of the threadsafe blocking connection holds the lock while
   the first frame is fetched. The iterator it returns keeps a pointer to the connection inside and
   fetches every later frame without the lock, while another thread may be inside. Programs that
   use no iterator beside other calls are not affected (`OneThreadInside`).

## Proofs

`NonblockingReceiverProofs` proves, for every set of handlers, keys, sequence numbers and
connection ids satisfying `ConstantsOK` (keys and sequence numbers are naturals, so that -1 is
the handshake's own; the empty pointer and absent fields are distinct values):

| Theorem | Property |
|---|---|
| `TypeCorrect` | `TypeOK` |
| `NoCheckFails` | `ChecksHold` |
| `MapsStayInverse` | `MapsInverse` |
| `AtMostOneCall` | `CalledOnce` |
| `NoneDropped` | `NeverDropped` |
| `ReturnsTruly` | `ReturnIsTrue` |

The inductive invariant is `IInv == TypeOK /\ ChecksHold /\ MapsInverse /\ CalledOnce /\
FatesAgree /\ PositionsAgree`. `MapsInverse` alone implies that the next CHECK holds, but it is
not inductive: that an error loop ends with an empty key map needs `unvisited`, and
`CalledOnce` needs to know that a handler in `map_` has no fate yet and is there under one
sequence number only (`FatesAgree`), and that `handler_` is empty wherever `CallAllErrorHandlers`
starts (`PositionsAgree`) - the reason why its first `if` never calls a handler twice. Each
action has its lemma; `QuietStep` disposes of those that touch no map and no handler. The two
action properties follow from `IInv` and one step.

`NonblockingSenderProofs` proves, for every set of handlers, keys and connection ids satisfying
`SenderConstantsOK` (the empty handler is no handler, the empty writer no writer):

| Theorem | Property |
|---|---|
| `SenderTypeCorrect` | `SenderTypeOK` |
| `SenderCallsAtMostOnce` | `SenderCallsOnce` |
| `SentStaysInOrder` | `SentInOrder` |
| `SenderDropsNone` | `SenderKeepsHandlers` |
| `SendReturnsTruly` | `SendReturnIsTrue` |

The inductive invariant is `SInv == SenderTypeOK /\ CalledOnce /\ HeldOnce /\ NumbersGrow /\
PositionsKnow`. `HeldOnce` says that no handler is in the queue twice, or in the queue and being
written, and that a held handler has no fate until the position in `Send` at which it is called;
without it `CalledOnce`, one fate at most, is not inductive. `NumbersGrow` compares the wire, the request being
written and the queue pairwise, and with `sequence_number_`; `SentInOrder` is the same about one
concatenated line (`RisingJoined` glues the pieces). `PositionsKnow` says what each position of
`Send` knows of `current_writer_` and `handler_`, above all that a drain of the living object
finds `handler_` empty. The lemmas before it say what `Append`, `Tail` and `RemoveAt` leave of
a queue of different handlers and growing numbers. `SenderCallsOnce` says two things of a step that
gives a handler a fate: it is the first one, and the handler's request was not written before, so
what the receiver has accepted the sender neither calls nor removes. The first follows from
`SInv`; for the second `Unwritten` says that no handler the sender holds belongs to a request on
the wire, but for the one the receiver has just refused. It needs callers that pass a new handler
to each `Enqueue`, and so is an invariant of `SenderSpec` only, not of every user of the sender.

`PacketServiceProofs` proves, for every number of requests, faults and removals
(`ServiceConstantsOK`) and any values of the markers that differ (`MarkersOK`):

| Theorem | Property |
|---|---|
| `ServiceTypes` | `ServiceTypeOK` |
| `EachInOnePlace` | `OnePlace` |
| `InOrderOnTheWire` | `WireOrder` |
| `SuccessIsAnswered` | `AnswersMatch` |
| `Accepted` | `NeverRefused` |
| `QuietOnceFailed` | `QuietAfterFailure` |
| `ServiceImplementsBoard` | `ImplementsBoard` |

The inductive invariant is `PInv == RP!IInv /\ SP!SInv /\ Control /\ Numbered /\ Ledger /\
DriveKnown`. `RP` and `SP` are instances of the two proof modules above, so a step of one half keeps
that half's invariant by the lemma proved there; what is new is that it keeps the other half's too,
as both write the one ghost `fate`, and what each half takes for granted of its caller. `Control`
says which positions of the receiver, the sender and `Run` go together, `Numbered` that one number
names a request everywhere (its handler, its key, its sequence number) and that the connection id it
announces is the drive's. `Ledger` says that what was not submitted has no fate, and that nothing is
abandoned before the sender is gone, and then one request at most. `DriveKnown` says that answers
are for requests the drive got, and that a success in the inbox is one the drive gave; without it
`AnswersMatch` is not inductive. Each action has one lemma, `PInv /\ A => PInv' /\ Effect`, where
`Effect` lists what a step can be for the board: no change, one request settled, admitted or
turned down, the link broken, closed or ended, the one request lost. Steps of `RequestBoard` are
read off `Effect` (`BoardStep`). TLC checked `PInv` with three requests, and `Effect` with two,
before they were proved.

`BlockingConnectionProofs` proves, from the same assumptions, for every number of operations and
faults:

| Theorem | Property |
|---|---|
| `BlockingUsesService` | every behaviour of `BlockingSpec` is one of the service's `Spec` |
| `BlockingTypes` | `BlockingTypeOK` |
| `ResultsAreTrue` | `ResultsMatch` |
| `OnlyWrittenIsLate` | `OnlyTheWrittenIsLate` |
| `SuccessIsReported` | `SuccessLostOnlyByFailure` |

By `BlockingSteps` every step is one of the service or leaves it alone, so `PInv` holds below. The
new invariant is `BInv == Standing /\ Undamaged /\ Alive /\ InTime /\ ResultsMatch`. `Standing`
says which positions of `RunOperation` and `Run` go together, and which operations have a result.
The rest is about the one way in which a wrong result could arise: a request's callback is told an
error that is not the drive's. As long as nothing damaged has come (`Undamaged`), that happens only
in a `Run` that is about to return false (`InTime`), and then `RunOperation` returns
CLIENT_IO_ERROR without a look at what the callback wrote. `Alive` says that a half that has
reported an error is not called again in the same `Run`.

`KeyRangeIteratorProofs` proves, for every set of keys (integers, their order that of the drive),
every set of positive frame sizes and every range:

| Theorem | Property |
|---|---|
| `IteratorTypeCorrect` | `IteratorTypeOK` |
| `KeysInOrder` | `SeenAscend` |
| `NoStableKeySkipped` | `StableKeysSeen` |

The inductive invariant is `IterInv == IteratorTypeOK /\ SeenAscend /\ StableKeysSeen /\ Standing /\
NoneSkipped`. `Standing` says where the iterator is: the frame ascends and lies beyond the boundary,
and the last key seen is the one it stands on, so that whatever the next frame brings is greater.
`NoneSkipped` says that a stable key of the range has been seen, or is still ahead in the frame, or
lies beyond the frame's last key: with it, an empty frame means that every stable key was seen.

`ThreadsafeConnectionProofs` proves, for every set of threads, every number of addresses, calls and
frames, and every set of calls in use:

| Theorem | Property |
|---|---|
| `ThreadsTypeCorrect` | `ThreadsTypeOK` |
| `NothingElseLeaks` | `OnlyKnownLeaks` |
| `OneThreadInside` | `OneInside`, if `IteratorsAlone` |

The inductive invariant is `ThreadsInv == SetupInv /\ LocksInv /\ CountsOK`. `SetupInv` adds to
`OnlyKnownLeaks` what is held at the steps in between (`HeldAt`) and that `fd_` is the socket of the
address that accepted (`FdAt`); without it a failing step could close a descriptor it does not
have. `LocksInv` describes the stacks: under the top there are only calls in a callback, each of
which holds the lock once, and the calls of an iterator are alone on theirs and hold none. From
that the depth of the mutex is the number of locks of its owner, and that of any other thread is
0. `OneInside` needs besides that a fetching iterator is alone, which is what `IteratorsAlone` says.

`KineticClientProofs` proves, for every set of keys, versions, connections and workloads, and every number of calls and faults under `ApiConstantsOK` (keys are naturals, the
empty string is no version, a drive does not turn a call down with SUCCESS) and `DriveErrorsOK` (the
table of status codes makes a refusal of each error a drive may have):

| Theorem | Property |
|---|---|
| `AcknowledgedSurvives` | `AckedSurvives` |
| `CallbacksToldOnce` | `ToldOnce` |
| `ClientImplementsStore` | `ImplementsStore` |
| `SwapsSucceedOnce` | `SwappedOnce` |
| `ClientTypes` | `ClientTypeOK` |

The first inductive invariant is `ClientInv == Sound(drive) /\ RequestsOK /\ CoversDurable /\ ... /\
AckedSurvives`. `RequestsOK` says that what waits in a pipeline has the command of its own arguments
(`Carried`), `Sound` that nothing durable is newer than what is stored, and `CoversDurable` that
what a call covers is durable from the moment the drive did it, long before anyone is told. The
argument has three parts: the command asks for what the call promises (`CommandOfCall`), the drive
does what the command asks (`DriveObeys`), and nothing durable ever gets older (`Follows`), a crash
included.

`ToldOnce` needs `TellInv == Ahead /\ Queued /\ InOrder /\ Apart` and `Arrived`: no call in the future
has an answer, what waits in a pipeline with its handler was told nothing, calls wait in the order
they were made and are answered in it, no call waits on two connections, and only what is written
is answered. Every failure thins a pipeline out (`Thinned`: entries or handlers are lost, order is
kept), and `InOrder` and `Apart` survive that. For `Queued` each failure needs its own argument
(`SendFailureTells`, `ReceiveFailureTells`, `DamageTells`, `DestructionTells`): the half that tells
its handlers also forgets them, and what the other half keeps are other calls (`TicketsDiffer`), so
that a later removal, or the destructor, finds only handlers that were told nothing
(`ToldAreForgotten`).

`ClientImplementsStore` is the step simulation. `SameAnswers`, `SameChanges` and `SameQuestions` show
that the two modules share their vocabulary. Then, for each method of the interface,
`Renders` is shown: the command that the method builds, carried out by the drive, and its response,
read by the method's handler, come to the outcome and the answer that `AtomicStore` says for the
arguments of the call. The mapping counts a call as answered from the moment the drive answered it, so
`DriveExecutes` is the store's step that takes effect, or refuses, and `Callback` the one that
tells; a damaged response, the failure of a half and the destruction of a connection are `GiveUp`
for the calls they touch, a crash of the
drive is a crash of the store. The invariant is `StoreInv == ClientInv /\ TellInv /\ AheadUnasked`: a
command that waits is the one of its own arguments, so that what the drive does with it is what
the call asked for.

`ClientTypes` proves `ClientTypeOK`, which no run checks: a drive stays a drive, by what `AtomicStore` says
of each call. The records pushed to a peer come of a recursive function over the operations of
a push; `StepsExist` shows by the least counterexample (`LeastOf`) that there is such a function for
a push of any length, and `PushedPeer` the same way that it keeps the type.

`SwappedOnce` has the invariant `SwapInv == Fresh /\ ToldTruly /\ Genuine /\ Matched`, kept by the steps that keep
`ClientInv`. Counting successes is not inductive. `Matched` instead keeps, for each key and
version, an injection from the swaps the drive carried out to the calls whose records they
replaced: each of these was there, under the version the swap required (`SwapReplaces`), and is
neither stored nor durable any more, so that no crash brings it back for a second swap. That is
where the property needs the write to be persistent. `Genuine` says that a record with a version
has the value of a call that stored it, `Fresh` that this call is never the one being carried out,
and `ToldTruly` that only a SUCCESS is reported as OK. `FS_Injection` then turns the injection into
the inequality of `SwappedOnce`.

`MessageStreamProofs` proves, for bytes of any number of values, length fields of any number of
digits, any packets, streams of any capacity, any number of stray bytes and either implementation
at either end (`FramingConstantsOK`: what may be written is a message and a value, each shorter than
a length field can say; `StreamConstantsOK`: a message of no bytes that lacks fields does not parse):

| Theorem | Property |
|---|---|
| `FramingTypes` | `FramingTypeOK` |
| `ReadsOnlyPackets` | `ReadsExactly` |
| `WhatIsReadWasWritten` | `Delivered` |
| `LengthsSurvive` | `DecodeLength` and `EncodeLength` undo each other, on every length and every field |
| `UniqueDecoding` | different lists of packets have different bytes |

The inductive invariant is `IInv == ReaderOK /\ WriterOK /\ StreamBytes /\ StreamOK /\ TimersOK`.
`ReaderOK` says what has been taken from the stream: the encoding of the packets read, then the fields
of the packet the reader stands in (`Before`), then what its string reader holds; and that the
sizes it waits for are those the lengths say. `ReadsExactly` says this only between two packets,
and so is not inductive. It holds whatever bytes come, because any bytes of a length field are the
encoding of the number they are read as (`EncodeOfDecode`). `StreamOK` is about the whole line: what
was taken, what is under way and some more bytes are what the writer has announced, which is every
packet before the last and the last one `Upto` the field the writer is at. As long as the stream is
open, the bytes still to come are those the string writer has left; once it is closed, any may be
missing. A writer that failed stands where it failed.

`Delivered` follows in two steps. Taken and announced bytes agree, so the encodings of two lists of
packets begin alike; and no packet's encoding is the beginning of another's (`EncodeDistinct`), as equal
headers give equal lengths and equal lengths give equal parts. `DecodedInOrder` carries that through
the list. A packet that cannot be serialized is the one that matters: what the writer leaves of it,
a magic byte or a whole header, must not look like a packet (`NoPackets`), which for a header is
the assumption about messages of no bytes.

The lengths, and the bytes of a list of packets, are recursive functions (`Power`, `DecodeLength`,
`FlattenSeq`). `Recursion` shows that such a function exists, and `Induction` that what holds of 0
and passes from each number to the next holds of all, both by the least counterexample.

### What the other runs show of the code

* `blocking`: the timeout is an absolute deadline from the first `Run` on. An operation that
  returns CLIENT_IO_ERROR may still be carried out by the drive, its answer is then skipped;
  only a request half written keeps its callback, which refers to the caller's variables and runs
  later (`OnlyTheWrittenIsLate`). An operation may return CLIENT_IO_ERROR although its callback
  has seen a success, when the same `Run` then fails (`SuccessLostOnlyByFailure`).
* `framing`: the two implementations understand each other. A message that cannot be serialized
  leaves one magic byte on the wire in one implementation and a whole header in the other; the
  caller has to stop then, as the service does.
* `client`: the callback of a call that failed with a client's error does not say that nothing
  happened: the call may have taken effect, and may still (`AtomicStore`'s `GiveUp`); a damaged response gives that answer for every request written
  so far. `SwappedOnce` says nothing of the empty version, which is both "no version" and "no
  record". A lock of the device is reported as REMOTE_OTHER_ERROR, as the table has no entry.
* `threads`: two objects are never freed: the `SSL_CTX` when `SSL_new` fails (the constructor of
  `SocketWrapper` throws), and the packet reader when the greeting does not come (the constructor
  of `NonblockingReceiver` throws). With TLS the factory waits without limit for a silent peer.

Model-checked only:

* liveness (`EveryCallbackRuns`, `OperationsReturn`, `IterationEnds`, `AllArrive`, `CallsReturn`): the
  prover knows neither fairness nor ENABLED. Every other property of the passing runs is the
  statement of a theorem.

## Not modelled yet, and the plan

In this order:

1. *(done)* `NonblockingReceiver`, `NonblockingSender`, `PacketService`, `RequestBoard`, and the
   theorems about the receiver.
2. *(done)* Proofs for `NonblockingSender`.
3. *(done)* `BlockingConnection`: `RunOperation` over `PacketService`, with a deadline.
4. *(done)* `KeyRangeIterator` and its proofs.
5. *(done)* `PacketFraming`, and `MessageStream` with it.
6. *(done)* `ThreadsafeConnection`, `ConnectionSetup` and their proofs.
7. *(done)* `KineticClient` and `AtomicStore`, and the proofs of `AckedSurvives` and `SwappedOnce`.
8. *(done)* Proofs about the compositions: `PacketService` from the invariants of its parts and its
   step simulation of `RequestBoard`, `BlockingConnection` on top of it, and the step simulation of
   `AtomicStore` by `KineticClient`.
9. *(done)* The safety of the framing, with lengths and the bytes of several packets as recursive
   functions: decoding undoes encoding, and what is read is what was written.

Not modelled: `MessageStreamFactory` (it accepts TLS sessions at a server's end; nothing in this
repository calls it); `ConvertToProtoStatus` (for servers); the operations nested in a push of
`P2PPush`, and the tag and algorithm of a record, which the client passes on unread; the
registration of locks with OpenSSL. TLS is a choice of failures, not a protocol. A response without
acksequence is in `NonblockingReceiver` and `PacketService` only.

Left out for good: `HmacProvider` (a keyed hash), the value classes (buffers), logging, and the
vendored and generated code.
