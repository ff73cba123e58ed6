------------------------- MODULE NonblockingSender -------------------------
(***************************************************************************)
(* The sending half of a connection: kinetic::NonblockingSender            *)
(* (src/main/nonblocking_packet_sender.cc).                                *)
(*                                                                         *)
(* Requests wait in request_queue_ until Send has written those before     *)
(* them; a written request is handed to the receiver, which waits for its  *)
(* response.  As in NonblockingReceiver, Send and the destructor are cut   *)
(* into steps wherever a handler runs (spc), because handlers may submit   *)
(* and remove requests; they do not call Send again.                       *)
(***************************************************************************)
EXTENDS Integers, Sequences, FiniteSets, SequencesExt

CONSTANTS
    Handlers,   \* the handlers callers may pass to Enqueue
    Keys,       \* the handler keys callers may use
    Ids,        \* what receiver_->connection_id() may return
    NoHandler,  \* the empty shared_ptr
    NoWriter    \* no request is being written

ASSUME SenderConstantsOK ==
    /\ NoHandler \notin Handlers
    /\ NoWriter \notin [seq : Nat, key : Keys, id : Ids]

VARIABLES
    sphase,        \* of the object: usable, in its destructor, or gone
    queue,         \* request_queue_
    nextSeq,       \* sequence_number_
    writer,        \* current_writer_, message_sequence_ and handler_key_
    writing,       \* handler_, the handler of the request being written
    sent,          \* ghost: the requests written completely, in order
    spc,           \* how far the current call of Send is
    sstatus,       \* what Send returned last, or is about to return
    fate           \* ghost: what became of each handler, in order

sndVars == <<sphase, queue, nextSeq, writer, writing, sent, spc, sstatus, fate>>

SendPositions == {"out",       \* no call of Send is active
                  "sending",   \* at the top of Send's loop
                  "refused",   \* in the Error of a handler the receiver refused
                  "failed",    \* in the Error of the request being written
                  "draining",  \* in the loop that empties request_queue_
                  "drained"}   \* in an Error which that loop called

SendFates == {"succeeded", "failed", "removed"}

SendInCallback == spc \in {"refused", "failed", "drained"}

Fated(h, what) == [fate EXCEPT ![h] = Append(@, what)]
KeysQueued     == {r.key : r \in ToSet(queue)}
HandlersQueued == {r.handler : r \in ToSet(queue)}

SenderInit ==
    /\ sphase = "open"
    /\ queue = << >>
    /\ nextSeq = 0
    /\ writer = NoWriter
    /\ writing = NoHandler
    /\ sent = << >>
    /\ spc = "out"
    /\ sstatus = "none"

-----------------------------------------------------------------------------
(* The request is numbered, signed with the connection id the receiver     *)
(* knows now, and queued.                                                  *)
Enqueue(h, k, id) ==
    /\ sphase = "open" /\ (spc = "out" \/ SendInCallback)
    /\ queue' = Append(queue, [handler |-> h, key |-> k, seq |-> nextSeq,
                               id |-> id])
    /\ nextSeq' = nextSeq + 1
    /\ UNCHANGED <<sphase, writer, writing, sent, spc, sstatus, fate>>

\* Seeded fault: removing a request gives its sequence number back.
RemoveRenumbers(k) ==
    /\ sphase = "open" /\ (spc = "out" \/ SendInCallback)
    /\ \E i \in DOMAIN queue :
        /\ queue[i].key = k /\ \A j \in 1 .. i - 1 : queue[j].key # k
        /\ queue' = RemoveAt(queue, i)
        /\ fate' = Fated(queue[i].handler, "removed")
    /\ nextSeq' = nextSeq - 1
    /\ UNCHANGED <<sphase, writer, writing, sent, spc, sstatus>>

(* Only a request Send has not begun to write can be removed: the first    *)
(* one with this key.                                                      *)
RemoveQueued(k) ==
    /\ sphase = "open" /\ (spc = "out" \/ SendInCallback)
    /\ \E i \in DOMAIN queue :
        /\ queue[i].key = k /\ \A j \in 1 .. i - 1 : queue[j].key # k
        /\ queue' = RemoveAt(queue, i)
        /\ fate' = Fated(queue[i].handler, "removed")
    /\ UNCHANGED <<sphase, nextSeq, writer, writing, sent, spc, sstatus>>

-----------------------------------------------------------------------------
SendReturns(st) == spc' = "out" /\ sstatus' = st

CallSend ==
    /\ sphase = "open" /\ spc = "out" /\ sstatus # "kError"
    /\ spc' = "sending"
    /\ UNCHANGED <<sphase, queue, nextSeq, writer, writing, sent, sstatus, fate>>

SendIdle ==
    /\ spc = "sending" /\ writer = NoWriter /\ queue = << >>
    /\ SendReturns("kIdle")
    /\ UNCHANGED <<sphase, queue, nextSeq, writer, writing, sent, fate>>

\* Seeded fault: the newest request is taken first.
TakeNewest ==
    /\ spc = "sending" /\ writer = NoWriter /\ queue # << >>
    /\ writer' = [seq |-> Last(queue).seq, key |-> Last(queue).key,
                  id |-> Last(queue).id]
    /\ writing' = Last(queue).handler
    /\ queue' = Front(queue)
    /\ UNCHANGED <<sphase, nextSeq, sent, spc, sstatus, fate>>

\* Seeded fault: the request that is taken stays on the queue.
TakeFront ==
    /\ spc = "sending" /\ writer = NoWriter /\ queue # << >>
    /\ writer' = [seq |-> Head(queue).seq, key |-> Head(queue).key,
                  id |-> Head(queue).id]
    /\ writing' = Head(queue).handler
    /\ UNCHANGED <<sphase, queue, nextSeq, sent, spc, sstatus, fate>>

TakeRequest ==
    /\ spc = "sending" /\ writer = NoWriter /\ queue # << >>
    /\ writer' = [seq |-> Head(queue).seq, key |-> Head(queue).key,
                  id |-> Head(queue).id]
    /\ writing' = Head(queue).handler
    /\ queue' = Tail(queue)
    /\ UNCHANGED <<sphase, nextSeq, sent, spc, sstatus, fate>>

(* The socket takes no more bytes for now.                                 *)
WriteWaits ==
    /\ spc = "sending" /\ writer # NoWriter
    /\ SendReturns("kIoWait")
    /\ UNCHANGED <<sphase, queue, nextSeq, writer, writing, sent, fate>>

(* The request is written; accepted says what receiver_->Enqueue returned. *)
WriteDone(accepted) ==
    /\ spc = "sending" /\ writer # NoWriter
    /\ sent' = Append(sent, [handler |-> writing, seq |-> writer.seq,
                             id |-> writer.id])
    /\ writer' = NoWriter
    /\ IF accepted
         THEN writing' = NoHandler /\ UNCHANGED <<spc, fate>>
         ELSE /\ fate' = Fated(writing, "failed")
              /\ spc' = "refused"
              /\ UNCHANGED writing
    /\ UNCHANGED <<sphase, queue, nextSeq, sstatus>>

\* Seeded fault: handler_ is not reset after the receiver refused it.
RefusedReturnsSet ==
    /\ spc = "refused"
    /\ spc' = "sending"
    /\ UNCHANGED <<sphase, queue, nextSeq, writer, writing, sent, sstatus, fate>>

RefusedReturns ==
    /\ spc = "refused"
    /\ writing' = NoHandler
    /\ spc' = "sending"
    /\ UNCHANGED <<sphase, queue, nextSeq, writer, sent, sstatus, fate>>

(* The write failed: the handler of this request, then those of all        *)
(* queued requests get an Error.  current_writer_ is kept.                 *)
WriteFails ==
    /\ spc = "sending" /\ writer # NoWriter
    /\ fate' = Fated(writing, "failed")
    /\ spc' = "failed"
    /\ UNCHANGED <<sphase, queue, nextSeq, writer, writing, sent, sstatus>>

FailedReturns ==
    /\ spc = "failed"
    /\ writing' = NoHandler
    /\ spc' = "draining"
    /\ UNCHANGED <<sphase, queue, nextSeq, writer, sent, sstatus, fate>>

DrainOne ==
    /\ spc = "draining" /\ queue # << >>
    /\ fate' = Fated(Head(queue).handler, "failed")
    /\ queue' = Tail(queue)
    /\ spc' = "drained"
    /\ UNCHANGED <<sphase, nextSeq, writer, writing, sent, sstatus>>

DrainedReturns ==
    /\ spc = "drained"
    /\ spc' = "draining"
    /\ UNCHANGED <<sphase, queue, nextSeq, writer, writing, sent, sstatus, fate>>

\* Seeded faults: the queue is cleared, or left, instead of drained.
DrainByClearing ==
    /\ spc = "draining" /\ sphase = "open"
    /\ queue' = << >>
    /\ SendReturns("kError")
    /\ UNCHANGED <<sphase, nextSeq, writer, writing, sent, fate>>

DrainEndsEarly ==
    /\ spc = "draining" /\ sphase = "open"
    /\ SendReturns("kError")
    /\ UNCHANGED <<sphase, queue, nextSeq, writer, writing, sent, fate>>

DrainEnds ==
    /\ spc = "draining" /\ queue = << >> /\ sphase = "open"
    /\ SendReturns("kError")
    /\ UNCHANGED <<sphase, queue, nextSeq, writer, writing, sent, fate>>

-----------------------------------------------------------------------------
(* The destructor drains request_queue_; then the members go, and with     *)
(* them the request being written: nobody calls its handler.               *)
DestroySender ==
    /\ sphase = "open" /\ spc = "out"
    /\ sphase' = "closing"
    /\ spc' = "draining"
    /\ UNCHANGED <<queue, nextSeq, writer, writing, sent, sstatus, fate>>

MembersDestroyed ==
    /\ sphase = "closing" /\ spc = "draining" /\ queue = << >>
    /\ sphase' = "closed"
    /\ spc' = "out"
    /\ writer' = NoWriter
    /\ writing' = NoHandler
    /\ UNCHANGED <<queue, nextSeq, sent, sstatus, fate>>

-----------------------------------------------------------------------------
(* The sender by itself: callers pass a new handler to every Enqueue; the  *)
(* socket and the receiver do as they like.                                *)

Held == HandlersQueued \cup ({writing} \ {NoHandler})

Written(h) == \E r \in ToSet(sent) : r.handler = h

NewHandler(h) == fate[h] = << >> /\ h \notin Held /\ ~ Written(h)

SendLoop ==
    \/ SendIdle
    \/ TakeRequest
    \/ \E accepted \in BOOLEAN : WriteDone(accepted)
    \/ WriteWaits
    \/ WriteFails
    \/ DrainOne
    \/ DrainEnds
    \/ MembersDestroyed

HandlerReturn == RefusedReturns \/ FailedReturns \/ DrainedReturns

SenderCall ==
    \/ \E h \in Handlers, k \in Keys, id \in Ids :
        NewHandler(h) /\ sstatus # "kError" /\ Enqueue(h, k, id)
    \/ \E k \in Keys : RemoveQueued(k)
    \/ CallSend
    \/ DestroySender

SenderNext == SendLoop \/ HandlerReturn \/ SenderCall

SenderAlone == SenderInit /\ fate = [h \in Handlers |-> << >>]

SenderSpec == SenderAlone /\ [][SenderNext]_sndVars

-----------------------------------------------------------------------------
(* Properties.                                                             *)

Request == [handler : Handlers, key : Keys, seq : Nat, id : Ids]

\* Every variable has its type; a request is being written exactly as long
\* as its handler is set, except after a failed write.
SenderTypeOK ==
    /\ sphase \in {"open", "closing", "closed"}
    /\ queue \in Seq(Request)
    /\ nextSeq \in Nat
    /\ writer \in [seq : Nat, key : Keys, id : Ids] \cup {NoWriter}
    /\ writing \in Handlers \cup {NoHandler}
    /\ sent \in Seq([handler : Handlers, seq : Nat, id : Ids])
    /\ spc \in SendPositions
    /\ sstatus \in {"none", "kIdle", "kIoWait", "kError"}
    /\ fate \in [Handlers -> Seq(SendFates)]
    /\ spc = "out" /\ sstatus # "kError" => (writer = NoWriter <=> writing = NoHandler)

\* The sender calls a handler back or removes it once, and not at all after
\* its request was written: by then the handler is the receiver's, except in
\* the step in which the receiver refuses it.
SenderCallsOnce ==
    [][\A h \in Handlers :
          fate'[h] # fate[h] =>
              /\ fate[h] = << >> /\ Len(fate'[h]) = 1
              /\ ~ Written(h)
              /\ Written(h)' => spc' = "refused"]_sndVars

\* Requests go out in the order in which they were submitted, each with its
\* own sequence number, whatever is removed, refused or submitted by a
\* handler in between.
SentInOrder ==
    LET line == [i \in DOMAIN sent |-> sent[i].seq]
                \o (IF writer = NoWriter THEN << >> ELSE <<writer.seq>>)
                \o [i \in DOMAIN queue |-> queue[i].seq]
    IN  /\ \A i, j \in DOMAIN line : i < j => line[i] < line[j]
        /\ \A i \in DOMAIN line : line[i] < nextSeq

\* While the sender lives, a handler it holds leaves it only by being called
\* back, removed, or handed to the receiver with its request.
SenderKeepsHandlers ==
    [][\A h \in Held :
          h \notin Held' =>
              \/ fate'[h] # << >>
              \/ \E i \in DOMAIN sent' : sent'[i].handler = h
              \/ sphase' = "closed"]_sndVars

\* What Send returns can be relied on: kIdle and kError leave no handler in
\* the sender, not even one submitted by an Error handler while the queue was
\* drained; kIoWait leaves a writer that waits for the socket.
SendReturnIsTrue ==
    [][spc # "out" /\ spc' = "out" /\ sphase' = "open" =>
          /\ sstatus' \in {"kIdle", "kError"} => Held' = {}
          /\ sstatus' = "kIoWait" => writer' # NoWriter]_sndVars
=============================================================================
