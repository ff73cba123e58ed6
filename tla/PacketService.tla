--------------------------- MODULE PacketService ---------------------------
(***************************************************************************)
(* A connection: kinetic::NonblockingPacketService                         *)
(* (src/main/nonblocking_packet_service.cc) with its sender, its receiver, *)
(* the socket, the drive, and the application whose handlers they call.    *)
(*                                                                         *)
(* Everything on the client's side runs in one thread: the application     *)
(* calls Submit, Remove, Run and the destructor, and, while one of its     *)
(* handlers runs, Submit and Remove.  rpc and spc (of the receiver and the *)
(* sender) and runpc say where that thread is.  Handlers neither call Run  *)
(* nor destroy the connection.  The handler of the n-th request is n, and  *)
(* so is its key.                                                          *)
(*                                                                         *)
(* inbox holds the complete responses the socket has for the client; one   *)
(* of which bytes are missing is not in it yet.                            *)
(***************************************************************************)
EXTENDS Integers, Sequences, FiniteSets

CONSTANTS
    MaxSubmits,       \* bound: requests submitted in a behaviour
    MaxFaults,        \* bound: spurious or damaged responses of the drive
    DriveId,          \* the connection id the drive announces
    HandlersSubmit,   \* whether a handler may submit while it runs
    MayRemove,        \* whether the application removes handlers
    MayBreak,         \* whether the socket may break
    MayClose,         \* whether the application destroys the connection
    AppSelects,       \* whether the application calls Run only as the manual
                      \* says: after submitting, and when select() returns
    HandshakeHandler, NoHandler, NoWriter, NoAck, NoId, Garbage

ASSUME ServiceConstantsOK ==
    /\ MaxSubmits \in Nat /\ MaxFaults \in Nat /\ DriveId \in Nat
    /\ {HandlersSubmit, MayRemove, MayBreak, MayClose, AppSelects} \subseteq BOOLEAN

Handlers      == 0 .. MaxSubmits - 1
Keys          == Handlers
Seqs          == Handlers
ConnectionIds == {DriveId}
Ids           == ConnectionIds \cup {0}

(* The markers are none of the values they stand beside.                   *)
ASSUME MarkersOK ==
    /\ HandshakeHandler \notin Handlers
    /\ NoHandler \notin Handlers \cup {HandshakeHandler}
    /\ NoWriter \notin [seq : Nat, key : Keys, id : Ids]
    /\ NoAck \notin Int
    /\ NoId \notin Int

VARIABLES
    \* the receiver's
    phase, map, seqOfKey, reader, connectionId, handler, unvisited, rpc,
    status, aborted,
    \* the sender's
    sphase, queue, nextSeq, writer, writing, sent, spc, sstatus,
    \* of both
    fate,
    \* the service's
    failed,    \* failed_
    nextKey,   \* next_key_
    runpc,     \* where the application's call of Run or the destructor is
    wantRead,  \* the fd sets Run left for the application
    wantWrite,
    \* the environment's
    fresh,     \* the application submitted and has not called Run since
    socket,    \* "up" or "down"
    inbox,     \* the responses that can be read
    answers,   \* what the drive answered to which sequence number
    faults     \* how many spurious responses the drive has sent

R == INSTANCE NonblockingReceiver
S == INSTANCE NonblockingSender

rcvVars == <<phase, map, seqOfKey, reader, connectionId, handler, unvisited,
             rpc, status, aborted>>
sndVars == <<sphase, queue, nextSeq, writer, writing, sent, spc, sstatus>>
svcVars == <<failed, nextKey, runpc, wantRead, wantWrite>>
envVars == <<fresh, socket, inbox, answers, faults>>
vars    == <<rcvVars, sndVars, fate, svcVars, envVars>>

Init ==
    /\ R!Init
    /\ S!SenderInit
    /\ failed = FALSE
    /\ nextKey = 0
    /\ runpc = "out"
    /\ wantRead = FALSE
    /\ wantWrite = FALSE
    /\ fresh = FALSE
    /\ socket = "up"
    /\ inbox = << >>
    /\ answers = [q \in {} |-> "succeeded"]
    /\ faults = 0

-----------------------------------------------------------------------------
(* The application's calls.                                                *)

InCallback == R!InCallback \/ S!SendInCallback

(* The thread is the application's: it has the connection and no call of   *)
(* its own is active, or one of its handlers runs.  It makes no calls from *)
(* handlers that the destructor runs.                                      *)
Outside == phase = "open" /\ runpc = "out"
MayCall == Outside \/ (runpc \in {"send", "receive"} /\ InCallback)

\* Seeded fault: requests are queued on a failed connection too.
SubmitAnyway ==
    /\ MayCall /\ nextKey < MaxSubmits /\ (Outside \/ HandlersSubmit)
    /\ nextKey' = nextKey + 1
    /\ S!Enqueue(nextKey, nextKey, connectionId)
    /\ fresh' = (fresh \/ Outside)
    /\ UNCHANGED <<rcvVars, failed, runpc, wantRead, wantWrite, socket, inbox,
                   answers, faults>>

Submit ==
    /\ MayCall /\ nextKey < MaxSubmits /\ (Outside \/ HandlersSubmit)
    /\ nextKey' = nextKey + 1
    /\ IF failed
         THEN /\ fate' = R!Record(nextKey, "failed")
              /\ UNCHANGED <<sndVars, fresh>>
         ELSE /\ S!Enqueue(nextKey, nextKey, connectionId)
              /\ fresh' = (fresh \/ Outside)
    /\ UNCHANGED <<rcvVars, failed, runpc, wantRead, wantWrite, socket, inbox,
                   answers, faults>>

(* sender_->Remove(key) || receiver_->Remove(key)                          *)
Remove(k) ==
    /\ MayCall /\ MayRemove
    /\ IF k \in S!KeysQueued
         THEN S!RemoveQueued(k) /\ UNCHANGED rcvVars
         ELSE R!Remove(k) /\ UNCHANGED sndVars
    /\ UNCHANGED <<svcVars, envVars>>

(* Whether select() on the fd sets of the last Run would return.           *)
Selectable == (wantRead /\ (inbox # << >> \/ socket = "down")) \/ wantWrite

\* Seeded fault: Run goes on after it has failed.
RunAnyway ==
    /\ Outside
    /\ AppSelects => fresh \/ Selectable
    /\ S!CallSend
    /\ runpc' = "send"
    /\ fresh' = FALSE
    /\ UNCHANGED <<rcvVars, failed, nextKey, wantRead, wantWrite, socket,
                   inbox, answers, faults>>

Run ==
    /\ Outside /\ ~failed
    /\ AppSelects => fresh \/ Selectable
    /\ S!CallSend
    /\ runpc' = "send"
    /\ fresh' = FALSE
    /\ UNCHANGED <<rcvVars, failed, nextKey, wantRead, wantWrite, socket,
                   inbox, answers, faults>>

-----------------------------------------------------------------------------
(* Run, between the calls it makes.                                        *)

CleanUp == failed' = TRUE

RunAfterSend ==
    /\ runpc = "send" /\ spc = "out"
    /\ IF sstatus = "kError"
         THEN CleanUp /\ runpc' = "out" /\ UNCHANGED <<rcvVars, fate>>
         ELSE R!CallReceive /\ runpc' = "receive" /\ UNCHANGED failed
    /\ UNCHANGED <<sndVars, nextKey, wantRead, wantWrite, envVars>>

\* Seeded fault: the write set is cleared after it was filled.
RunAfterReceiveClears ==
    /\ runpc = "receive" /\ rpc = "out"
    /\ runpc' = "out"
    /\ IF status = "kError"
         THEN CleanUp /\ UNCHANGED <<wantRead, wantWrite>>
         ELSE /\ wantRead' = (status = "kIoWait")
              /\ wantWrite' = FALSE
              /\ UNCHANGED failed
    /\ UNCHANGED <<rcvVars, sndVars, fate, nextKey, envVars>>

RunAfterReceive ==
    /\ runpc = "receive" /\ rpc = "out"
    /\ runpc' = "out"
    /\ IF status = "kError"
         THEN CleanUp /\ UNCHANGED <<wantRead, wantWrite>>
         ELSE /\ wantRead' = (status = "kIoWait")
              /\ wantWrite' = (sstatus = "kIoWait")
              /\ UNCHANGED failed
    /\ UNCHANGED <<rcvVars, sndVars, fate, nextKey, envVars>>

(* ~NonblockingPacketService, then its members: the sender drains its      *)
(* queue and goes, and with it the last reference to the receiver.         *)
Close ==
    /\ Outside /\ MayClose
    /\ CleanUp
    /\ S!DestroySender
    /\ runpc' = "closing"
    /\ UNCHANGED <<rcvVars, nextKey, wantRead, wantWrite, envVars>>

ReceiverReleased ==
    /\ runpc = "closing" /\ sphase = "closed"
    /\ R!Destroy
    /\ UNCHANGED <<sndVars, svcVars, envVars>>

Closed ==
    /\ runpc = "closing" /\ phase = "closed" /\ rpc = "out"
    /\ runpc' = "closed"
    /\ UNCHANGED <<rcvVars, sndVars, fate, failed, nextKey, wantRead,
                   wantWrite, envVars>>

-----------------------------------------------------------------------------
(* The sender's steps on the socket.                                       *)

(* S!RefusedReturns is not among the steps: NeverRefused says that its     *)
(* position is never reached here.                                         *)
NotReceiving == UNCHANGED <<rcvVars, svcVars, envVars>>

SendStep ==
    \/ S!SendIdle /\ NotReceiving
    \/ S!TakeRequest /\ NotReceiving
    \/ S!FailedReturns /\ NotReceiving
    \/ S!DrainOne /\ NotReceiving
    \/ S!DrainedReturns /\ NotReceiving
    \/ S!DrainEnds /\ NotReceiving
    \/ S!MembersDestroyed /\ NotReceiving

WriteWaits == socket = "up" /\ S!WriteWaits /\ NotReceiving

WriteFails == socket = "down" /\ S!WriteFails /\ NotReceiving

(* The last byte is written (a broken socket may still take it), and the   *)
(* receiver is told to expect the response.                                *)
WriteDone ==
    /\ IF writer # NoWriter /\ R!Accepts(writer.seq, writer.key)
         THEN S!WriteDone(TRUE) /\ R!Enqueue(writing, writer.seq, writer.key)
         ELSE S!WriteDone(FALSE) /\ UNCHANGED rcvVars
    /\ UNCHANGED <<svcVars, envVars>>

-----------------------------------------------------------------------------
(* The receiver's steps on the socket.                                     *)

NotSending == UNCHANGED <<sndVars, svcVars, fresh, socket, answers, faults>>

ReceiveStep ==
    /\ \/ R!ReceiveIdle
       \/ R!HandlerReturns
       \/ \E q \in R!AllSeqs : R!CallErrorHandler(q)
       \/ R!ErrorHandlerReturns
       \/ R!AllErrorHandlersCalled
       \/ R!HandshakeReceivesAgain
       \/ R!HandshakeSucceeds
       \/ R!HandshakeThrows
    /\ UNCHANGED inbox /\ NotSending

ReceiveWaits ==
    /\ inbox = << >> /\ socket = "up"
    /\ R!ReceiveWaits
    /\ UNCHANGED inbox /\ NotSending

ReceiveFails ==
    /\ \/ inbox = << >> /\ socket = "down" /\ UNCHANGED inbox
       \/ inbox # << >> /\ Head(inbox) = Garbage /\ inbox' = Tail(inbox)
    /\ R!ReceiveFails
    /\ NotSending

ReceivePacket ==
    /\ inbox # << >> /\ Head(inbox) # Garbage
    /\ \/ R!ReceiveBadPacket(Head(inbox))
       \/ R!ReceiveUnknown(Head(inbox))
       \/ R!ReceiveResponse(Head(inbox))
    /\ inbox' = Tail(inbox)
    /\ NotSending

-----------------------------------------------------------------------------
(* The drive and the network (external).                                   *)

Packet == [hmac |-> "valid", parses |-> TRUE, id |-> NoId,
           unsolicited |-> FALSE, ack |-> NoAck, success |-> TRUE]

Greeting == [Packet EXCEPT !.hmac = "absent", !.id = DriveId, !.unsolicited = TRUE]

(* Until the connection is being destroyed: after that nobody looks at the *)
(* socket any more.                                                        *)
Connected == socket = "up" /\ runpc \notin {"closing", "closed"}

DriveOnly == UNCHANGED <<rcvVars, sndVars, fate, svcVars, fresh>>

(* The first thing a drive sends is an unsolicited status.                 *)
Greet ==
    /\ Connected /\ phase = "handshake" /\ inbox = << >> /\ ~R!HandshakeDone
    /\ inbox' = <<Greeting>>
    /\ DriveOnly /\ UNCHANGED <<socket, answers, faults>>

(* The drive answers a request it has received, in any order.              *)
Answer(q) ==
    /\ Connected
    /\ q \in {sent[i].seq : i \in DOMAIN sent} /\ q \notin DOMAIN answers
    /\ \E ok \in BOOLEAN :
        /\ answers' = R!Put(answers, q, IF ok THEN "succeeded" ELSE "failed")
        /\ inbox' = Append(inbox, [Packet EXCEPT !.ack = q, !.success = ok])
    /\ DriveOnly /\ UNCHANGED <<socket, faults>>

(* Responses nobody asked for, or that cannot be read: an unsolicited      *)
(* status, a repeated answer, a wrong HMAC, no acksequence, an unreadable  *)
(* command, bytes that are no packet.                                      *)
SpuriousPackets ==
    {Greeting, Packet, [Packet EXCEPT !.hmac = "invalid"],
     [Packet EXCEPT !.parses = FALSE], Garbage}
    \cup {[Packet EXCEPT !.ack = q] : q \in {a \in DOMAIN answers : answers[a] = "succeeded"}}

Misbehave ==
    /\ Connected /\ faults < MaxFaults
    /\ \E p \in SpuriousPackets : inbox' = Append(inbox, p)
    /\ faults' = faults + 1
    /\ DriveOnly /\ UNCHANGED <<socket, answers>>

(* What has arrived may be lost with the connection.                       *)
Break ==
    /\ MayBreak /\ Connected
    /\ socket' = "down"
    /\ inbox' \in {inbox, << >>}
    /\ DriveOnly /\ UNCHANGED <<answers, faults>>

-----------------------------------------------------------------------------
ClientStep == RunAfterSend \/ RunAfterReceive \/ ReceiverReleased \/ Closed
              \/ SendStep \/ WriteFails \/ ReceiveStep \/ ReceiveWaits
              \/ ReceiveFails \/ ReceivePacket

Next ==
    \/ Submit
    \/ \E k \in Keys : Remove(k)
    \/ Run
    \/ Close
    \/ ClientStep
    \/ WriteWaits
    \/ WriteDone
    \/ Greet
    \/ \E q \in Seqs : Answer(q)
    \/ Misbehave
    \/ Break

(* The thread goes on, a handler returns, the application calls Run again, *)
(* a socket that keeps being writable takes the whole request in the end,  *)
(* and the drive greets and answers.                                       *)
Fairness ==
    /\ WF_vars(ClientStep)
    /\ WF_vars(Run)
    /\ SF_vars(WriteDone)
    /\ WF_vars(WriteWaits)
    /\ WF_vars(Greet)
    /\ \A q \in Seqs : WF_vars(Answer(q))

Spec == Init /\ [][Next]_vars
FairSpec == Spec /\ Fairness

-----------------------------------------------------------------------------
(* Properties.                                                             *)

Submitted == 0 .. nextKey - 1
Pending   == {h \in Submitted : fate[h] = << >>}

\* Every variable has its type; a request's key is its sequence number; the
\* two halves never run at once.
ServiceTypeOK ==
    /\ R!TypeOK
    /\ sphase \in {"open", "closing", "closed"}
    /\ queue \in Seq(S!Request)
    /\ nextSeq \in 0 .. MaxSubmits /\ nextKey \in 0 .. MaxSubmits
    /\ \A r \in S!ToSet(queue) : r.key = r.seq /\ r.handler = r.key
    /\ writer \in [seq : Seqs, key : Keys, id : Ids] \cup {NoWriter}
    /\ writing \in Handlers \cup {NoHandler}
    /\ spc \in S!SendPositions
    /\ spc # "out" => rpc = "out"
    /\ runpc \in {"out", "send", "receive", "closing", "closed"}
    /\ {failed, wantRead, wantWrite, fresh} \subseteq BOOLEAN
    /\ faults \in 0 .. MaxFaults

\* A request whose callback has not run is in exactly one place -- queued,
\* being written, or awaited by the receiver -- so that it can still be
\* called or removed.  Only the one being written when the connection was
\* destroyed is nowhere (Abandoned).
Places(h) ==
    {p \in {"queue", "writer", "receiver"} :
        \/ p = "queue" /\ h \in S!HandlersQueued
        \/ p = "writer" /\ h = writing
        \/ p = "receiver" /\ h \in {map[q].handler : q \in R!Live}}

Abandoned == {h \in Pending : Places(h) = {}}

OnePlace ==
    /\ \A h \in Pending : Cardinality(Places(h)) <= 1
    /\ \A h \in Submitted \ Pending : "queue" \notin Places(h) /\ "receiver" \notin Places(h)
    /\ Abandoned # {} => sphase = "closed" /\ Cardinality(Abandoned) = 1

\* The drive receives requests in the order of their submission, each with
\* the connection id it announced: the handshake has ended before anything
\* can be submitted.
WireOrder ==
    /\ \A i, j \in DOMAIN sent : i < j => sent[i].seq < sent[j].seq
    /\ \A i \in DOMAIN sent : sent[i].handler = sent[i].seq /\ sent[i].id = DriveId

\* A callback reports success only of a request that was sent and that the
\* drive answered with success; stale, repeated and damaged responses of
\* other requests are never taken for its answer.
AnswersMatch ==
    \A h \in Submitted :
        fate[h] = <<"succeeded">> => h \in DOMAIN answers /\ answers[h] = "succeeded"

\* The receiver accepts every request the sender hands over: no handler fails
\* because a sequence number or a key is in use.
NeverRefused == spc # "refused"

\* Once Run has returned false nothing more is written or read, and no
\* callback reports success: what is left can only fail or be removed.
QuietAfterFailure ==
    [][failed => /\ sent' = sent
                 /\ inbox = inbox' \/ Len(inbox') > Len(inbox) \/ socket' # socket
                 /\ \A h \in Handlers : fate'[h] # fate[h] => fate'[h] # <<"succeeded">>]_vars

-----------------------------------------------------------------------------
(* The connection implements RequestBoard.                                 *)

HandlersHeld == S!HandlersQueued \cup {writing} \cup {map[q].handler : q \in R!Live}

BoardState ==
    LET held == HandlersHeld IN
    [h \in Handlers |->
        CASE h >= nextKey -> "new"
          [] h < nextKey /\ fate[h] = << >> -> IF h \in held THEN "pending" ELSE "abandoned"
          [] fate[h] = <<"succeeded">> -> "succeeded"
          [] fate[h] = <<"failed">>    -> "failed"
          [] fate[h] = <<"removed">>   -> "withdrawn"
          [] Len(fate[h]) > 1          -> "settled twice"]

BoardLink ==
    CASE runpc = "closed"  -> "gone"
      [] runpc = "closing" -> "closing"
      [] runpc \notin {"closed", "closing"} -> IF failed THEN "failed" ELSE "working"

Board == INSTANCE RequestBoard WITH
    Requests <- Handlers,
    state    <- BoardState,
    link     <- BoardLink

\* Every step of the connection is a step of the board or none: a request is
\* settled at most once, succeeds only while the connection works, and at most
\* one is abandoned, by the destructor.
ImplementsBoard == Board!BoardSpec

-----------------------------------------------------------------------------
(* Liveness.                                                               *)

\* With a drive that answers and an application that follows the manual's
\* select() loop, every callback runs (or its handler is removed).
EveryCallbackRuns ==
    \A h \in Handlers : (h \in Pending) ~> (fate[h] # << >>)

\* The destructor runs the callback of every request that is still pending.
DestructorCallsBack == runpc = "closed" => Pending = {}
=============================================================================
