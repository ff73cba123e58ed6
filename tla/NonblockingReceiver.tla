------------------------ MODULE NonblockingReceiver ------------------------
(***************************************************************************)
(* The receiving half of a connection: kinetic::NonblockingReceiver        *)
(* (src/main/nonblocking_packet_receiver.cc).                              *)
(*                                                                         *)
(* The receiver remembers which handler waits for the response to which    *)
(* sequence number (map_), and, for Remove, which sequence number a        *)
(* handler key stands for (handler_to_message_seq_map_).  Receive reads    *)
(* responses and calls handlers back; an error calls all of them back.     *)
(*                                                                         *)
(* A call of Receive is cut into steps wherever a handler runs, because a  *)
(* handler may call Remove before it returns: rpc says how far the call    *)
(* is.  Handlers do not call Receive again (a nested Run is not modelled). *)
(***************************************************************************)
EXTENDS Integers, Sequences, FiniteSets, Functions

CONSTANTS
    Handlers,          \* the handlers callers may pass to Enqueue
    Keys,              \* the handler keys callers may use
    Seqs,              \* the sequence numbers callers may use
    ConnectionIds,     \* the connection ids a drive may announce
    HandshakeHandler,  \* hh, the handler of the constructor's handshake
    NoHandler,         \* the empty shared_ptr
    NoAck,             \* a header without acksequence
    NoId               \* a header without connectionid

HandshakeSeq == -1     \* the sequence number and the key of the handshake,
HandshakeKey == -1     \* and the acksequence of an unsolicited status

ASSUME ConstantsOK ==
    /\ Keys \subseteq Nat
    /\ Seqs \subseteq Nat
    /\ HandshakeHandler \notin Handlers
    /\ NoHandler \notin Handlers \cup {HandshakeHandler}
    /\ NoAck \notin Int
    /\ ConnectionIds \subseteq Int
    /\ NoId \notin Int

VARIABLES
    phase,         \* of the object: in its constructor, usable, or gone
    map,           \* map_: sequence number -> the handler waiting, its key
    seqOfKey,      \* handler_to_message_seq_map_
    reader,        \* nonblocking_response_ != NULL
    connectionId,  \* connection_id_
    handler,       \* handler_, set while its Handle or Error runs
    unvisited,     \* entries of map_ the loop of CallAllErrorHandlers has left
    rpc,           \* how far the current call is
    status,        \* what Receive returned last, or is about to return
    aborted,       \* a CHECK failed: the process is dead (ChecksHold: never)
    fate           \* ghost: what became of each handler, in order

rcvVars == <<phase, map, seqOfKey, reader, connectionId, handler, unvisited,
             rpc, status, aborted, fate>>

AllHandlers == Handlers \cup {HandshakeHandler}
AllSeqs     == Seqs \cup {HandshakeSeq}
AllKeys     == Keys \cup {HandshakeKey}
Phases      == {"handshake", "open", "threw", "closed"}
Fates       == {"succeeded", "failed", "removed", "refused"}
Statuses    == {"none", "kIdle", "kIoWait", "kError"}
Positions   == {"out",       \* no call of Receive is active
                "reading",   \* at the top of Receive's loop
                "handling",  \* inside handler_->Handle or handler_->Error
                "failing",   \* in the loop of CallAllErrorHandlers
                "erroring"}  \* inside an Error which that loop called

(***************************************************************************)
(* A response, as far as Receive tells responses apart.                    *)
(***************************************************************************)
Packets == [hmac        : {"absent", "valid", "invalid"},
            parses      : BOOLEAN,
            id          : ConnectionIds \cup {NoId},
            unsolicited : BOOLEAN,
            ack         : AllSeqs \cup {NoAck},
            success     : BOOLEAN]

-----------------------------------------------------------------------------
Put(f, x, v) == [y \in DOMAIN f \cup {x} |-> IF y = x THEN v ELSE f[y]]
Erase(f, x)  == Restrict(f, DOMAIN f \ {x})

Record(h, what) == [fate EXCEPT ![h] = Append(@, what)]

InCallback == rpc \in {"handling", "erroring"}
Idle       == rpc = "out"
Waiting    == {map[s].handler : s \in DOMAIN map}

Init ==
    /\ phase = "handshake"
    /\ map = [s \in {HandshakeSeq} |->
                 [handler |-> HandshakeHandler, key |-> HandshakeKey]]
    /\ seqOfKey = [k \in {HandshakeKey} |-> HandshakeSeq]
    /\ reader = FALSE
    /\ connectionId = 0
    /\ handler = NoHandler
    /\ unvisited = {}
    /\ rpc = "reading"
    /\ status = "none"
    /\ aborted = FALSE
    /\ fate = [h \in AllHandlers |-> << >>]

-----------------------------------------------------------------------------
(* Enqueue: false when the sequence number or the key is taken already.    *)

Accepts(s, k) == s \notin DOMAIN map /\ k \notin DOMAIN seqOfKey

Enqueue(h, s, k) ==
    /\ phase = "open" /\ Idle /\ Accepts(s, k)
    /\ map' = Put(map, s, [handler |-> h, key |-> k])
    /\ seqOfKey' = Put(seqOfKey, k, s)
    /\ UNCHANGED <<phase, reader, connectionId, handler, unvisited, rpc,
                   status, aborted, fate>>

\* Seeded fault: the entry inserted first stays when the key is taken.
EnqueueNotUndone(h, s, k) ==
    /\ phase = "open" /\ Idle /\ ~Accepts(s, k)
    /\ map' = IF s \in DOMAIN map THEN map
                                  ELSE Put(map, s, [handler |-> h, key |-> k])
    /\ fate' = Record(h, "refused")
    /\ UNCHANGED <<phase, seqOfKey, reader, connectionId, handler,
                   unvisited, rpc, status, aborted>>

EnqueueRefuses(h, s, k) ==
    /\ phase = "open" /\ Idle /\ ~Accepts(s, k)
    /\ fate' = Record(h, "refused")
    /\ UNCHANGED <<phase, map, seqOfKey, reader, connectionId, handler,
                   unvisited, rpc, status, aborted>>

\* Seeded faults: Remove erases only the key, or the loop of
\* CallAllErrorHandlers goes on over entries erased under it.
RemoveKeyOnly(k) ==
    /\ phase = "open" /\ (Idle \/ InCallback)
    /\ k \in DOMAIN seqOfKey
    /\ seqOfKey' = Erase(seqOfKey, k)
    /\ fate' = Record(map[seqOfKey[k]].handler, "removed")
    /\ UNCHANGED <<phase, map, reader, connectionId, handler, unvisited, rpc,
                   status, aborted>>

RemoveUnderLoop(k) ==
    /\ phase = "open" /\ (Idle \/ InCallback)
    /\ k \in DOMAIN seqOfKey
    /\ seqOfKey' = Erase(seqOfKey, k)
    /\ fate' = Record(map[seqOfKey[k]].handler, "removed")
    /\ map' = Erase(map, seqOfKey[k])
    /\ UNCHANGED <<phase, reader, connectionId, handler, unvisited, rpc,
                   status, aborted>>

(* Remove, by the caller or from inside a handler.  It returns             *)
(* k \in DOMAIN seqOfKey.                                                  *)
Remove(k) ==
    /\ phase = "open" /\ (Idle \/ InCallback)
    /\ k \in DOMAIN seqOfKey
    /\ LET s == seqOfKey[k] IN
        /\ seqOfKey' = Erase(seqOfKey, k)
        /\ aborted' = ~(s \in DOMAIN map /\ map[s].key = k)
        /\ fate' = IF s \in DOMAIN map THEN Record(map[s].handler, "removed")
                                       ELSE fate
        /\ map' = Erase(map, s)
        /\ unvisited' = unvisited \ {s}
    /\ UNCHANGED <<phase, reader, connectionId, handler, rpc, status>>

-----------------------------------------------------------------------------
(* Receive.                                                                *)

Return(st) == rpc' = "out" /\ status' = st

\* Seeded fault: map_ is cleared without calling its handlers.
CallNoErrorHandlers(st) ==
    /\ fate' = IF handler = NoHandler THEN fate ELSE Record(handler, "failed")
    /\ handler' = NoHandler
    /\ unvisited' = {}
    /\ rpc' = "failing"
    /\ status' = st
    /\ UNCHANGED <<map, seqOfKey, aborted>>

(* The handler still set and every handler in map_ get an Error; only then *)
(* is map_ cleared and st returned.                                        *)
CallAllErrorHandlers(st) ==
    /\ fate' = IF handler = NoHandler THEN fate ELSE Record(handler, "failed")
    /\ handler' = NoHandler
    /\ unvisited' = DOMAIN map
    /\ rpc' = "failing"
    /\ status' = st
    /\ UNCHANGED <<map, seqOfKey, aborted>>

CallReceive ==
    /\ phase = "open" /\ Idle /\ status # "kError"
    /\ rpc' = "reading"
    /\ UNCHANGED <<phase, map, seqOfKey, reader, connectionId, handler,
                   unvisited, status, aborted, fate>>

\* Seeded fault: idle as soon as no response has been begun.
NoReader == ~reader

NothingToRead == ~reader /\ DOMAIN map = {}

ReceiveIdle ==
    /\ rpc = "reading" /\ NothingToRead
    /\ Return("kIdle")
    /\ UNCHANGED <<phase, map, seqOfKey, reader, connectionId, handler,
                   unvisited, aborted, fate>>

(* The socket has no complete response yet; the reader is kept.            *)
ReceiveWaits ==
    /\ rpc = "reading" /\ ~NothingToRead
    /\ reader' = TRUE
    /\ Return("kIoWait")
    /\ UNCHANGED <<phase, map, seqOfKey, connectionId, handler, unvisited,
                   aborted, fate>>

(* End of file, a read error, or a packet that does not start with "F".    *)
ReceiveFails ==
    /\ rpc = "reading" /\ ~NothingToRead
    /\ reader' = TRUE
    /\ CallAllErrorHandlers("kError")
    /\ UNCHANGED <<phase, connectionId>>

\* Seeded fault: any answer is taken for that of the oldest request.
AckInOrder(p) ==
    IF p.unsolicited THEN HandshakeSeq
    ELSE IF p.ack \in Int /\ DOMAIN map # {}
         THEN CHOOSE s \in DOMAIN map : \A t \in DOMAIN map : s <= t
         ELSE p.ack

AckOf(p) == IF p.unsolicited THEN HandshakeSeq ELSE p.ack

NewConnectionId(p) == IF p.id = NoId THEN connectionId ELSE p.id

(* A complete response that cannot be matched to a request: everyone fails *)
(* but only an unreadable command also ends the connection.                *)
ReceiveBadPacket(p) ==
    /\ rpc = "reading" /\ ~NothingToRead
    /\ reader' = FALSE
    /\ \/ /\ p.hmac = "invalid"
          /\ CallAllErrorHandlers("kIdle")
          /\ UNCHANGED connectionId
       \/ /\ p.hmac # "invalid" /\ ~p.parses
          /\ CallAllErrorHandlers("kError")
          /\ UNCHANGED connectionId
       \/ /\ p.hmac # "invalid" /\ p.parses /\ AckOf(p) = NoAck
          /\ connectionId' = NewConnectionId(p)
          /\ CallAllErrorHandlers("kIdle")
    /\ UNCHANGED phase

GoodPacket(p) == p.hmac # "invalid" /\ p.parses /\ AckOf(p) # NoAck

(* Nobody waits for this acksequence: the response is skipped.             *)
ReceiveUnknown(p) ==
    /\ rpc = "reading" /\ ~NothingToRead
    /\ GoodPacket(p) /\ AckOf(p) \notin DOMAIN map
    /\ reader' = FALSE
    /\ connectionId' = NewConnectionId(p)
    /\ UNCHANGED <<phase, map, seqOfKey, handler, unvisited, rpc, status,
                   aborted, fate>>

(* The response to a waiting request: it is forgotten, then its handler    *)
(* runs.                                                                   *)
ReceiveResponse(p) ==
    /\ rpc = "reading" /\ ~NothingToRead
    /\ GoodPacket(p) /\ AckOf(p) \in DOMAIN map
    /\ LET found == map[AckOf(p)] IN
        /\ handler' = found.handler
        /\ map' = Erase(map, AckOf(p))
        /\ aborted' = (found.key \notin DOMAIN seqOfKey)
        /\ seqOfKey' = Erase(seqOfKey, found.key)
        /\ fate' = Record(found.handler,
                          IF p.success THEN "succeeded" ELSE "failed")
    /\ reader' = FALSE
    /\ connectionId' = NewConnectionId(p)
    /\ rpc' = "handling"
    /\ UNCHANGED <<phase, unvisited, status>>

\* Seeded fault: handler_ is not reset.
HandlerReturnsSet ==
    /\ rpc = "handling"
    /\ rpc' = "reading"
    /\ UNCHANGED <<phase, map, seqOfKey, reader, connectionId, handler,
                   unvisited, status, aborted, fate>>

(* Handle or Error returns; handler_.reset(), and on to the next response. *)
HandlerReturns ==
    /\ rpc = "handling"
    /\ handler' = NoHandler
    /\ rpc' = "reading"
    /\ UNCHANGED <<phase, map, seqOfKey, reader, connectionId, unvisited,
                   status, aborted, fate>>

(* One turn of the loop over map_, in the order of an unordered_map.  The  *)
(* key is erased before Error runs; the entry itself only by map_.clear(). *)
CallErrorHandler(s) ==
    /\ rpc = "failing" /\ s \in unvisited
    /\ aborted' = (map[s].key \notin DOMAIN seqOfKey)
    /\ seqOfKey' = Erase(seqOfKey, map[s].key)
    /\ fate' = Record(map[s].handler, "failed")
    /\ unvisited' = unvisited \ {s}
    /\ rpc' = "erroring"
    /\ UNCHANGED <<phase, map, reader, connectionId, handler, status>>

ErrorHandlerReturns ==
    /\ rpc = "erroring"
    /\ rpc' = "failing"
    /\ UNCHANGED <<phase, map, seqOfKey, reader, connectionId, handler,
                   unvisited, status, aborted, fate>>

AllErrorHandlersCalled ==
    /\ rpc = "failing" /\ unvisited = {}
    /\ map' = Restrict(map, {})
    /\ rpc' = "out"
    /\ UNCHANGED <<phase, seqOfKey, reader, connectionId, handler, unvisited,
                   status, aborted, fate>>

-----------------------------------------------------------------------------
(* The constructor's loop around Receive, and the destructor.              *)

HandshakeDone == fate[HandshakeHandler] # << >>

HandshakeReceivesAgain ==
    /\ phase = "handshake" /\ Idle /\ status # "kError" /\ ~HandshakeDone
    /\ rpc' = "reading"
    /\ UNCHANGED <<phase, map, seqOfKey, reader, connectionId, handler,
                   unvisited, status, aborted, fate>>

HandshakeSucceeds ==
    /\ phase = "handshake" /\ Idle
    /\ fate[HandshakeHandler] = <<"succeeded">>
    /\ phase' = "open"
    /\ UNCHANGED <<map, seqOfKey, reader, connectionId, handler, unvisited,
                   rpc, status, aborted, fate>>

(* An error, a refusal by the drive, or 30 seconds without an answer.      *)
HandshakeThrows ==
    /\ phase = "handshake" /\ Idle
    /\ fate[HandshakeHandler] # <<"succeeded">>
    /\ phase' = "threw"
    /\ UNCHANGED <<map, seqOfKey, reader, connectionId, handler, unvisited,
                   rpc, status, aborted, fate>>

Destroy ==
    /\ phase = "open" /\ Idle
    /\ phase' = "closed"
    /\ reader' = FALSE
    /\ CallAllErrorHandlers(status)
    /\ UNCHANGED connectionId

-----------------------------------------------------------------------------
(* The receiver by itself: any caller that passes a new handler to every   *)
(* Enqueue and stops after kError, and any drive.                          *)

NewHandler(h) == fate[h] = << >> /\ h \notin Waiting

Call ==
    \/ \E h \in Handlers, s \in Seqs, k \in Keys :
        NewHandler(h) /\ status # "kError"
                      /\ (Enqueue(h, s, k) \/ EnqueueRefuses(h, s, k))
    \/ \E k \in Keys : Remove(k)
    \/ CallReceive
    \/ Destroy

Read ==
    \/ ReceiveWaits
    \/ ReceiveFails
    \/ \E p \in Packets :
        ReceiveBadPacket(p) \/ ReceiveUnknown(p) \/ ReceiveResponse(p)

Progress ==
    \/ ReceiveIdle
    \/ HandlerReturns
    \/ \E s \in AllSeqs : CallErrorHandler(s)
    \/ ErrorHandlerReturns
    \/ AllErrorHandlersCalled
    \/ HandshakeReceivesAgain
    \/ HandshakeSucceeds
    \/ HandshakeThrows

Next == Call \/ Read \/ Progress

Spec == Init /\ [][Next]_rcvVars

-----------------------------------------------------------------------------
(* Properties.                                                             *)

Entry == [handler : AllHandlers, key : AllKeys]

\* Every variable has its type; the loop of CallAllErrorHandlers only stands
\* on entries that are still in map_ although handlers may erase some of them
\* under it (Remove called from an Error).
TypeOK ==
    /\ phase \in Phases
    /\ DOMAIN map \subseteq AllSeqs
    /\ map \in [DOMAIN map -> Entry]
    /\ DOMAIN seqOfKey \subseteq AllKeys
    /\ seqOfKey \in [DOMAIN seqOfKey -> AllSeqs]
    /\ reader \in BOOLEAN
    /\ connectionId \in ConnectionIds \cup {0}
    /\ handler \in AllHandlers \cup {NoHandler}
    /\ unvisited \subseteq DOMAIN map
    /\ rpc \in Positions
    /\ status \in Statuses
    /\ aborted \in BOOLEAN
    /\ fate \in [AllHandlers -> Seq(Fates)]

\* No CHECK of Receive, CallAllErrorHandlers or Remove ever fails, whatever
\* handlers remove while they run: an entry found in one map has its
\* counterpart in the other.
ChecksHold == ~aborted

Failing == rpc \in {"failing", "erroring"}
Live    == IF Failing THEN unvisited ELSE DOMAIN map

\* The two maps are inverse to each other: a key Remove can find leads to the
\* entry of that key, and every entry that still waits can be found by its
\* key.  While CallAllErrorHandlers runs only the entries it has not come to
\* count.
MapsInverse ==
    /\ \A k \in DOMAIN seqOfKey : seqOfKey[k] \in Live /\ map[seqOfKey[k]].key = k
    /\ \A s \in Live : map[s].key \in DOMAIN seqOfKey /\ seqOfKey[map[s].key] = s

\* A handler is called back, removed or refused at most once: never answered
\* and then failed by an error that follows, never called after Remove
\* returned true.
CalledOnce == \A h \in AllHandlers : Len(fate[h]) <= 1

\* A waiting handler never disappears without being called back or removed.
NeverDropped ==
    [][\A h \in Waiting : h \notin Waiting' => fate'[h] # << >>]_rcvVars

\* What Receive returns can be relied on by the caller's select(): kIdle and
\* kError leave nobody waiting for a response, although kIdle is also returned
\* after a response that could not be verified; kIoWait leaves a reader.
ReturnIsTrue ==
    [][~Idle /\ Idle' /\ phase # "closed" =>
          /\ status' \in {"kIdle", "kError"} => Waiting' = {}
          /\ status' = "kIoWait" => reader']_rcvVars
=============================================================================
