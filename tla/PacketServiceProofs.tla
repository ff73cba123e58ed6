------------------------ MODULE PacketServiceProofs ------------------------
(***************************************************************************)
(* Theorems about PacketService, for any number of requests and faults and *)
(* any behaviour of the application, the socket and the drive.             *)
(*                                                                         *)
(* The proofs build on those of the two halves: RP and SP are the proof    *)
(* modules of the receiver and of the sender, instantiated for this        *)
(* connection, so that a step of one half keeps the half's own invariant   *)
(* by the lemma proved there.  Both keep the fate of handlers in one       *)
(* ghost; the sender's proofs only speak of the application's handlers.    *)
(***************************************************************************)
EXTENDS PacketService, SequenceTheorems, FiniteSetTheorems, TLAPS

appFate == [h \in Handlers |-> fate[h]]

RP == INSTANCE NonblockingReceiverProofs
SP == INSTANCE NonblockingSenderProofs WITH fate <- appFate

-----------------------------------------------------------------------------
(* The inductive invariant.                                                *)

(* Where the one thread of the client may be.                              *)
Control ==
    /\ runpc \in {"out", "send", "receive", "closing", "closed"}
    /\ {failed, wantRead, wantWrite, fresh} \subseteq BOOLEAN
    /\ faults \in 0 .. MaxFaults
    /\ phase \in {"handshake", "threw"} => runpc = "out" /\ ~failed /\ spc = "out"
    /\ runpc # "send" /\ sphase # "closing" => spc = "out"
    /\ phase \notin {"handshake", "closed"} /\ runpc # "receive" => rpc = "out"
    /\ runpc \in {"send", "receive"} => ~failed
    /\ sphase = "open" <=> runpc \notin {"closing", "closed"}
    /\ sphase = "closing" => runpc = "closing" /\ phase = "open"
                             /\ spc \in {"draining", "drained"}
    /\ phase = "closed" => sphase = "closed" /\ rpc \in {"failing", "erroring", "out"}
    /\ phase = "closed" /\ rpc = "out" => DOMAIN map = {}
    /\ sphase = "closed" => failed /\ queue = << >> /\ writing = NoHandler
    /\ sphase # "open" => failed
    /\ runpc = "closed" => phase = "closed" /\ rpc = "out"
    /\ spc # "refused"

(* One number names a request: its handler, its key, its sequence number.  *)
(* The receiver waits only for numbers that were sent, apart from the      *)
(* handshake.                                                              *)
SentSeqs == {sent[i].seq : i \in 1 .. Len(sent)}

Numbered ==
    /\ nextKey \in 0 .. MaxSubmits /\ nextSeq <= nextKey
    /\ ~failed => nextSeq = nextKey
    /\ phase \in {"handshake", "threw"} => nextKey = 0
    /\ \A i \in 1 .. Len(queue) :
        /\ queue[i].handler = queue[i].seq /\ queue[i].key = queue[i].seq
        /\ queue[i].id = DriveId
    /\ writer # NoWriter => writer.key = writer.seq /\ writer.id = DriveId
    /\ writing # NoHandler => writer # NoWriter /\ writing = writer.seq
    /\ \A i \in 1 .. Len(sent) : sent[i].handler = sent[i].seq /\ sent[i].id = DriveId
    /\ \A s \in DOMAIN map :
        \/ s = -1 /\ map[s].handler = HandshakeHandler /\ map[s].key = -1
        \/ s \in SentSeqs /\ map[s].handler = s /\ map[s].key = s

(* A request that has been submitted and has no fate is somewhere, except  *)
(* the one that was being written when the members were destroyed.         *)
Ledger ==
    /\ \A h \in Handlers : h >= nextKey => fate[h] = << >>
    /\ \A h \in Abandoned : sphase = "closed"
    /\ \A g, h \in Abandoned : g = h

(* What the drive may have sent, and what the client made of it.           *)
Believable(p) ==
    /\ p \in RP!Packets
    /\ p.unsolicited => p.id = DriveId
    /\ ~p.unsolicited /\ p.ack # NoAck => p.ack \in DOMAIN answers
    /\ ~p.unsolicited /\ p.ack # NoAck /\ p.success => answers[p.ack] = "succeeded"

Believed ==
    /\ inbox \in Seq(RP!Packets \cup {Garbage})
    /\ \A i \in 1 .. Len(inbox) : inbox[i] # Garbage => Believable(inbox[i])

DriveKnown ==
    /\ Believed
    /\ DOMAIN answers \subseteq SentSeqs
    /\ fate[HandshakeHandler] = <<"succeeded">> => connectionId = DriveId
    /\ phase \in {"open", "closed"} => connectionId = DriveId
    /\ AnswersMatch

PInv == RP!IInv /\ SP!SInv /\ Control /\ Numbered /\ Ledger /\ DriveKnown

-----------------------------------------------------------------------------
(* The constants are what the halves' proofs assume.                       *)
RConstants ==
    /\ Keys \subseteq Nat /\ Seqs \subseteq Nat
    /\ HandshakeHandler \notin Handlers
    /\ NoHandler \notin Handlers \cup {HandshakeHandler}
    /\ NoAck \notin Int
    /\ ConnectionIds \subseteq Int
    /\ NoId \notin Int

SConstants ==
    /\ NoHandler \notin Handlers
    /\ NoWriter \notin [seq : Nat, key : Keys, id : Ids]

LEMMA Constants == RConstants /\ SConstants
BY ServiceConstantsOK, MarkersOK
DEF RConstants, SConstants, Keys, Seqs, Handlers, ConnectionIds, Ids

(* The receiver's steps are those its proofs are about.                    *)
LEMMA QuietReceiving ==
    ASSUME RP!IInv,
           \/ R!CallReceive \/ R!ReceiveIdle \/ R!ReceiveWaits
           \/ R!HandlerReturns \/ R!ErrorHandlerReturns
           \/ R!HandshakeReceivesAgain \/ R!HandshakeSucceeds
           \/ R!HandshakeThrows
    PROVE  RP!IInv'
<1> USE DEF R!Idle, RP!Idle, R!Return, RP!Return, R!NothingToRead,
        RP!NothingToRead, R!HandshakeDone, RP!HandshakeDone
<1>1. R!CallReceive => RP!CallReceive
    BY DEF R!CallReceive, RP!CallReceive
<1>2. R!ReceiveIdle => RP!ReceiveIdle
    BY DEF R!ReceiveIdle, RP!ReceiveIdle
<1>3. R!ReceiveWaits => RP!ReceiveWaits
    BY DEF R!ReceiveWaits, RP!ReceiveWaits
<1>4. R!HandlerReturns => RP!HandlerReturns
    BY DEF R!HandlerReturns, RP!HandlerReturns
<1>5. R!ErrorHandlerReturns => RP!ErrorHandlerReturns
    BY DEF R!ErrorHandlerReturns, RP!ErrorHandlerReturns
<1>6. R!HandshakeReceivesAgain => RP!HandshakeReceivesAgain
    BY DEF R!HandshakeReceivesAgain, RP!HandshakeReceivesAgain
<1>7. R!HandshakeSucceeds => RP!HandshakeSucceeds
    BY DEF R!HandshakeSucceeds, RP!HandshakeSucceeds
<1>8. R!HandshakeThrows => RP!HandshakeThrows
    BY DEF R!HandshakeThrows, RP!HandshakeThrows
<1>9. QED
    BY <1>1, <1>2, <1>3, <1>4, <1>5, <1>6, <1>7, <1>8, RP!QuietActions,
       Constants DEF RConstants

LEMMA EnqueueReceiving ==
    ASSUME RP!IInv, NEW h \in Handlers, NEW s \in Seqs, NEW k \in Keys,
           RP!NewHandler(h), R!Enqueue(h, s, k)
    PROVE  RP!IInv'
<1>1. RP!Enqueue(h, s, k)
    BY DEF R!Enqueue, RP!Enqueue, R!Idle, RP!Idle, R!Accepts, RP!Accepts,
        R!Put, RP!Put
<1>2. QED
    BY <1>1, RP!EnqueueInv, Constants DEF RConstants

LEMMA RemoveReceiving ==
    ASSUME RP!IInv, NEW k \in Keys, R!Remove(k)
    PROVE  RP!IInv'
<1>1. RP!Remove(k)
    BY DEF R!Remove, RP!Remove, R!Idle, RP!Idle, R!InCallback, RP!InCallback,
        R!Erase, RP!Erase, R!Restrict, RP!Restrict, R!Record, RP!Record
<1>2. QED
    BY <1>1, RP!RemoveInv, Constants DEF RConstants

LEMMA FailReceiving ==
    ASSUME RP!IInv,
           \/ R!ReceiveFails \/ R!Destroy
           \/ \E p \in RP!Packets : R!ReceiveBadPacket(p)
    PROVE  RP!IInv'
<1> USE DEF R!Idle, RP!Idle, R!NothingToRead, RP!NothingToRead,
        R!CallAllErrorHandlers, RP!CallAllErrorHandlers, R!Record, RP!Record
<1>1. R!ReceiveFails => RP!ReceiveFails
    BY DEF R!ReceiveFails, RP!ReceiveFails
<1>2. R!Destroy => RP!Destroy
    BY DEF R!Destroy, RP!Destroy
<1>3. ASSUME NEW p \in RP!Packets, R!ReceiveBadPacket(p)
      PROVE  RP!ReceiveBadPacket(p)
    BY <1>3 DEF R!ReceiveBadPacket, RP!ReceiveBadPacket, R!AckOf, RP!AckOf, R!HandshakeSeq, RP!HandshakeSeq,
        R!NewConnectionId, RP!NewConnectionId
<1>4. QED
    BY <1>1, <1>2, <1>3, RP!FailingActions, Constants DEF RConstants

LEMMA AnswerReceiving ==
    ASSUME RP!IInv, NEW p \in RP!Packets,
           R!ReceiveUnknown(p) \/ R!ReceiveResponse(p)
    PROVE  RP!IInv'
<1> USE DEF R!NothingToRead, RP!NothingToRead, R!GoodPacket, RP!GoodPacket,
        R!AckOf, RP!AckOf, R!HandshakeSeq, RP!HandshakeSeq, R!NewConnectionId, RP!NewConnectionId,
        R!Erase, RP!Erase, R!Restrict, RP!Restrict, R!Record, RP!Record
<1>1. R!ReceiveUnknown(p) => RP!ReceiveUnknown(p)
    BY DEF R!ReceiveUnknown, RP!ReceiveUnknown
<1>2. R!ReceiveResponse(p) => RP!ReceiveResponse(p)
    BY DEF R!ReceiveResponse, RP!ReceiveResponse
<1>3. QED
    BY <1>1, <1>2, RP!ReceiveUnknownInv, RP!ReceiveResponseInv, Constants
    DEF RConstants

LEMMA ErrorReceiving ==
    ASSUME RP!IInv,
           (\E q \in R!AllSeqs : R!CallErrorHandler(q)) \/ R!AllErrorHandlersCalled
    PROVE  RP!IInv'
<1>1. \A q \in RP!AllSeqs : R!CallErrorHandler(q) => RP!CallErrorHandler(q)
    BY DEF R!CallErrorHandler, RP!CallErrorHandler, R!Erase, RP!Erase, R!Restrict, RP!Restrict,
        R!Record, RP!Record
<1>2. R!AllErrorHandlersCalled => RP!AllErrorHandlersCalled
    BY DEF R!AllErrorHandlersCalled, RP!AllErrorHandlersCalled, R!Restrict,
        RP!Restrict
<1>3. QED
    BY <1>1, <1>2, RP!CallErrorHandlerInv, RP!AllCalledInv, Constants
    DEF RConstants, R!AllSeqs, RP!AllSeqs, R!HandshakeSeq, RP!HandshakeSeq

(* What happens to the handlers of the sender does not touch the receiver. *)
LEMMA FatedElsewhere ==
    ASSUME RP!IInv, NEW h \in Handlers, NEW what \in RP!Fates,
           fate[h] = << >>, fate' = RP!Record(h, what),
           \A s \in DOMAIN map : map[s].handler # h,
           UNCHANGED rcvVars
    PROVE  /\ RP!IInv'
           /\ fate'[h] # << >>
           /\ \A g \in RP!AllHandlers \ {h} : fate'[g] = fate[g]
<1> USE DEF rcvVars
<1>1. h \in RP!AllHandlers /\ RP!CalledOnce /\ fate \in [RP!AllHandlers -> Seq(RP!Fates)]
    BY DEF RP!AllHandlers, RP!IInv, RP!TypeOK
<1>2. /\ fate' \in [RP!AllHandlers -> Seq(RP!Fates)] /\ RP!CalledOnce'
      /\ fate'[h] # << >>
      /\ \A g \in RP!AllHandlers \ {h} : fate'[g] = fate[g]
    BY <1>1, RP!FirstFate, Constants DEF RConstants
<1>3. \A s \in DOMAIN map : map[s].handler \in RP!AllHandlers \ {h}
    BY DEF RP!IInv, RP!TypeOK, RP!Entry
<1>4. RP!TypeOK' /\ RP!MapsInverse' /\ RP!ChecksHold' /\ RP!PositionsAgree'
    BY <1>2 DEF RP!IInv, RP!TypeOK, RP!MapsInverse, RP!ChecksHold,
        RP!PositionsAgree, RP!Failing, RP!Live
<1>5. RP!FatesAgree'
    BY <1>2, <1>3 DEF RP!IInv, RP!FatesAgree, RP!Live, RP!Failing, RP!TypeOK
<1>6. QED
    BY <1>2, <1>4, <1>5 DEF RP!IInv

LEMMA NotFated ==
    ASSUME RP!IInv, UNCHANGED <<rcvVars, fate>>
    PROVE  RP!IInv'
BY RP!QuietActions, Constants DEF RConstants, rcvVars, RP!rcvVars

-----------------------------------------------------------------------------
(* The sender's steps are those its proofs are about.                      *)
LEMMA QuietSending ==
    ASSUME SP!SInv,
           \/ S!CallSend \/ S!SendIdle \/ S!WriteWaits \/ S!FailedReturns
           \/ S!DrainedReturns \/ S!DrainEnds \/ S!DestroySender
           \/ S!MembersDestroyed
    PROVE  SP!SInv'
<1> USE DEF S!SendReturns, SP!SendReturns, appFate
<1>1. S!CallSend => SP!CallSend
    BY DEF S!CallSend, SP!CallSend
<1>2. S!SendIdle => SP!SendIdle
    BY DEF S!SendIdle, SP!SendIdle
<1>3. S!WriteWaits => SP!WriteWaits
    BY DEF S!WriteWaits, SP!WriteWaits
<1>4. S!FailedReturns => SP!FailedReturns
    BY DEF S!FailedReturns, SP!FailedReturns
<1>5. S!DrainedReturns => SP!DrainedReturns
    BY DEF S!DrainedReturns, SP!DrainedReturns
<1>6. S!DrainEnds => SP!DrainEnds
    BY DEF S!DrainEnds, SP!DrainEnds
<1>7. S!DestroySender => SP!DestroySender
    BY DEF S!DestroySender, SP!DestroySender
<1>8. S!MembersDestroyed => SP!MembersDestroyed
    BY DEF S!MembersDestroyed, SP!MembersDestroyed
<1>9. QED
    BY <1>1, <1>2, <1>3, <1>4, <1>5, <1>6, <1>7, <1>8, SP!QuietSendActions,
       Constants DEF SConstants

(* Recording a fate of the application's handler is the same in both.      *)
LEMMA AppFated ==
    ASSUME NEW h \in Handlers, NEW what, DOMAIN fate = RP!AllHandlers,
           fate' = S!Fated(h, what)
    PROVE  /\ appFate' = SP!Fated(h, what)
           /\ fate' = RP!Record(h, what)
BY DEF S!Fated, SP!Fated, RP!Record, appFate, RP!AllHandlers

LEMMA TakeSending == SP!SInv /\ S!TakeRequest => SP!SInv'
<1>1. S!TakeRequest => SP!TakeRequest
    BY DEF S!TakeRequest, SP!TakeRequest, appFate
<1>2. QED
    BY <1>1, SP!TakeRequestKeeps, Constants DEF SConstants

LEMMA EnqueueSending ==
    ASSUME SP!SInv, NEW h \in Handlers, NEW k \in Keys, NEW id \in Ids,
           SP!NewHandler(h), S!Enqueue(h, k, id)
    PROVE  SP!SInv'
<1>1. SP!Enqueue(h, k, id)
    BY DEF S!Enqueue, SP!Enqueue, appFate, S!SendInCallback, SP!SendInCallback
<1>2. QED
    BY <1>1, SP!EnqueueKeeps, Constants DEF SConstants

-----------------------------------------------------------------------------
(* What the invariant says of one request, wherever it is.                 *)

(* A request that waits in the queue.                                      *)
LEMMA QueuedFacts ==
    ASSUME PInv
    PROVE  /\ queue \in Seq(SP!Request) /\ Len(queue) \in Nat
           /\ DOMAIN queue = 1 .. Len(queue)
           /\ \A i \in 1 .. Len(queue) :
                /\ queue[i] \in SP!Request
                /\ queue[i].handler \in Handlers /\ queue[i].handler < nextSeq
                /\ queue[i].seq = queue[i].handler /\ queue[i].key = queue[i].handler
                /\ queue[i].id = DriveId
                /\ fate[queue[i].handler] = << >>
                /\ queue[i].handler # writing
                /\ queue[i].handler \notin SentSeqs
                /\ \A s \in DOMAIN map : map[s].handler # queue[i].handler
<1>1. SP!SenderTypeOK /\ SP!HeldOnce /\ SP!NumbersGrow
    BY DEF PInv, SP!SInv
<1>2. /\ queue \in Seq(SP!Request) /\ Len(queue) \in Nat
      /\ DOMAIN queue = 1 .. Len(queue)
      /\ \A i \in 1 .. Len(queue) : queue[i] \in SP!Request /\ queue[i].handler \in Handlers
    BY <1>1, SP!QueuedAreRequests, Constants DEF SConstants
<1>3. ASSUME NEW i \in 1 .. Len(queue)
      PROVE  /\ queue[i].seq = queue[i].handler /\ queue[i].key = queue[i].handler
             /\ queue[i].id = DriveId
             /\ queue[i].handler < nextSeq
             /\ queue[i].handler # writing
             /\ fate[queue[i].handler] = << >>
    BY <1>1, <1>2 DEF PInv, Numbered, SP!HeldOnce, SP!NumbersGrow, appFate
<1>4. ASSUME NEW i \in 1 .. Len(queue)
      PROVE  queue[i].handler \notin SentSeqs
    <2>1. \A j \in 1 .. Len(sent) : sent[j].seq < queue[i].seq
        BY <1>1 DEF SP!NumbersGrow
    <2>2. queue[i].seq \in Nat
        BY <1>2, <1>3 DEF Handlers
    <2>3. QED
        BY <1>3, <2>1, <2>2 DEF SentSeqs
<1>5. ASSUME NEW i \in 1 .. Len(queue), NEW s \in DOMAIN map
      PROVE  map[s].handler # queue[i].handler
    BY <1>2, <1>4, MarkersOK DEF PInv, Numbered
<1>6. QED
    BY <1>2, <1>3, <1>4, <1>5

(* The request that is being written.                                      *)
LEMMA WritingFacts ==
    ASSUME PInv, writing # NoHandler
    PROVE  /\ writing \in Handlers /\ writing < nextSeq
           /\ writer # NoWriter /\ writer.seq = writing /\ writer.key = writing
           /\ writer.id = DriveId
           /\ spc # "failed" => fate[writing] = << >>
           /\ spc = "failed" => fate[writing] # << >>
           /\ writing \notin SentSeqs
           /\ writing \notin DOMAIN map /\ writing \notin DOMAIN seqOfKey
           /\ \A s \in DOMAIN map : map[s].handler # writing
<1>1. SP!SenderTypeOK /\ SP!HeldOnce /\ SP!NumbersGrow /\ RP!TypeOK /\ RP!MapsInverse
    BY DEF PInv, SP!SInv, RP!IInv
<1>2. /\ writing \in Handlers /\ writer # NoWriter /\ writer.seq = writing
      /\ writer.key = writing /\ writer.id = DriveId
    BY <1>1 DEF PInv, Numbered, SP!SenderTypeOK
<1>3. /\ writing < nextSeq
      /\ \A j \in 1 .. Len(sent) : sent[j].seq < writing
    BY <1>1, <1>2 DEF SP!NumbersGrow
<1>4. writing \notin SentSeqs /\ writing # -1
    BY <1>2, <1>3 DEF SentSeqs, Handlers
<1>5. spc # "failed" <=> fate[writing] = << >>
    BY <1>1, <1>2 DEF PInv, Control, SP!HeldOnce, appFate
<1>6. /\ writing \notin DOMAIN map
      /\ \A s \in DOMAIN map : map[s].handler # writing /\ map[s].key # writing
    BY <1>2, <1>4, MarkersOK DEF PInv, Numbered
<1>7. writing \notin DOMAIN seqOfKey
    BY <1>1, <1>6 DEF RP!MapsInverse, RP!TypeOK, RP!Live
<1>8. QED
    BY <1>2, <1>3, <1>4, <1>5, <1>6, <1>7

(* A request that the receiver still has to call back.                     *)
LEMMA LiveFacts ==
    ASSUME PInv
    PROVE  /\ RP!Live \subseteq DOMAIN map /\ R!Live = RP!Live
           /\ \A s \in RP!Live : fate[map[s].handler] = << >>
           /\ \A s \in DOMAIN map \ {-1} :
                /\ s \in SentSeqs /\ s \in Handlers /\ s < nextSeq
                /\ map[s].handler = s /\ map[s].key = s
           /\ -1 \in DOMAIN map => map[-1].handler = HandshakeHandler
<1>1. SP!SenderTypeOK /\ SP!NumbersGrow /\ RP!TypeOK /\ RP!FatesAgree
    BY DEF PInv, SP!SInv, RP!IInv
<1>2. /\ RP!Live \subseteq DOMAIN map /\ R!Live = RP!Live
    BY <1>1 DEF RP!TypeOK, RP!Live, R!Live, RP!Failing, R!Failing
<1>3. \A s \in RP!Live : fate[map[s].handler] = << >>
    BY <1>1 DEF RP!FatesAgree
<1>4. ASSUME NEW s \in DOMAIN map, s # -1
      PROVE  /\ s \in SentSeqs /\ s \in Handlers /\ s < nextSeq
             /\ map[s].handler = s /\ map[s].key = s
    <2>1. s \in SentSeqs /\ map[s].handler = s /\ map[s].key = s
        BY <1>4 DEF PInv, Numbered
    <2>2. s \in Handlers
        BY <1>1, <1>4 DEF RP!TypeOK, RP!AllSeqs, RP!HandshakeSeq, Seqs
    <2>3. s < nextSeq
        BY <1>1, <2>1 DEF SentSeqs, SP!NumbersGrow
    <2>4. QED
        BY <2>1, <2>2, <2>3
<1>5. -1 \in DOMAIN map => map[-1].handler = HandshakeHandler
    <2>1. \A i \in 1 .. Len(sent) : sent[i].seq \in Nat
        BY <1>1, SP!NumbersAreNumbers, Constants DEF SConstants
    <2>2. -1 \notin SentSeqs
        BY <2>1 DEF SentSeqs
    <2>3. QED
        BY <2>2 DEF PInv, Numbered
<1>6. QED
    BY <1>2, <1>3, <1>4, <1>5

-----------------------------------------------------------------------------
(* What a step does to the requests.                                       *)

InQueue(h) == \E i \in 1 .. Len(queue) : queue[i].handler = h
InMap(h)   == \E s \in RP!Live : map[s].handler = h

(* Nothing happens to request h.                                           *)
Same(h) ==
    /\ fate'[h] = fate[h]
    /\ h < nextKey /\ fate[h] = << >> => (h \in HandlersHeld' <=> h \in HandlersHeld)

Still == nextKey' = nextKey /\ \A h \in Handlers : Same(h)

(* A pending request is called back or removed.                            *)
Settles(h, what) ==
    /\ nextKey' = nextKey
    /\ h < nextKey /\ fate[h] = << >> /\ h \in HandlersHeld
    /\ fate'[h] = <<what>>
    /\ \A g \in Handlers \ {h} : Same(g)

(* A new request is queued, or fails at once.                              *)
Admits ==
    /\ nextKey \in Handlers /\ nextKey' = nextKey + 1
    /\ fate'[nextKey] = << >> /\ nextKey \in HandlersHeld'
    /\ \A g \in Handlers \ {nextKey} : Same(g)

Rejects ==
    /\ nextKey \in Handlers /\ nextKey' = nextKey + 1
    /\ fate'[nextKey] = <<"failed">>
    /\ \A g \in Handlers \ {nextKey} : Same(g)

(* The request being written goes with the sender's members.               *)
Loses(h) ==
    /\ nextKey' = nextKey
    /\ h < nextKey /\ fate[h] = << >> /\ h \in HandlersHeld
    /\ fate'[h] = << >> /\ h \notin HandlersHeld'
    /\ \A g \in Handlers \ {h} : Same(g)

LEMMA HeldIs ==
    ASSUME SP!SInv
    PROVE  \A h : h \in HandlersHeld <=> InQueue(h) \/ h = writing \/ InMap(h)
<1>1. DOMAIN queue = 1 .. Len(queue)
    BY SP!QueuedAreRequests, Constants DEF SConstants, SP!SInv
<1>2. R!Live = RP!Live
    BY DEF R!Live, RP!Live, R!Failing, RP!Failing
<1>3. S!HandlersQueued = {queue[i].handler : i \in 1 .. Len(queue)}
    BY <1>1 DEF S!HandlersQueued, S!ToSet
<1>4. QED
    BY <1>2, <1>3 DEF HandlersHeld, InQueue, InMap

LEMMA HeldIsNext ==
    ASSUME SP!SInv'
    PROVE  \A h : h \in HandlersHeld' <=> InQueue(h)' \/ h = writing' \/ InMap(h)'
<1>1. DOMAIN queue' = 1 .. Len(queue')
    <2>1. queue' \in Seq(SP!Request)
        BY DEF SP!SInv, SP!SenderTypeOK
    <2>2. QED
        BY <2>1, LenProperties
<1>2. R!Live' = RP!Live'
    BY DEF R!Live, RP!Live, R!Failing, RP!Failing
<1>3. S!HandlersQueued' = {queue'[i].handler : i \in 1 .. Len(queue')}
    BY <1>1 DEF S!HandlersQueued, S!ToSet
<1>4. QED
    BY <1>2, <1>3 DEF HandlersHeld, InQueue, InMap

(* When neither the receiver nor the sender gives a handler away or gets   *)
(* one, and nobody is called, nothing happens.                             *)
LEMMA StillBecause ==
    ASSUME SP!SInv, SP!SInv', nextKey' = nextKey, appFate' = appFate,
           \A h \in Handlers : fate[h] = << >> =>
              (InQueue(h)' \/ h = writing' \/ InMap(h)'
                 <=> InQueue(h) \/ h = writing \/ InMap(h))
    PROVE  Still
<1>1. \A h \in Handlers : fate'[h] = fate[h]
    <2>1. \A h \in Handlers : appFate[h] = fate[h] /\ appFate'[h] = fate'[h]
        BY DEF appFate
    <2>2. QED
        BY <2>1
<1>2. QED
    BY <1>1, HeldIs, HeldIsNext DEF Still, Same

(* The receiver records a fate, or nothing; the sender stays as it is.     *)
LEMMA NotSent ==
    ASSUME SP!SInv, UNCHANGED sndVars, appFate' = appFate
    PROVE  SP!SInv'
BY SP!SenderNextInv, Constants DEF SConstants, sndVars, SP!sndVars

LEMMA FatedByReceiver ==
    ASSUME SP!SInv, UNCHANGED sndVars, NEW h \in Handlers,
           NEW what \in SP!SendFates, fate[h] = << >>,
           appFate' = SP!Fated(h, what), h # writing, ~InQueue(h)
    PROVE  SP!SInv'
<1> USE DEF sndVars
<1>1. appFate[h] = << >> /\ appFate \in [Handlers -> Seq(SP!SendFates)] /\ SP!CalledOnce
    BY DEF appFate, SP!SInv, SP!SenderTypeOK
<1>2. /\ appFate' \in [Handlers -> Seq(SP!SendFates)] /\ SP!CalledOnce'
      /\ appFate'[h] # << >>
      /\ \A g \in Handlers \ {h} : appFate'[g] = appFate[g]
    BY <1>1, SP!FirstFated, Constants DEF SConstants
<1>3. SP!SenderTypeOK' /\ SP!PositionsKnow' /\ SP!NumbersGrow'
    BY <1>2 DEF SP!SInv, SP!SenderTypeOK, SP!PositionsKnow, SP!NumbersGrow, SP!Growing
<1>4. SP!HeldOnce'
    <2>1. \A i \in 1 .. Len(queue) : queue[i].handler \in Handlers \ {h}
        BY SP!QueuedAreRequests, Constants DEF SConstants, InQueue, SP!SInv
    <2>2. writing # NoHandler => writing \in Handlers \ {h}
        BY DEF SP!SInv, SP!SenderTypeOK
    <2>3. QED
        BY <1>2, <2>1, <2>2 DEF SP!SInv, SP!HeldOnce, SP!Different
<1>5. QED
    BY <1>2, <1>3, <1>4 DEF SP!SInv

(* A handler's first fate is its only one.                                 *)
LEMMA OneFate ==
    ASSUME NEW h \in RP!AllHandlers, NEW what, DOMAIN fate = RP!AllHandlers,
           fate[h] = << >>, fate' = RP!Record(h, what)
    PROVE  /\ fate'[h] = <<what>>
           /\ \A g \in RP!AllHandlers \ {h} : fate'[g] = fate[g]
BY DEF RP!Record

-----------------------------------------------------------------------------
(* The receiver's steps in the connection.                                 *)

(* Steps that call nobody and forget nobody.                               *)
LEMMA QuietReceiverStep ==
    ASSUME PInv, UNCHANGED <<sndVars, nextKey>>,
           \/ R!CallReceive \/ R!ReceiveIdle \/ R!ReceiveWaits
           \/ R!HandlerReturns \/ R!ErrorHandlerReturns
           \/ R!HandshakeReceivesAgain \/ R!HandshakeSucceeds
           \/ R!HandshakeThrows
    PROVE  RP!IInv' /\ SP!SInv' /\ Still
<1>1. RP!IInv'
    BY QuietReceiving DEF PInv
<1>2. /\ UNCHANGED <<map, fate, unvisited>>
      /\ RP!Failing' <=> RP!Failing
    BY DEF R!CallReceive, R!ReceiveIdle, R!ReceiveWaits, R!HandlerReturns,
        R!ErrorHandlerReturns, R!HandshakeReceivesAgain, R!HandshakeSucceeds,
        R!HandshakeThrows, R!Return, R!Idle, RP!Failing
<1>3. appFate' = appFate
    BY <1>2 DEF appFate
<1>4. SP!SInv'
    BY <1>3, NotSent DEF PInv
<1>5. \A h : (InQueue(h)' <=> InQueue(h)) /\ (InMap(h)' <=> InMap(h)) /\ writing' = writing
    BY <1>2 DEF InQueue, InMap, RP!Live, sndVars
<1>6. Still
    BY <1>3, <1>4, <1>5, StillBecause DEF PInv
<1>7. QED
    BY <1>1, <1>4, <1>6

(* An error begins: everyone who waits is still to be called.              *)
LEMMA FailingStep ==
    ASSUME PInv, UNCHANGED <<sndVars, nextKey>>,
           \/ R!ReceiveFails \/ R!Destroy
           \/ \E p \in RP!Packets : R!ReceiveBadPacket(p)
    PROVE  RP!IInv' /\ SP!SInv' /\ Still
<1>1. RP!IInv'
    BY FailReceiving DEF PInv
<1>2. PICK st : R!CallAllErrorHandlers(st) /\ ~RP!Failing /\ rpc # "handling"
    BY DEF R!ReceiveFails, R!Destroy, R!ReceiveBadPacket, R!Idle, RP!Failing
<1>3. handler = NoHandler
    BY <1>2 DEF PInv, RP!IInv, RP!PositionsAgree
<1>4. /\ UNCHANGED <<map, fate>> /\ unvisited' = DOMAIN map /\ RP!Failing'
    BY <1>2, <1>3 DEF R!CallAllErrorHandlers, RP!Failing
<1>5. appFate' = appFate
    BY <1>4 DEF appFate
<1>6. SP!SInv'
    BY <1>5, NotSent DEF PInv
<1>7. \A h : (InQueue(h)' <=> InQueue(h)) /\ (InMap(h)' <=> InMap(h)) /\ writing' = writing
    BY <1>2, <1>4 DEF InQueue, InMap, RP!Live, sndVars
<1>8. Still
    BY <1>5, <1>6, <1>7, StillBecause DEF PInv
<1>9. QED
    BY <1>1, <1>6, <1>8

(* A response nobody waits for.                                            *)
LEMMA UnknownStep ==
    ASSUME PInv, UNCHANGED <<sndVars, nextKey>>,
           NEW p \in RP!Packets, R!ReceiveUnknown(p)
    PROVE  RP!IInv' /\ SP!SInv' /\ Still
<1>1. RP!IInv'
    BY AnswerReceiving DEF PInv
<1>2. UNCHANGED <<map, fate, unvisited, rpc>>
    BY DEF R!ReceiveUnknown
<1>3. appFate' = appFate
    BY <1>2 DEF appFate
<1>4. SP!SInv'
    BY <1>3, NotSent DEF PInv
<1>5. \A h : (InQueue(h)' <=> InQueue(h)) /\ (InMap(h)' <=> InMap(h)) /\ writing' = writing
    BY <1>2 DEF InQueue, InMap, RP!Live, RP!Failing, sndVars
<1>6. Still
    BY <1>3, <1>4, <1>5, StillBecause DEF PInv
<1>7. QED
    BY <1>1, <1>4, <1>6

(* The receiver lets go of the entry s of map_, and its handler gets what. *)
LEMMA ReceiverSettles ==
    ASSUME PInv, UNCHANGED <<sndVars, nextKey>>, RP!IInv',
           NEW s \in RP!Live, NEW what \in SP!SendFates,
           fate' = RP!Record(map[s].handler, what),
           RP!Live' = RP!Live \ {s},
           \A q \in RP!Live \ {s} : map'[q] = map[q]
    PROVE  /\ SP!SInv'
           /\ IF s = -1 THEN Still ELSE s \in Handlers /\ Settles(s, what)
<1> DEFINE h == map[s].handler
<1>1. /\ RP!Live \subseteq DOMAIN map /\ fate[h] = << >>
      /\ \A q \in DOMAIN map \ {-1} : q \in Handlers /\ q < nextSeq /\ map[q].handler = q
      /\ \A q \in DOMAIN map \ {-1} : q \in SentSeqs
      /\ -1 \in DOMAIN map => map[-1].handler = HandshakeHandler
    BY LiveFacts
<1>2. /\ DOMAIN fate = RP!AllHandlers /\ h \in RP!AllHandlers
      /\ Handlers \subseteq RP!AllHandlers
    BY <1>1 DEF PInv, RP!IInv, RP!TypeOK, RP!Entry, RP!AllHandlers
<1>3. /\ fate'[h] = <<what>>
      /\ \A g \in RP!AllHandlers \ {h} : fate'[g] = fate[g]
    BY <1>1, <1>2, OneFate
<1>4. \A g : InQueue(g)' <=> InQueue(g)
    BY DEF InQueue, sndVars
<1>5. CASE s = -1
    <2>1. \A g \in Handlers : fate'[g] = fate[g]
        BY <1>1, <1>2, <1>3, <1>5, MarkersOK
    <2>2. appFate' = appFate
        BY <2>1 DEF appFate
    <2>3. SP!SInv'
        BY <2>2, NotSent DEF PInv
    <2>4. \A g \in Handlers : InMap(g)' <=> InMap(g)
        BY <1>1, <1>5, MarkersOK DEF InMap
    <2>5. Still
        BY <1>4, <2>2, <2>3, <2>4, StillBecause DEF PInv, sndVars
    <2>6. QED
        BY <1>5, <2>3, <2>5
<1>6. CASE s # -1
    <2>1. h = s /\ s \in Handlers /\ s < nextKey /\ s \in SentSeqs
        BY <1>1, <1>6 DEF PInv, Numbered, SP!SInv, SP!SenderTypeOK, Handlers
    <2>2. s # writing /\ ~InQueue(s)
        <3>1. s = writing => FALSE
            BY <2>1, WritingFacts, MarkersOK
        <3>2. QED
            BY <2>1, <3>1, QueuedFacts DEF InQueue
    <2>3. appFate' = SP!Fated(s, what)
        BY <1>2, <2>1 DEF SP!Fated, RP!Record, appFate
    <2>4. SP!SInv'
        BY <1>1, <2>1, <2>2, <2>3, FatedByReceiver DEF PInv
    <2>5. \A g \in Handlers \ {s} : InMap(g)' <=> InMap(g)
        BY <1>1, <2>1 DEF InMap
    <2>6. InMap(s)
        BY <2>1 DEF InMap
    <2>7. SP!SInv
        BY DEF PInv
    <2>8. \A g \in Handlers \ {s} : Same(g)
        BY <1>2, <1>3, <1>4, <2>1, <2>4, <2>5, <2>7, HeldIs, HeldIsNext DEF Same, sndVars
    <2>9. s \in HandlersHeld
        BY <2>6, <2>7, HeldIs
    <2>10. Settles(s, what)
        BY <1>1, <1>3, <2>1, <2>8, <2>9 DEF Settles
    <2>11. QED
        BY <1>6, <2>1, <2>4, <2>10
<1>7. QED
    BY <1>5, <1>6

(* One turn of the loop of CallAllErrorHandlers.                           *)
LEMMA ErrorStep ==
    ASSUME PInv, UNCHANGED <<sndVars, nextKey>>, NEW q \in R!AllSeqs,
           R!CallErrorHandler(q)
    PROVE  /\ RP!IInv' /\ SP!SInv'
           /\ Still \/ (q \in Handlers /\ Settles(q, "failed"))
<1>1. RP!IInv'
    BY ErrorReceiving DEF PInv
<1>2. /\ q \in RP!Live /\ RP!Live' = RP!Live \ {q} /\ map' = map
      /\ fate' = RP!Record(map[q].handler, "failed")
    BY DEF R!CallErrorHandler, RP!Live, RP!Failing, R!Record, RP!Record
<1>3. "failed" \in SP!SendFates
    BY DEF SP!SendFates
<1>4. QED
    BY <1>1, <1>2, <1>3, ReceiverSettles

(* map_.clear() when everyone has been called.                             *)
LEMMA ClearStep ==
    ASSUME PInv, UNCHANGED <<sndVars, nextKey>>, R!AllErrorHandlersCalled
    PROVE  RP!IInv' /\ SP!SInv' /\ Still /\ DOMAIN map' = {}
<1>1. RP!IInv'
    BY ErrorReceiving DEF PInv
<1>2. UNCHANGED fate /\ RP!Live = {} /\ RP!Live' = {} /\ DOMAIN map' = {}
    BY DEF R!AllErrorHandlersCalled, R!Restrict, RP!Live, RP!Failing
<1>3. appFate' = appFate
    BY <1>2 DEF appFate
<1>4. SP!SInv'
    BY <1>3, NotSent DEF PInv
<1>5. \A h : (InQueue(h)' <=> InQueue(h)) /\ (InMap(h)' <=> InMap(h)) /\ writing' = writing
    BY <1>2 DEF InQueue, InMap, sndVars
<1>6. Still
    BY <1>3, <1>4, <1>5, StillBecause DEF PInv
<1>7. QED
    BY <1>1, <1>2, <1>4, <1>6

(* The response to a waiting request.                                      *)
Outcome(p) == IF p.success THEN "succeeded" ELSE "failed"

LEMMA ResponseStep ==
    ASSUME PInv, UNCHANGED <<sndVars, nextKey>>,
           NEW p \in RP!Packets, R!ReceiveResponse(p)
    PROVE  /\ RP!IInv' /\ SP!SInv'
           /\ IF R!AckOf(p) = -1 THEN Still
                ELSE R!AckOf(p) \in Handlers /\ Settles(R!AckOf(p), Outcome(p))
           /\ R!AckOf(p) \in DOMAIN map
           /\ fate' = RP!Record(map[R!AckOf(p)].handler, Outcome(p))
<1> DEFINE s == R!AckOf(p)
<1>1. RP!IInv'
    BY AnswerReceiving DEF PInv
<1>2. rpc = "reading" /\ rpc' = "handling" /\ s \in DOMAIN map /\ map' = R!Erase(map, s)
    BY DEF R!ReceiveResponse
<1>3. RP!Live = DOMAIN map /\ RP!Live' = DOMAIN map'
    BY <1>2 DEF RP!Live, RP!Failing
<1>4. /\ DOMAIN map' = DOMAIN map \ {s}
      /\ \A t \in DOMAIN map \ {s} : map'[t] = map[t]
    BY <1>2 DEF R!Erase, R!Restrict
<1>5. fate' = RP!Record(map[s].handler, Outcome(p))
    BY DEF R!ReceiveResponse, R!Record, RP!Record, Outcome
<1>6. Outcome(p) \in SP!SendFates
    BY DEF Outcome, SP!SendFates
<1> HIDE DEF s
<1>7. SP!SInv' /\ IF s = -1 THEN Still ELSE s \in Handlers /\ Settles(s, Outcome(p))
    BY <1>1, <1>2, <1>3, <1>4, <1>5, <1>6, ReceiverSettles
<1>8. QED
    BY <1>1, <1>2, <1>5, <1>7 DEF s

(* Remove finds the key with the receiver.                                 *)
LEMMA RemoveStep ==
    ASSUME PInv, UNCHANGED <<sndVars, nextKey>>, NEW k \in Keys, R!Remove(k)
    PROVE  /\ RP!IInv' /\ SP!SInv'
           /\ k \in Handlers /\ Settles(k, "removed")
<1> DEFINE s == seqOfKey[k]
<1>1. RP!IInv'
    BY RemoveReceiving DEF PInv
<1>2. /\ k \in DOMAIN seqOfKey /\ map' = R!Erase(map, s) /\ rpc' = rpc
      /\ unvisited' = unvisited \ {s}
    BY DEF R!Remove
<1>3. /\ s \in RP!Live /\ s \in DOMAIN map /\ map[s].key = k
    BY <1>2, LiveFacts DEF PInv, RP!IInv, RP!MapsInverse
<1>4. s = k /\ k \in Handlers /\ s # -1
    BY <1>3, MarkersOK DEF PInv, Numbered, Keys, Handlers
<1>5. fate' = RP!Record(map[s].handler, "removed")
    BY <1>3 DEF R!Remove, R!Record, RP!Record
<1>6. /\ DOMAIN map' = DOMAIN map \ {s}
      /\ \A t \in DOMAIN map \ {s} : map'[t] = map[t]
    BY <1>2 DEF R!Erase, R!Restrict
<1>7. RP!Live' = RP!Live \ {s} /\ \A t \in RP!Live \ {s} : map'[t] = map[t]
    BY <1>2, <1>6, LiveFacts DEF RP!Live, RP!Failing
<1>8. "removed" \in SP!SendFates
    BY DEF SP!SendFates
<1> HIDE DEF s
<1>9. SP!SInv' /\ IF s = -1 THEN Still ELSE s \in Handlers /\ Settles(s, "removed")
    BY <1>1, <1>3, <1>5, <1>7, <1>8, ReceiverSettles
<1>10. QED
    BY <1>1, <1>4, <1>9

-----------------------------------------------------------------------------
(* The sender's steps in the connection.                                   *)

LEMMA QuietSenderStep ==
    ASSUME PInv, UNCHANGED <<rcvVars, nextKey>>,
           \/ S!CallSend \/ S!SendIdle \/ S!WriteWaits \/ S!FailedReturns
           \/ S!DrainedReturns \/ S!DrainEnds \/ S!DestroySender
    PROVE  RP!IInv' /\ SP!SInv' /\ Still
<1>1. SP!SInv'
    BY QuietSending DEF PInv
<1>2. /\ UNCHANGED <<queue, fate>>
      /\ S!FailedReturns \/ writing' = writing
    BY DEF S!CallSend, S!SendIdle, S!WriteWaits, S!FailedReturns,
        S!DrainedReturns, S!DrainEnds, S!DestroySender, S!SendReturns
<1>3. appFate' = appFate /\ RP!IInv'
    BY <1>2, NotFated DEF appFate, PInv
<1>4. \A h : (InQueue(h)' <=> InQueue(h)) /\ (InMap(h)' <=> InMap(h))
    BY <1>2 DEF InQueue, InMap, RP!Live, RP!Failing, rcvVars
<1>5. ASSUME S!FailedReturns, NEW h \in Handlers, fate[h] = << >>
      PROVE  h # writing /\ h # writing'
    BY <1>5, WritingFacts, Constants DEF S!FailedReturns, SConstants
<1>6. Still
    BY <1>1, <1>2, <1>3, <1>4, <1>5, StillBecause DEF PInv
<1>7. QED
    BY <1>1, <1>3, <1>6

(* Send begins to write the first request of the queue.                    *)
LEMMA TakeStep ==
    ASSUME PInv, UNCHANGED <<rcvVars, nextKey>>, S!TakeRequest
    PROVE  /\ RP!IInv' /\ SP!SInv' /\ Still
           /\ 1 \in 1 .. Len(queue) /\ writing' = queue[1].handler
           /\ writer' = [seq |-> queue[1].seq, key |-> queue[1].key, id |-> queue[1].id]
           /\ \A j \in 1 .. Len(queue') : j + 1 \in 1 .. Len(queue) /\ queue'[j] = queue[j + 1]
<1>1. /\ spc = "sending" /\ writer = NoWriter /\ queue # << >> /\ queue' = Tail(queue)
      /\ writing' = Head(queue).handler /\ UNCHANGED fate
      /\ writer' = [seq |-> Head(queue).seq, key |-> Head(queue).key, id |-> Head(queue).id]
    BY DEF S!TakeRequest
<1>2. SP!SInv'
    BY TakeSending DEF PInv
<1>3. appFate' = appFate /\ RP!IInv'
    BY <1>1, NotFated DEF appFate, PInv
<1>4. writing = NoHandler
    BY <1>1 DEF PInv, SP!SInv, SP!PositionsKnow
<1>5. /\ Head(queue) = queue[1] /\ Len(queue) \in Nat /\ Len(queue) >= 1
      /\ Len(queue') = Len(queue) - 1
      /\ \A j \in 1 .. Len(queue') : j + 1 \in 1 .. Len(queue) /\ queue'[j] = queue[j + 1]
    BY <1>1, QueuedFacts, SP!TailFacts, Constants DEF SConstants
<1>6. \A h : InMap(h)' <=> InMap(h)
    BY DEF InMap, RP!Live, RP!Failing, rcvVars
<1>7. ASSUME NEW h \in Handlers
      PROVE  InQueue(h)' \/ h = writing' <=> InQueue(h) \/ h = writing
    <2>1. h # writing /\ (h = writing' <=> h = queue[1].handler)
        BY <1>1, <1>4, <1>5, Constants DEF SConstants
    <2>2. ASSUME InQueue(h) PROVE InQueue(h)' \/ h = writing'
        <3>1. PICK i \in 1 .. Len(queue) : queue[i].handler = h
            BY <2>2 DEF InQueue
        <3>2. CASE i = 1
            BY <2>1, <3>1, <3>2
        <3>3. CASE i # 1
            <4>1. i - 1 \in 1 .. Len(queue') /\ (i - 1) + 1 = i
                BY <1>5, <3>3
            <4>2. queue'[i - 1] = queue[i]
                BY <1>5, <4>1
            <4>3. QED
                BY <3>1, <4>1, <4>2 DEF InQueue
        <3>4. QED
            BY <3>2, <3>3
    <2>3. InQueue(h)' => InQueue(h)
        BY <1>5 DEF InQueue
    <2>4. h = writing' => InQueue(h)
        BY <1>5, <2>1 DEF InQueue
    <2>5. QED
        BY <2>1, <2>2, <2>3, <2>4
<1>8. Still
    BY <1>2, <1>3, <1>6, <1>7, StillBecause DEF PInv
<1>9. QED
    BY <1>1, <1>2, <1>3, <1>5, <1>8

(* The sender lets go of h, which it holds, and h gets what.               *)
LEMMA SenderSettles ==
    ASSUME PInv, UNCHANGED <<rcvVars, nextKey>>, SP!SInv',
           NEW h \in Handlers, NEW what \in SP!SendFates,
           h < nextSeq, fate[h] = << >>, InQueue(h) \/ h = writing,
           \A s \in DOMAIN map : map[s].handler # h,
           fate' = S!Fated(h, what), UNCHANGED writing,
           \A g \in Handlers \ {h} : InQueue(g)' <=> InQueue(g)
    PROVE  RP!IInv' /\ Settles(h, what)
<1>1. DOMAIN fate = RP!AllHandlers /\ Handlers \subseteq RP!AllHandlers
    BY DEF PInv, RP!IInv, RP!TypeOK, RP!AllHandlers
<1>2. fate' = RP!Record(h, what)
    BY <1>1, AppFated
<1>3. RP!IInv'
    BY <1>2, FatedElsewhere DEF PInv, RP!Fates, SP!SendFates
<1>4. fate'[h] = <<what>> /\ \A g \in RP!AllHandlers \ {h} : fate'[g] = fate[g]
    BY <1>1, <1>2, OneFate
<1>5. \A g : InMap(g)' <=> InMap(g)
    BY DEF InMap, RP!Live, RP!Failing, rcvVars
<1>6. SP!SInv
    BY DEF PInv
<1>7. \A g \in Handlers \ {h} : Same(g)
    BY <1>1, <1>4, <1>5, <1>6, HeldIs, HeldIsNext DEF Same
<1>8. h < nextKey
    BY DEF PInv, Numbered, SP!SInv, SP!SenderTypeOK, Handlers
<1>9. QED
    BY <1>3, <1>4, <1>6, <1>7, <1>8, HeldIs DEF Settles

(* The write of a request failed.                                          *)
LEMMA WriteFailsStep ==
    ASSUME PInv, UNCHANGED <<rcvVars, nextKey>>, S!WriteFails
    PROVE  /\ RP!IInv' /\ SP!SInv'
           /\ writing \in Handlers /\ Settles(writing, "failed")
<1>1. /\ spc = "sending" /\ writer # NoWriter /\ fate' = S!Fated(writing, "failed")
      /\ UNCHANGED <<queue, writing>>
    BY DEF S!WriteFails
<1>2. writing # NoHandler
    BY <1>1 DEF PInv, SP!SInv, SP!PositionsKnow
<1>3. DOMAIN fate = RP!AllHandlers
    BY DEF PInv, RP!IInv, RP!TypeOK
<1>4. writing \in Handlers /\ appFate' = SP!Fated(writing, "failed")
    BY <1>1, <1>2, <1>3, WritingFacts, AppFated
<1>5. SP!WriteFails
    BY <1>4 DEF S!WriteFails, SP!WriteFails
<1>6. SP!SInv'
    BY <1>5, SP!WriteFailsKeeps, Constants DEF SConstants, PInv
<1>7. \A g : InQueue(g)' <=> InQueue(g)
    BY <1>1 DEF InQueue
<1>8. "failed" \in SP!SendFates
    BY DEF SP!SendFates
<1>9. QED
    BY <1>1, <1>2, <1>6, <1>7, <1>8, WritingFacts, SenderSettles

(* Nothing is in the queue that was not there before.                      *)
Shrinks == \A j \in 1 .. Len(queue') : \E n \in 1 .. Len(queue) : queue'[j] = queue[n]

(* One turn of the loops that empty the queue.                             *)
LEMMA DrainStep ==
    ASSUME PInv, UNCHANGED <<rcvVars, nextKey>>, S!DrainOne
    PROVE  /\ RP!IInv' /\ SP!SInv' /\ Shrinks
           /\ \E h \in Handlers : Settles(h, "failed")
<1> DEFINE h == queue[1].handler
<1>1. /\ queue # << >> /\ queue' = Tail(queue) /\ fate' = S!Fated(Head(queue).handler, "failed")
      /\ UNCHANGED writing
    BY DEF S!DrainOne
<1>2. /\ Head(queue) = queue[1] /\ Len(queue) \in Nat /\ Len(queue) >= 1
      /\ Len(queue') = Len(queue) - 1
      /\ \A j \in 1 .. Len(queue') : j + 1 \in 1 .. Len(queue) /\ queue'[j] = queue[j + 1]
    BY <1>1, QueuedFacts, SP!TailFacts, Constants DEF SConstants
<1>3. /\ 1 \in 1 .. Len(queue) /\ h \in Handlers /\ h < nextSeq /\ fate[h] = << >>
      /\ \A s \in DOMAIN map : map[s].handler # h
    BY <1>2, QueuedFacts
<1>4. fate' = S!Fated(h, "failed")
    BY <1>1, <1>2
<1>5. appFate' = SP!Fated(h, "failed")
    BY <1>3, <1>4, AppFated DEF PInv, RP!IInv, RP!TypeOK
<1>6. SP!DrainOne
    BY <1>1, <1>2, <1>5 DEF S!DrainOne, SP!DrainOne
<1>7. SP!SInv'
    BY <1>6, SP!DrainOneKeeps, Constants DEF SConstants, PInv
<1>8. ASSUME NEW g \in Handlers, g # h PROVE InQueue(g)' <=> InQueue(g)
    <2>1. ASSUME InQueue(g) PROVE InQueue(g)'
        <3>1. PICK i \in 1 .. Len(queue) : queue[i].handler = g
            BY <2>1 DEF InQueue
        <3>2. i - 1 \in 1 .. Len(queue') /\ (i - 1) + 1 = i
            BY <1>2, <1>8, <3>1
        <3>3. queue'[i - 1] = queue[i]
            BY <1>2, <3>2
        <3>4. QED
            BY <3>1, <3>2, <3>3 DEF InQueue
    <2>2. InQueue(g)' => InQueue(g)
        BY <1>2 DEF InQueue
    <2>3. QED
        BY <2>1, <2>2
<1>9. InQueue(h)
    BY <1>3 DEF InQueue
<1>10. "failed" \in SP!SendFates
    BY DEF SP!SendFates
<1>11. Shrinks
    BY <1>2 DEF Shrinks
<1> HIDE DEF h
<1>12. RP!IInv' /\ Settles(h, "failed")
    BY <1>1, <1>3, <1>4, <1>7, <1>8, <1>9, <1>10, SenderSettles
<1>13. QED
    BY <1>3, <1>7, <1>11, <1>12

(* Remove finds the key in the queue.                                      *)
LEMMA RemoveQueuedStep ==
    ASSUME PInv, UNCHANGED <<rcvVars, nextKey>>, NEW k \in Keys, S!RemoveQueued(k)
    PROVE  /\ RP!IInv' /\ SP!SInv' /\ Shrinks
           /\ \E h \in Handlers : Settles(h, "removed")
<1>1. PICK i \in 1 .. Len(queue) : /\ queue[i].key = k
                                   /\ \A j \in 1 .. i - 1 : queue[j].key # k
                                   /\ queue' = S!RemoveAt(queue, i)
                                   /\ fate' = S!Fated(queue[i].handler, "removed")
    BY QueuedFacts DEF S!RemoveQueued
<1> DEFINE h == queue[i].handler
<1>2. queue' = SP!RemoveAt(queue, i) /\ UNCHANGED writing
    BY <1>1 DEF S!RemoveAt, SP!RemoveAt, S!RemoveQueued
<1>3. /\ h \in Handlers /\ h < nextSeq /\ fate[h] = << >>
      /\ \A s \in DOMAIN map : map[s].handler # h
    BY QueuedFacts
<1>4. fate' = S!Fated(h, "removed")
    BY <1>1
<1>5. appFate' = SP!Fated(h, "removed")
    BY <1>3, <1>4, AppFated DEF PInv, RP!IInv, RP!TypeOK
<1>6. SP!RemoveQueued(k)
    BY <1>1, <1>2, <1>5, QueuedFacts
    DEF S!RemoveQueued, SP!RemoveQueued, S!SendInCallback, SP!SendInCallback
<1>7. SP!SInv'
    BY <1>6, SP!RemoveQueuedKeeps, Constants DEF SConstants, PInv
<1>8. /\ \A j \in 1 .. Len(queue') : /\ queue'[j].handler # h
                                     /\ \E n \in 1 .. Len(queue) : queue'[j] = queue[n]
      /\ \A n \in 1 .. Len(queue) :
            n # i => \E j \in 1 .. Len(queue') : queue'[j] = queue[n]
    <2>1. SP!Growing(queue) /\ SP!Different(queue) /\ queue \in Seq(SP!Request)
        BY DEF PInv, SP!SInv, SP!HeldOnce, SP!NumbersGrow, SP!SenderTypeOK
    <2> DEFINE t == SP!RemoveAt(queue, i)
    <2>2. /\ \A j \in 1 .. Len(t) : /\ h # t[j].handler
                                   /\ \E n \in 1 .. Len(queue) : t[j] = queue[n]
          /\ \A n \in 1 .. Len(queue) : n # i => \E j \in 1 .. Len(t) : t[j] = queue[n]
        BY <2>1, SP!RemoveKeeps, Constants DEF SConstants
    <2> HIDE DEF t
    <2>3. queue' = t
        BY <1>2 DEF t
    <2>4. QED
        BY <2>2, <2>3
<1>9. ASSUME NEW g \in Handlers, g # h PROVE InQueue(g)' <=> InQueue(g)
    BY <1>8, <1>9 DEF InQueue
<1>10. InQueue(h)
    BY DEF InQueue
<1>11. "removed" \in SP!SendFates
    BY DEF SP!SendFates
<1>12. Shrinks
    BY <1>8 DEF Shrinks
<1> HIDE DEF h
<1>13. RP!IInv' /\ Settles(h, "removed")
    BY <1>2, <1>3, <1>4, <1>7, <1>9, <1>10, <1>11, SenderSettles
<1>14. QED
    BY <1>3, <1>7, <1>12, <1>13

(* The sender's members go.                                                *)
LEMMA MembersStep ==
    ASSUME PInv, UNCHANGED <<rcvVars, nextKey>>, S!MembersDestroyed
    PROVE  /\ RP!IInv' /\ SP!SInv'
           /\ IF writing = NoHandler THEN Still
                                    ELSE writing \in Handlers /\ Loses(writing)
<1>1. /\ spc = "draining" /\ UNCHANGED <<queue, fate>> /\ writing' = NoHandler
    BY DEF S!MembersDestroyed
<1>2. SP!SInv'
    BY QuietSending DEF PInv
<1>3. appFate' = appFate /\ RP!IInv'
    BY <1>1, NotFated DEF appFate, PInv
<1>4. \A g : (InQueue(g)' <=> InQueue(g)) /\ (InMap(g)' <=> InMap(g))
    BY <1>1 DEF InQueue, InMap, RP!Live, RP!Failing, rcvVars
<1>5. CASE writing = NoHandler
    <2>1. Still
        BY <1>1, <1>2, <1>3, <1>4, <1>5, StillBecause DEF PInv
    <2>2. QED
        BY <1>2, <1>3, <1>5, <2>1
<1>6. CASE writing # NoHandler
    <2>1. /\ writing \in Handlers /\ writing < nextSeq /\ fate[writing] = << >>
          /\ \A s \in DOMAIN map : map[s].handler # writing
        BY <1>1, <1>6, WritingFacts
    <2>2. writing < nextKey
        BY <2>1 DEF PInv, Numbered, SP!SInv, SP!SenderTypeOK, Handlers
    <2>3. ~InQueue(writing)
        BY QueuedFacts DEF InQueue
    <2>4. ~InMap(writing)
        BY <2>1, LiveFacts DEF InMap
    <2>5. SP!SInv /\ NoHandler \notin Handlers
        BY Constants DEF PInv, SConstants
    <2>6. writing \in HandlersHeld /\ writing \notin HandlersHeld'
        BY <1>1, <1>2, <1>4, <2>1, <2>3, <2>4, <2>5, HeldIs, HeldIsNext
    <2>7. \A g \in Handlers \ {writing} : Same(g)
        BY <1>1, <1>2, <1>4, <2>5, HeldIs, HeldIsNext DEF Same
    <2>8. Loses(writing)
        BY <1>1, <2>1, <2>2, <2>6, <2>7 DEF Loses
    <2>9. QED
        BY <1>2, <1>3, <1>6, <2>1, <2>8
<1>7. QED
    BY <1>5, <1>6

(* The request is written and handed to the receiver, which never refuses  *)
(* it.                                                                     *)
LEMMA WriteDoneStep ==
    ASSUME PInv, nextKey' = nextKey, WriteDone
    PROVE  /\ RP!IInv' /\ SP!SInv' /\ Still
           /\ spc = "sending" /\ writing # NoHandler /\ phase = "open" /\ rpc = "out"
           /\ writing' = NoHandler /\ writer' = NoWriter
           /\ UNCHANGED <<queue, nextSeq, sphase, spc, sstatus, fate>>
           /\ UNCHANGED <<phase, connectionId, rpc, status>>
           /\ sent' = Append(sent, [handler |-> writing, seq |-> writing, id |-> DriveId])
           /\ map' = RP!Put(map, writing, [handler |-> writing, key |-> writing])
<1>1. spc = "sending" /\ writer # NoWriter
    BY DEF WriteDone, S!WriteDone
<1>2. writing # NoHandler
    BY <1>1 DEF PInv, SP!SInv, SP!PositionsKnow
<1>3. /\ writing \in Handlers /\ writer.seq = writing /\ writer.key = writing
      /\ writer.id = DriveId /\ fate[writing] = << >>
      /\ writing \notin DOMAIN map /\ writing \notin DOMAIN seqOfKey
      /\ \A s \in DOMAIN map : map[s].handler # writing
    BY <1>1, <1>2, WritingFacts
<1>4. S!WriteDone(TRUE) /\ R!Enqueue(writing, writing, writing)
    BY <1>1, <1>3 DEF WriteDone, R!Accepts
<1>5. /\ writing' = NoHandler /\ writer' = NoWriter
      /\ UNCHANGED <<queue, nextSeq, sphase, spc, sstatus, fate>>
      /\ sent' = Append(sent, [handler |-> writing, seq |-> writing, id |-> DriveId])
    BY <1>3, <1>4 DEF S!WriteDone
<1>6. /\ map' = RP!Put(map, writing, [handler |-> writing, key |-> writing])
      /\ phase = "open" /\ rpc = "out"
      /\ UNCHANGED <<phase, connectionId, rpc, status, unvisited>>
    BY <1>4 DEF R!Enqueue, R!Put, RP!Put, R!Idle
<1>7. RP!IInv'
    <2>1. RP!NewHandler(writing)
        BY <1>3 DEF RP!NewHandler, RP!Waiting
    <2>2. writing \in Seqs /\ writing \in Keys
        BY <1>3 DEF Seqs, Keys
    <2>3. QED
        BY <1>3, <1>4, <2>1, <2>2, EnqueueReceiving DEF PInv
<1>8. appFate' = appFate
    BY <1>5 DEF appFate
<1>9. SP!SInv'
    <2>1. SP!WriteDone(TRUE)
        BY <1>4, <1>8 DEF S!WriteDone, SP!WriteDone
    <2>2. QED
        BY <2>1, SP!WriteDoneKeeps, Constants DEF SConstants, PInv
<1>10. Still
    <2>1. RP!Live = DOMAIN map /\ RP!Live' = DOMAIN map'
        BY <1>6 DEF RP!Live, RP!Failing
    <2>2. /\ DOMAIN map' = DOMAIN map \cup {writing}
          /\ map'[writing] = [handler |-> writing, key |-> writing]
          /\ \A s \in DOMAIN map : map'[s] = map[s]
        BY <1>3, <1>6 DEF RP!Put
    <2>3. \A h \in Handlers : InMap(h)' <=> InMap(h) \/ h = writing
        BY <2>1, <2>2 DEF InMap
    <2>4. \A h \in Handlers : h # writing'
        BY <1>5, Constants DEF SConstants
    <2>5. \A h : InQueue(h)' <=> InQueue(h)
        BY <1>5 DEF InQueue
    <2>6. QED
        BY <1>8, <1>9, <2>3, <2>4, <2>5, StillBecause DEF PInv
<1>11. QED
    BY <1>1, <1>2, <1>5, <1>6, <1>7, <1>9, <1>10

(* Nothing held, sent or awaited has a number that is not given out yet.   *)
LEMMA NextIsNew ==
    ASSUME PInv, nextKey \in Handlers
    PROVE  /\ fate[nextKey] = << >> /\ nextKey # writing /\ ~InQueue(nextKey)
           /\ \A s \in DOMAIN map : map[s].handler # nextKey
           /\ \A i \in 1 .. Len(sent) : sent[i].handler # nextKey
<1>1. fate[nextKey] = << >>
    BY DEF PInv, Ledger, Handlers
<1>2. nextSeq \in Nat /\ nextKey \in Nat /\ nextSeq <= nextKey
    BY DEF PInv, Numbered, SP!SInv, SP!SenderTypeOK, Handlers
<1>3. nextKey # writing
    BY <1>2, WritingFacts, Constants DEF SConstants, Handlers
<1>4. ~InQueue(nextKey)
    BY <1>2, QueuedFacts DEF InQueue, Handlers
<1>5. \A s \in DOMAIN map : map[s].handler # nextKey
    BY <1>2, LiveFacts, MarkersOK DEF Handlers
<1>6. \A i \in 1 .. Len(sent) : sent[i].handler # nextKey
    <2>1. \A i \in 1 .. Len(sent) : sent[i].seq \in Nat
        BY SP!NumbersAreNumbers, Constants DEF SConstants, PInv, SP!SInv
    <2>2. QED
        BY <1>2, <2>1 DEF PInv, Numbered, SP!SInv, SP!NumbersGrow
<1>7. QED
    BY <1>1, <1>3, <1>4, <1>5, <1>6

(* Submit on a connection that works.                                      *)
LEMMA SubmitStep ==
    ASSUME PInv, UNCHANGED rcvVars, nextKey \in Handlers, nextKey' = nextKey + 1,
           nextKey = nextSeq, connectionId = DriveId,
           S!Enqueue(nextKey, nextKey, connectionId)
    PROVE  /\ RP!IInv' /\ SP!SInv' /\ Admits
           /\ queue' = Append(queue, [handler |-> nextKey, key |-> nextKey,
                                      seq |-> nextKey, id |-> DriveId])
<1> DEFINE r == [handler |-> nextKey, key |-> nextKey, seq |-> nextKey, id |-> DriveId]
<1>1. /\ queue' = Append(queue, r)
      /\ UNCHANGED <<sphase, writer, writing, sent, spc, sstatus, fate>>
    BY DEF S!Enqueue
<1>2. appFate' = appFate /\ RP!IInv'
    BY <1>1, NotFated DEF appFate, PInv
<1>3. SP!SInv'
    <2>1. SP!NewHandler(nextKey)
        <3>1. appFate[nextKey] = << >>
            BY NextIsNew DEF appFate
        <3>2. nextKey \notin SP!Held
            BY NextIsNew, QueuedFacts DEF SP!Held, SP!HandlersQueued, SP!ToSet, InQueue
        <3>3. DOMAIN sent = 1 .. Len(sent)
            BY LenProperties DEF PInv, SP!SInv, SP!SenderTypeOK
        <3>4. QED
            BY <3>1, <3>2, <3>3, NextIsNew DEF SP!NewHandler, SP!Written, SP!ToSet
    <2>2. nextKey \in Keys /\ connectionId \in Ids
        BY DEF Keys, Ids, ConnectionIds
    <2>3. QED
        BY <2>1, <2>2, EnqueueSending DEF PInv
<1>4. r.handler = nextKey /\ r \in SP!Request
    BY ServiceConstantsOK DEF SP!Request, Keys, Ids, ConnectionIds, Handlers
<1> HIDE DEF r
<1>5. /\ Len(queue) \in Nat /\ Len(queue') = Len(queue) + 1
      /\ queue'[Len(queue) + 1] = r /\ \A j \in 1 .. Len(queue) : queue'[j] = queue[j]
    BY <1>1, <1>4, QueuedFacts, SP!AppendFacts, Constants DEF SConstants
<1>6. \A h : InQueue(h)' <=> InQueue(h) \/ h = nextKey
    BY <1>4, <1>5 DEF InQueue
<1>7. \A h : InMap(h)' <=> InMap(h)
    BY DEF InMap, RP!Live, RP!Failing, rcvVars
<1>8. SP!SInv
    BY DEF PInv
<1>9. nextKey \in HandlersHeld' /\ \A g \in Handlers \ {nextKey} : Same(g)
    BY <1>1, <1>3, <1>6, <1>7, <1>8, HeldIs, HeldIsNext DEF Same
<1>10. Admits
    BY <1>1, <1>9, NextIsNew DEF Admits
<1>11. QED
    BY <1>1, <1>2, <1>3, <1>10 DEF r

(* Submit on a connection that has failed.                                 *)
LEMMA RejectStep ==
    ASSUME PInv, UNCHANGED <<rcvVars, sndVars>>, nextKey \in Handlers,
           nextKey' = nextKey + 1, fate' = R!Record(nextKey, "failed")
    PROVE  RP!IInv' /\ SP!SInv' /\ Rejects
<1>1. /\ DOMAIN fate = RP!AllHandlers /\ Handlers \subseteq RP!AllHandlers
      /\ fate' = RP!Record(nextKey, "failed") /\ fate' = S!Fated(nextKey, "failed")
    BY DEF PInv, RP!IInv, RP!TypeOK, RP!AllHandlers, R!Record, RP!Record, S!Fated
<1>2. RP!IInv'
    BY <1>1, NextIsNew, FatedElsewhere DEF PInv, RP!Fates
<1>3. SP!SInv'
    BY <1>1, NextIsNew, AppFated, FatedByReceiver DEF PInv, SP!SendFates
<1>4. /\ fate'[nextKey] = <<"failed">>
      /\ \A g \in RP!AllHandlers \ {nextKey} : fate'[g] = fate[g]
    BY <1>1, NextIsNew, OneFate
<1>5. \A h : (InQueue(h)' <=> InQueue(h)) /\ (InMap(h)' <=> InMap(h)) /\ writing' = writing
    BY DEF InQueue, InMap, RP!Live, RP!Failing, rcvVars, sndVars
<1>6. SP!SInv
    BY DEF PInv
<1>7. \A g \in Handlers \ {nextKey} : Same(g)
    BY <1>1, <1>3, <1>4, <1>5, <1>6, HeldIs, HeldIsNext DEF Same
<1>8. QED
    BY <1>2, <1>3, <1>4, <1>7 DEF Rejects

-----------------------------------------------------------------------------
(* What a step is for the board of requests.                               *)

SameLink ==
    /\ failed' = failed
    /\ runpc' = runpc \/ {runpc, runpc'} \subseteq {"out", "send", "receive"}

Breaks == ~failed /\ failed' /\ {runpc, runpc'} \subseteq {"out", "send", "receive"}

Closes == runpc = "out" /\ runpc' = "closing"

Ends   == runpc = "closing" /\ runpc' = "closed" /\ phase = "closed" /\ rpc = "out"

Usable == runpc \in {"out", "send", "receive"}

Effect ==
    \/ Still /\ (SameLink \/ Breaks \/ Closes \/ Ends)
    \/ SameLink /\ ~failed /\ Usable /\ \E h \in Handlers : Settles(h, "succeeded")
    \/ SameLink /\ runpc # "closed" /\ \E h \in Handlers : Settles(h, "failed")
    \/ SameLink /\ Usable /\ \E h \in Handlers : Settles(h, "removed")
    \/ SameLink /\ ~failed /\ Usable /\ Admits
    \/ SameLink /\ failed /\ Usable /\ Rejects
    \/ SameLink /\ runpc = "closing" /\ sphase = "closing" /\ sphase' = "closed"
         /\ \E h \in Handlers : Loses(h)

(* Nobody succeeds in most steps.                                          *)
NoSuccess ==
    \/ Still \/ Admits \/ Rejects
    \/ \E h \in Handlers : Loses(h)
    \/ \E h \in Handlers, what \in {"failed", "removed"} : Settles(h, what)

(* A success the drive has answered for.                                   *)
Backed == \E h \in Handlers : /\ Settles(h, "succeeded") /\ h \in DOMAIN answers
                              /\ answers[h] = "succeeded"

LEMMA AbandonedIs ==
    /\ nextKey \in 0 .. MaxSubmits =>
          Abandoned = {h \in Handlers : h < nextKey /\ fate[h] = << >> /\ h \notin HandlersHeld}
    /\ nextKey' \in 0 .. MaxSubmits =>
          Abandoned' = {h \in Handlers : h < nextKey' /\ fate'[h] = << >> /\ h \notin HandlersHeld'}
<1> USE ServiceConstantsOK DEF Abandoned, Pending, Submitted, Places, HandlersHeld, Handlers
<1>1. \A h : Places(h) = {} <=> h \notin HandlersHeld
    OBVIOUS
<1>2. \A h : Places(h)' = {} <=> h \notin HandlersHeld'
    OBVIOUS
<1>3. nextKey \in 0 .. MaxSubmits =>
          Abandoned = {h \in Handlers : h < nextKey /\ fate[h] = << >> /\ h \notin HandlersHeld}
    <2> HIDE DEF Places, HandlersHeld
    <2>1. QED
        BY <1>1
<1>4. nextKey' \in 0 .. MaxSubmits =>
          Abandoned' = {h \in Handlers : h < nextKey' /\ fate'[h] = << >> /\ h \notin HandlersHeld'}
    <2> HIDE DEF Places, HandlersHeld
    <2>1. QED
        BY <1>2
<1>5. QED
    BY <1>3, <1>4

(* The books stay in order whatever the step does.                         *)
LEMMA LedgerKept ==
    ASSUME PInv, Effect, nextKey' \in 0 .. MaxSubmits,
           sphase = "closed" => sphase' = "closed"
    PROVE  Ledger'
<1> DEFINE A == {h \in Handlers : h < nextKey /\ fate[h] = << >> /\ h \notin HandlersHeld}
           B == {h \in Handlers : h < nextKey' /\ fate'[h] = << >> /\ h \notin HandlersHeld'}
<1>1. /\ nextKey \in Nat /\ Abandoned = A /\ Abandoned' = B
    BY AbandonedIs DEF PInv, Numbered
<1>2. /\ \A h \in Handlers : h >= nextKey => fate[h] = << >>
      /\ \A h \in A : sphase = "closed"
      /\ \A g, h \in A : g = h
    BY <1>1 DEF PInv, Ledger
<1>3. Handlers \subseteq Nat
    BY DEF Handlers
<1>4. CASE Still
    <2>1. \A h \in Handlers : h >= nextKey' => fate'[h] = << >>
        BY <1>2, <1>4 DEF Still, Same
    <2>2. B \subseteq A
        BY <1>4 DEF Still, Same
    <2>3. QED
        BY <1>1, <1>2, <2>1, <2>2 DEF Ledger
<1>5. ASSUME NEW h \in Handlers, NEW what, Settles(h, what) PROVE Ledger'
    <2>1. <<what>> # << >>
        OBVIOUS
    <2>2. \A g \in Handlers : g >= nextKey' => fate'[g] = << >>
        BY <1>1, <1>2, <1>3, <1>5 DEF Settles, Same
    <2>3. B \subseteq A
        BY <1>5, <2>1 DEF Settles, Same
    <2>4. QED
        BY <1>1, <1>2, <2>2, <2>3 DEF Ledger
<1>6. CASE Admits \/ Rejects
    <2>1. /\ nextKey' = nextKey + 1 /\ nextKey \in Handlers
          /\ nextKey \notin B /\ \A g \in Handlers \ {nextKey} : Same(g)
        BY <1>6 DEF Admits, Rejects
    <2>2. ASSUME NEW g \in Handlers, g >= nextKey' PROVE fate'[g] = << >>
        <3>1. g >= nextKey /\ g # nextKey
            BY <1>1, <1>3, <2>1, <2>2
        <3>2. QED
            BY <1>2, <2>1, <3>1 DEF Same
    <2>3. ASSUME NEW g \in B PROVE g \in A
        <3>1. g \in Handlers /\ g # nextKey /\ Same(g)
            BY <2>1
        <3>2. g < nextKey
            BY <1>1, <1>3, <2>1, <3>1
        <3>3. QED
            BY <3>1, <3>2 DEF Same
    <2>4. QED
        BY <1>1, <1>2, <2>2, <2>3 DEF Ledger
<1>7. ASSUME NEW h \in Handlers, Loses(h), sphase = "closing", sphase' = "closed" PROVE Ledger'
    <2>1. A = {}
        BY <1>2, <1>7
    <2>2. \A g \in Handlers : g >= nextKey' => fate'[g] = << >>
        BY <1>1, <1>2, <1>3, <1>7 DEF Loses, Same
    <2>3. B \subseteq {h}
        BY <1>7, <2>1 DEF Loses, Same
    <2>4. QED
        BY <1>1, <1>7, <2>2, <2>3 DEF Ledger
<1>8. QED
    BY <1>4, <1>5, <1>6, <1>7 DEF Effect

LEMMA SubmittedAreHandlers ==
    ASSUME NEW n \in 0 .. MaxSubmits, NEW h \in 0 .. n - 1
    PROVE  h \in Handlers /\ h < n
BY ServiceConstantsOK DEF Handlers

(* What the client knows of the drive stays true.                          *)
LEMMA DriveKept ==
    ASSUME PInv, nextKey' \in 0 .. MaxSubmits, NoSuccess \/ Backed, UNCHANGED answers,
           inbox' = inbox \/ (inbox # << >> /\ inbox' = Tail(inbox)),
           phase' \in {"open", "closed"} => connectionId' = DriveId,
           fate'[HandshakeHandler] = <<"succeeded">> => connectionId' = DriveId,
           SentSeqs \subseteq SentSeqs'
    PROVE  DriveKnown'
<1>1. /\ inbox \in Seq(RP!Packets \cup {Garbage}) /\ nextKey \in Nat
      /\ \A i \in 1 .. Len(inbox) : inbox[i] # Garbage => Believable(inbox[i])
    BY DEF PInv, DriveKnown, Believed, Numbered
<1>2. \A p : Believable(p)' <=> Believable(p)
    BY DEF Believable, RP!Packets, RP!AllSeqs, RP!HandshakeSeq
<1>3. /\ inbox' \in Seq(RP!Packets \cup {Garbage})
      /\ \A i \in 1 .. Len(inbox') : inbox'[i] # Garbage => Believable(inbox'[i])
    <2>1. CASE inbox' = inbox
        BY <1>1, <2>1
    <2>2. CASE inbox # << >> /\ inbox' = Tail(inbox)
        <3>1. /\ Tail(inbox) \in Seq(RP!Packets \cup {Garbage})
              /\ \A j \in 1 .. Len(Tail(inbox)) :
                    j + 1 \in 1 .. Len(inbox) /\ Tail(inbox)[j] = inbox[j + 1]
            BY <1>1, <2>2, SP!TailFacts, Constants DEF SConstants
        <3>2. QED
            BY <1>1, <2>2, <3>1
    <2>3. QED
        BY <2>1, <2>2
<1>4. AnswersMatch'
    <2>1. ASSUME NEW h \in Handlers, h < nextKey', fate'[h] = <<"succeeded">>
          PROVE  h \in DOMAIN answers /\ answers[h] = "succeeded"
        <3>1. h < nextKey /\ fate[h] = <<"succeeded">> => h \in DOMAIN answers /\ answers[h] = "succeeded"
            BY <1>1 DEF PInv, DriveKnown, AnswersMatch, Submitted, Handlers
        <3>2. /\ <<"failed">> # <<"succeeded">> /\ <<"removed">> # <<"succeeded">>
              /\ << >> # <<"succeeded">>
            OBVIOUS
        <3>3. CASE NoSuccess
            <4>1. fate[h] = <<"succeeded">>
                BY <2>1, <3>2, <3>3 DEF NoSuccess, Still, Admits, Rejects, Loses, Settles, Same
            <4>2. ~(h >= nextKey)
                BY <3>2, <4>1 DEF PInv, Ledger
            <4>3. h < nextKey
                BY <1>1, <4>2 DEF Handlers
            <4>4. QED
                BY <3>1, <4>1, <4>3
        <3>4. CASE Backed
            <4>1. PICK g \in Handlers : /\ Settles(g, "succeeded") /\ g \in DOMAIN answers
                                       /\ answers[g] = "succeeded"
                BY <3>4 DEF Backed
            <4>2. g # h => fate[h] = <<"succeeded">> /\ h < nextKey
                BY <2>1, <4>1 DEF Settles, Same
            <4>3. QED
                BY <3>1, <4>1, <4>2
        <3>5. QED
            BY <3>3, <3>4
    <2>2. \A h \in 0 .. nextKey' - 1 : h \in Handlers /\ h < nextKey'
        BY SubmittedAreHandlers
    <2>3. ASSUME NEW h \in 0 .. nextKey' - 1, fate'[h] = <<"succeeded">>
          PROVE  h \in DOMAIN answers' /\ answers'[h] = "succeeded"
        BY <2>1, <2>2, <2>3
    <2>4. QED
        BY <2>3 DEF AnswersMatch, Submitted
<1>5. DOMAIN answers' \subseteq SentSeqs'
    BY DEF PInv, DriveKnown
<1>6. QED
    BY <1>2, <1>3, <1>4, <1>5 DEF DriveKnown, Believed

(* Requests keep their numbers as long as none is added.                   *)
LEMMA NumberedKept ==
    ASSUME PInv, UNCHANGED <<nextKey, nextSeq, sent>>, failed => failed',
           phase' \in {"handshake", "threw"} => phase \in {"handshake", "threw"},
           queue' = queue \/ Shrinks,
           \/ writing' = NoHandler /\ writer' \in {writer, NoWriter}
           \/ UNCHANGED <<writing, writer>>,
           \A s \in DOMAIN map' : s \in DOMAIN map /\ map'[s] = map[s]
    PROVE  Numbered'
<1>1. Numbered
    BY DEF PInv
<1>2. \A i \in 1 .. Len(queue') :
        /\ queue'[i].handler = queue'[i].seq /\ queue'[i].key = queue'[i].seq
        /\ queue'[i].id = DriveId
    BY <1>1, SMTT(30) DEF Numbered, Shrinks
<1>3. \A s \in DOMAIN map' :
        \/ s = -1 /\ map'[s].handler = HandshakeHandler /\ map'[s].key = -1
        \/ s \in SentSeqs' /\ map'[s].handler = s /\ map'[s].key = s
    BY <1>1 DEF Numbered, SentSeqs
<1>4. QED
    BY <1>1, <1>2, <1>3 DEF Numbered

(* A step that adds no request and no answer keeps the invariant when the  *)
(* thread's positions stay right.                                          *)
LEMMA StepKept ==
    ASSUME PInv, RP!IInv', SP!SInv', Control', Effect, NoSuccess \/ Backed,
           UNCHANGED <<nextKey, nextSeq, sent, answers>>, failed => failed',
           phase' \in {"handshake", "threw"} => phase \in {"handshake", "threw"},
           phase' \in {"open", "closed"} =>
              phase \in {"open", "closed"} \/ connectionId' = DriveId,
           connectionId' \in {connectionId, DriveId},
           fate'[HandshakeHandler] = <<"succeeded">> =>
              \/ fate[HandshakeHandler] = <<"succeeded">>
              \/ phase \in {"open", "closed"},
           queue' = queue \/ Shrinks,
           \/ writing' = NoHandler /\ writer' \in {writer, NoWriter}
           \/ UNCHANGED <<writing, writer>>,
           \A s \in DOMAIN map' : s \in DOMAIN map /\ map'[s] = map[s],
           inbox' = inbox \/ (inbox # << >> /\ inbox' = Tail(inbox)),
           sphase = "closed" => sphase' = "closed"
    PROVE  PInv'
<1>1. Numbered'
    BY NumberedKept
<1>2. nextKey' \in 0 .. MaxSubmits
    BY DEF PInv, Numbered
<1>3. Ledger'
    BY <1>2, LedgerKept
<1>4. /\ phase \in {"open", "closed"} => connectionId = DriveId
      /\ fate[HandshakeHandler] = <<"succeeded">> => connectionId = DriveId
    BY DEF PInv, DriveKnown
<1>5. SentSeqs' = SentSeqs
    BY DEF SentSeqs
<1>6. DriveKnown'
    BY <1>2, <1>4, <1>5, DriveKept
<1>7. QED
    BY <1>1, <1>3, <1>6 DEF PInv

-----------------------------------------------------------------------------
(* The steps of Run and of the destructor between the calls they make.     *)

LEMMA RunInv == PInv /\ Run => PInv' /\ Effect
<1> SUFFICES ASSUME PInv, Run PROVE PInv' /\ Effect
    OBVIOUS
<1> USE DEF Run, S!CallSend, Outside, rcvVars
<1>1. RP!IInv' /\ SP!SInv' /\ Still
    BY QuietSenderStep
<1>2. Control'
    BY DEF PInv, Control
<1>3. Effect /\ NoSuccess
    BY <1>1 DEF Effect, SameLink, NoSuccess
<1>4. QED
    BY <1>1, <1>2, <1>3, StepKept

LEMMA RunAfterSendInv == PInv /\ RunAfterSend => PInv' /\ Effect
<1> SUFFICES ASSUME PInv, RunAfterSend PROVE PInv' /\ Effect
    OBVIOUS
<1> USE DEF RunAfterSend, CleanUp, rcvVars, sndVars, envVars
<1>1. CASE sstatus = "kError"
    <2>1. /\ UNCHANGED <<rcvVars, sndVars, fate, nextKey, envVars>>
          /\ failed' = TRUE /\ runpc = "send" /\ runpc' = "out" /\ spc = "out"
          /\ UNCHANGED <<wantRead, wantWrite>>
        BY <1>1
    <2>2. RP!IInv' /\ SP!SInv'
        BY <2>1, NotFated, NotSent DEF PInv, appFate
    <2>3. \A h : (InQueue(h)' <=> InQueue(h)) /\ (InMap(h)' <=> InMap(h)) /\ appFate' = appFate
        BY <2>1 DEF InQueue, InMap, RP!Live, RP!Failing, appFate
    <2>4. Still
        BY <2>1, <2>2, <2>3, StillBecause DEF PInv
    <2>5. Control'
        BY <2>1 DEF PInv, Control
    <2>6. ~failed
        BY <2>1 DEF PInv, Control
    <2>7. Effect /\ NoSuccess
        BY <2>1, <2>4, <2>6 DEF Effect, Breaks, NoSuccess
    <2>8. QED
        BY <2>1, <2>2, <2>5, <2>7, StepKept
<1>2. CASE sstatus # "kError"
    <2>1. /\ UNCHANGED <<sndVars, failed, nextKey, envVars>> /\ R!CallReceive
          /\ runpc = "send" /\ runpc' = "receive" /\ spc = "out"
          /\ UNCHANGED <<wantRead, wantWrite>>
        BY <1>2
    <2>2. RP!IInv' /\ SP!SInv' /\ Still
        BY <2>1, QuietReceiverStep
    <2>3. Control'
        BY <2>1 DEF PInv, Control, R!CallReceive, R!Idle
    <2>4. Effect /\ NoSuccess
        BY <2>1, <2>2 DEF Effect, SameLink, NoSuccess
    <2>5. QED
        BY <2>1, <2>2, <2>3, <2>4, StepKept DEF R!CallReceive
<1>3. QED
    BY <1>1, <1>2

LEMMA RunAfterReceiveInv == PInv /\ RunAfterReceive => PInv' /\ Effect
<1> SUFFICES ASSUME PInv, RunAfterReceive PROVE PInv' /\ Effect
    OBVIOUS
<1> USE DEF rcvVars, sndVars, envVars
<1>1. /\ UNCHANGED <<rcvVars, sndVars, fate, nextKey, envVars>>
      /\ runpc = "receive" /\ runpc' = "out" /\ rpc = "out"
      /\ failed' = TRUE \/ failed' = failed
      /\ wantRead' \in {wantRead, TRUE, FALSE} /\ wantWrite' \in {wantWrite, TRUE, FALSE}
    BY DEF RunAfterReceive, CleanUp
<1>2. RP!IInv' /\ SP!SInv'
    BY <1>1, NotFated, NotSent DEF PInv, appFate
<1>3. \A h : (InQueue(h)' <=> InQueue(h)) /\ (InMap(h)' <=> InMap(h)) /\ appFate' = appFate
    BY <1>1 DEF InQueue, InMap, RP!Live, RP!Failing, appFate
<1>4. Still
    BY <1>1, <1>2, <1>3, StillBecause DEF PInv
<1>5. Control'
    BY <1>1 DEF PInv, Control
<1>6. ~failed
    BY <1>1 DEF PInv, Control
<1>7. Effect /\ NoSuccess
    BY <1>1, <1>4, <1>6 DEF Effect, Breaks, SameLink, NoSuccess
<1>8. QED
    BY <1>1, <1>2, <1>5, <1>6, <1>7, StepKept

LEMMA CloseInv == PInv /\ Close => PInv' /\ Effect
<1> SUFFICES ASSUME PInv, Close PROVE PInv' /\ Effect
    OBVIOUS
<1> USE DEF Close, S!DestroySender, CleanUp, Outside, rcvVars, envVars
<1>1. RP!IInv' /\ SP!SInv' /\ Still
    BY QuietSenderStep
<1>2. Control'
    BY DEF PInv, Control
<1>3. Effect /\ NoSuccess
    BY <1>1 DEF Effect, Closes, NoSuccess
<1>4. QED
    BY <1>1, <1>2, <1>3, StepKept

LEMMA ReleasedInv == PInv /\ ReceiverReleased => PInv' /\ Effect
<1> SUFFICES ASSUME PInv, ReceiverReleased PROVE PInv' /\ Effect
    OBVIOUS
<1>1. RP!IInv' /\ SP!SInv' /\ Still
    BY FailingStep DEF ReceiverReleased, svcVars
<1>2. /\ R!Destroy /\ runpc = "closing" /\ sphase = "closed"
      /\ UNCHANGED <<sndVars, svcVars, envVars>>
    BY DEF ReceiverReleased
<1>3. /\ phase = "open" /\ phase' = "closed" /\ rpc' = "failing"
      /\ UNCHANGED <<map, connectionId>>
      /\ fate'[HandshakeHandler] = fate[HandshakeHandler]
    <2>1. handler = NoHandler
        BY <1>2 DEF PInv, RP!IInv, RP!PositionsAgree, R!Destroy, R!Idle
    <2>2. QED
        BY <1>2, <2>1 DEF R!Destroy, R!CallAllErrorHandlers
<1>4. Control'
    BY <1>2, <1>3 DEF PInv, Control, sndVars, svcVars, envVars
<1>5. Effect /\ NoSuccess
    BY <1>1, <1>2 DEF Effect, SameLink, NoSuccess, svcVars
<1>6. QED
    BY <1>1, <1>2, <1>3, <1>4, <1>5, StepKept DEF sndVars, svcVars, envVars

LEMMA ClosedInv == PInv /\ Closed => PInv' /\ Effect
<1> SUFFICES ASSUME PInv, Closed PROVE PInv' /\ Effect
    OBVIOUS
<1> USE DEF Closed, rcvVars, sndVars, envVars
<1>1. RP!IInv' /\ SP!SInv'
    BY NotFated, NotSent DEF PInv, appFate
<1>2. \A h : (InQueue(h)' <=> InQueue(h)) /\ (InMap(h)' <=> InMap(h)) /\ appFate' = appFate
    BY DEF InQueue, InMap, RP!Live, RP!Failing, appFate
<1>3. Still
    BY <1>1, <1>2, StillBecause DEF PInv
<1>4. Control'
    BY DEF PInv, Control
<1>5. Effect /\ NoSuccess
    BY <1>3 DEF Effect, Ends, NoSuccess
<1>6. QED
    BY <1>1, <1>4, <1>5, StepKept

-----------------------------------------------------------------------------
(* The sender's steps.                                                     *)

(* Send runs only on a connection whose handshake is over.                 *)
LEMMA SendingWhen ==
    ASSUME PInv, spc # "out"
    PROVE  /\ phase \in {"open", "closed"} /\ runpc \in {"send", "closing"}
           /\ runpc = "send" => sphase = "open" /\ ~failed
           /\ runpc = "closing" => sphase = "closing" /\ spc \in {"draining", "drained"}
<1>1. phase \in {"handshake", "open", "threw", "closed"} /\ SP!SenderTypeOK
    BY DEF PInv, RP!IInv, RP!TypeOK, RP!Phases, SP!SInv
<1>2. sphase \in {"open", "closing", "closed"} /\ (sphase = "closed" => spc = "out")
    BY <1>1 DEF SP!SenderTypeOK, PInv, SP!SInv, SP!PositionsKnow
<1>3. QED
    BY <1>1, <1>2 DEF PInv, Control

(* A step of the sender that neither sends nor begins to.                  *)
LEMMA SendingKept ==
    ASSUME PInv, NotReceiving, RP!IInv', SP!SInv', Control', spc # "out",
           Effect, NoSuccess, UNCHANGED <<nextSeq, sent>>,
           fate'[HandshakeHandler] = <<"succeeded">> =>
              phase \in {"open", "closed"},
           queue' = queue \/ Shrinks,
           \/ writing' = NoHandler /\ writer' \in {writer, NoWriter}
           \/ UNCHANGED <<writing, writer>>
    PROVE  PInv'
<1>1. UNCHANGED <<nextKey, answers, failed, phase, connectionId, map, inbox>>
    BY DEF NotReceiving, rcvVars, svcVars, envVars
<1>2. sphase # "closed"
    BY DEF PInv, SP!SInv, SP!PositionsKnow
<1>3. QED
    BY <1>1, <1>2, StepKept

LEMMA QuietSendInv ==
    ASSUME PInv, NotReceiving,
           S!SendIdle \/ S!WriteWaits \/ S!FailedReturns \/ S!DrainedReturns \/ S!DrainEnds
    PROVE  PInv' /\ Effect
<1>1. UNCHANGED <<rcvVars, svcVars, envVars, nextKey, failed, runpc>>
    BY DEF NotReceiving, svcVars
<1>2. RP!IInv' /\ SP!SInv' /\ Still
    BY <1>1, QuietSenderStep
<1>3. /\ spc # "out" /\ UNCHANGED <<sphase, queue, nextSeq, writer, sent, fate>>
      /\ writing' \in {writing, NoHandler}
      /\ \/ spc' = "out" /\ (sphase = "closing" => spc = "sending")
         \/ spc' = "draining"
    BY DEF S!SendIdle, S!WriteWaits, S!FailedReturns, S!DrainedReturns,
        S!DrainEnds, S!SendReturns
<1>4. Control'
    BY <1>1, <1>3, SendingWhen DEF PInv, Control, rcvVars, svcVars, envVars
<1>5. Effect /\ NoSuccess
    BY <1>1, <1>2 DEF Effect, SameLink, NoSuccess
<1>6. QED
    BY <1>1, <1>2, <1>3, <1>4, <1>5, SendingKept, SendingWhen

LEMMA TakeInv ==
    ASSUME PInv, NotReceiving, S!TakeRequest
    PROVE  PInv' /\ Effect
<1>1. /\ UNCHANGED <<rcvVars, svcVars, envVars, nextKey, failed, runpc, fate>>
      /\ UNCHANGED <<sphase, nextSeq, sent, spc>> /\ spc # "out"
    BY DEF NotReceiving, svcVars, S!TakeRequest
<1>2. /\ RP!IInv' /\ SP!SInv' /\ Still
      /\ 1 \in 1 .. Len(queue) /\ writing' = queue[1].handler
      /\ writer' = [seq |-> queue[1].seq, key |-> queue[1].key, id |-> queue[1].id]
      /\ \A j \in 1 .. Len(queue') : j + 1 \in 1 .. Len(queue) /\ queue'[j] = queue[j + 1]
    BY <1>1, TakeStep
<1>3. Control'
    BY <1>1, SendingWhen DEF PInv, Control, rcvVars, svcVars, envVars
<1>4. Effect /\ NoSuccess
    BY <1>1, <1>2 DEF Effect, SameLink, NoSuccess
<1>5. Numbered'
    <2>1. /\ queue[1].handler = queue[1].seq /\ queue[1].key = queue[1].seq
          /\ queue[1].id = DriveId
        BY <1>2 DEF PInv, Numbered
    <2>2. /\ writer'.seq = queue[1].seq /\ writer'.key = queue[1].key /\ writer'.id = queue[1].id
        BY <1>2
    <2>3. writing' # NoHandler => writer' # NoWriter
        <3>1. writer' \in [seq : Nat, key : Keys, id : Ids]
            BY <1>2, QueuedFacts DEF SP!Request
        <3>2. QED
            BY <3>1, MarkersOK
    <2>4. SentSeqs' = SentSeqs
        BY <1>1 DEF SentSeqs
    <2>5. \A i \in 1 .. Len(queue') :
            /\ queue'[i].handler = queue'[i].seq /\ queue'[i].key = queue'[i].seq
            /\ queue'[i].id = DriveId
        BY <1>2 DEF PInv, Numbered
    <2>6. QED
        BY <1>1, <1>2, <2>1, <2>2, <2>3, <2>4, <2>5
        DEF PInv, Numbered, rcvVars, svcVars
<1>6. Ledger'
    BY <1>1, <1>4, LedgerKept DEF PInv, Numbered, svcVars
<1>7. DriveKnown'
    BY <1>1, <1>4, DriveKept
    DEF PInv, Numbered, DriveKnown, SentSeqs, rcvVars, svcVars, envVars
<1>8. QED
    BY <1>2, <1>3, <1>4, <1>5, <1>6, <1>7 DEF PInv

LEMMA WriteFailsInv == PInv /\ WriteFails => PInv' /\ Effect
<1> SUFFICES ASSUME PInv, WriteFails PROVE PInv' /\ Effect
    OBVIOUS
<1>1. /\ NotReceiving /\ UNCHANGED <<rcvVars, svcVars, envVars, nextKey, failed, runpc>>
      /\ S!WriteFails /\ spc = "sending" /\ spc' = "failed"
      /\ UNCHANGED <<sphase, queue, nextSeq, writer, writing, sent>>
    BY DEF WriteFails, NotReceiving, svcVars, S!WriteFails
<1>2. RP!IInv' /\ SP!SInv' /\ writing \in Handlers /\ Settles(writing, "failed")
    BY <1>1, WriteFailsStep
<1>3. phase \in {"open", "closed"} /\ runpc = "send" /\ sphase = "open"
    BY <1>1, SendingWhen
<1>4. Control'
    BY <1>1, <1>3 DEF PInv, Control, rcvVars, svcVars, envVars
<1>5. Effect /\ NoSuccess
    BY <1>1, <1>2, <1>3 DEF Effect, SameLink, NoSuccess
<1>6. QED
    BY <1>1, <1>2, <1>3, <1>4, <1>5, SendingKept

LEMMA DrainInv ==
    ASSUME PInv, NotReceiving, S!DrainOne
    PROVE  PInv' /\ Effect
<1>1. /\ UNCHANGED <<rcvVars, svcVars, envVars, nextKey, failed, runpc>>
      /\ spc = "draining" /\ spc' = "drained"
      /\ UNCHANGED <<sphase, nextSeq, writer, writing, sent>>
    BY DEF NotReceiving, svcVars, S!DrainOne
<1>2. RP!IInv' /\ SP!SInv' /\ Shrinks /\ \E h \in Handlers : Settles(h, "failed")
    BY <1>1, DrainStep
<1>3. phase \in {"open", "closed"} /\ runpc \in {"send", "closing"}
      /\ (runpc = "closing" => sphase = "closing") /\ (runpc = "send" => sphase = "open")
    BY <1>1, SendingWhen
<1>4. Control'
    BY <1>1, <1>3 DEF PInv, Control, rcvVars, svcVars, envVars
<1>5. Effect /\ NoSuccess
    BY <1>1, <1>2, <1>3 DEF Effect, SameLink, NoSuccess
<1>6. QED
    BY <1>1, <1>2, <1>3, <1>4, <1>5, SendingKept

LEMMA MembersInv ==
    ASSUME PInv, NotReceiving, S!MembersDestroyed
    PROVE  PInv' /\ Effect
<1>1. /\ UNCHANGED <<rcvVars, svcVars, envVars, nextKey, failed, runpc, fate>>
      /\ sphase = "closing" /\ sphase' = "closed" /\ spc = "draining" /\ spc' = "out"
      /\ queue = << >> /\ writing' = NoHandler /\ writer' = NoWriter
      /\ UNCHANGED <<queue, nextSeq, sent>>
    BY DEF NotReceiving, svcVars, S!MembersDestroyed
<1>2. /\ RP!IInv' /\ SP!SInv'
      /\ IF writing = NoHandler THEN Still ELSE writing \in Handlers /\ Loses(writing)
    BY <1>1, MembersStep
<1>3. phase \in {"open", "closed"} /\ runpc = "closing" /\ failed
    BY <1>1, SendingWhen DEF PInv, Control
<1>4. Control'
    BY <1>1, <1>3 DEF PInv, Control, rcvVars, svcVars, envVars
<1>5. Effect /\ NoSuccess
    BY <1>1, <1>2, <1>3 DEF Effect, SameLink, NoSuccess
<1>6. QED
    BY <1>1, <1>2, <1>3, <1>4, <1>5, SendingKept

LEMMA SendStepInv == PInv /\ (SendStep \/ WriteWaits) => PInv' /\ Effect
BY QuietSendInv, TakeInv, DrainInv, MembersInv DEF SendStep, WriteWaits

LEMMA WriteDoneInv == PInv /\ WriteDone => PInv' /\ Effect
<1> SUFFICES ASSUME PInv, WriteDone PROVE PInv' /\ Effect
    OBVIOUS
<1>1. UNCHANGED <<svcVars, envVars, nextKey, failed, runpc>>
    BY DEF WriteDone, svcVars
<1>2. /\ RP!IInv' /\ SP!SInv' /\ Still
      /\ spc = "sending" /\ writing # NoHandler /\ phase = "open" /\ rpc = "out"
      /\ writing' = NoHandler /\ writer' = NoWriter
      /\ UNCHANGED <<queue, nextSeq, sphase, spc, sstatus, fate>>
      /\ UNCHANGED <<phase, connectionId, rpc, status>>
      /\ sent' = Append(sent, [handler |-> writing, seq |-> writing, id |-> DriveId])
      /\ map' = RP!Put(map, writing, [handler |-> writing, key |-> writing])
    BY <1>1, WriteDoneStep
<1>3. runpc = "send" /\ sphase = "open" /\ ~failed
    BY <1>2, SendingWhen
<1>4. Control'
    BY <1>1, <1>2, <1>3 DEF PInv, Control, svcVars, envVars
<1>5. Effect /\ NoSuccess
    BY <1>1, <1>2 DEF Effect, SameLink, NoSuccess
<1> DEFINE r == [handler |-> writing, seq |-> writing, id |-> DriveId]
<1>6. /\ Len(sent) \in Nat /\ Len(sent') = Len(sent) + 1
      /\ sent'[Len(sent) + 1] = r /\ \A j \in 1 .. Len(sent) : sent'[j] = sent[j]
    <2>1. sent \in Seq([handler : Handlers, seq : Nat, id : Ids])
        BY DEF PInv, SP!SInv, SP!SenderTypeOK
    <2>2. r \in [handler : Handlers, seq : Nat, id : Ids]
        BY <1>2, WritingFacts DEF Handlers, Ids, ConnectionIds
    <2> HIDE DEF r
    <2>3. sent' = Append(sent, r)
        BY <1>2 DEF r
    <2>4. QED
        BY <2>1, <2>2, <2>3, SP!AppendFacts, Constants DEF SConstants
<1>7. r.handler = writing /\ r.seq = writing /\ r.id = DriveId
    OBVIOUS
<1> HIDE DEF r
<1>8. SentSeqs' = SentSeqs \cup {writing}
    BY <1>6, <1>7 DEF SentSeqs
<1>9. Numbered'
    <2>1. \A i \in 1 .. Len(sent') : sent'[i].handler = sent'[i].seq /\ sent'[i].id = DriveId
        BY <1>6, <1>7 DEF PInv, Numbered
    <2>2. \A s \in DOMAIN map' :
            \/ s = writing /\ map'[s].handler = s /\ map'[s].key = s
            \/ s \in DOMAIN map /\ map'[s] = map[s]
        BY <1>2 DEF RP!Put
    <2>3. \A s \in DOMAIN map' :
            \/ s = -1 /\ map'[s].handler = HandshakeHandler /\ map'[s].key = -1
            \/ s \in SentSeqs' /\ map'[s].handler = s /\ map'[s].key = s
        BY <1>8, <2>2 DEF PInv, Numbered
    <2>4. QED
        BY <1>1, <1>2, <2>1, <2>3 DEF PInv, Numbered, svcVars
<1>10. Ledger'
    BY <1>1, <1>2, <1>5, LedgerKept DEF PInv, Numbered, svcVars
<1>11. DriveKnown'
    BY <1>1, <1>2, <1>5, <1>8, DriveKept DEF PInv, Numbered, DriveKnown, svcVars, envVars
<1>12. QED
    BY <1>2, <1>4, <1>5, <1>9, <1>10, <1>11 DEF PInv

-----------------------------------------------------------------------------
(* The application's calls.                                                *)

(* Who may call has a connection of which the drive is known.              *)
LEMMA CallingWhen ==
    ASSUME PInv, MayCall
    PROVE  Usable /\ phase = "open" /\ connectionId = DriveId
<1>1. phase \in {"handshake", "open", "threw", "closed"}
    BY DEF PInv, RP!IInv, RP!TypeOK, RP!Phases
<1>2. Usable /\ phase = "open"
    BY <1>1 DEF PInv, Control, MayCall, Outside, Usable
<1>3. QED
    BY <1>2 DEF PInv, DriveKnown

LEMMA SubmitInv == PInv /\ Submit => PInv' /\ Effect
<1> SUFFICES ASSUME PInv, Submit PROVE PInv' /\ Effect
    OBVIOUS
<1>1. /\ MayCall /\ nextKey < MaxSubmits /\ nextKey' = nextKey + 1
      /\ UNCHANGED <<rcvVars, failed, runpc, wantRead, wantWrite, socket, inbox,
                     answers, faults>>
      /\ fresh' \in {fresh, TRUE, FALSE}
    BY DEF Submit
<1>2. Usable /\ phase = "open" /\ connectionId = DriveId
    BY <1>1, CallingWhen
<1>3. nextKey \in Nat /\ nextKey \in Handlers /\ nextKey' \in 0 .. MaxSubmits
    BY <1>1, ServiceConstantsOK DEF PInv, Numbered, Handlers
<1>4. CASE failed
    <2>1. UNCHANGED <<sndVars, fresh>> /\ fate' = R!Record(nextKey, "failed")
        BY <1>4 DEF Submit
    <2>2. RP!IInv' /\ SP!SInv' /\ Rejects
        BY <1>1, <1>3, <2>1, RejectStep
    <2>3. Control'
        BY <1>1, <2>1 DEF PInv, Control, rcvVars, sndVars
    <2>4. Effect /\ NoSuccess
        BY <1>1, <1>2, <1>4, <2>2 DEF Effect, SameLink, NoSuccess
    <2>5. UNCHANGED <<queue, nextSeq, writer, writing, sent, sphase, map, phase, connectionId>>
        BY <1>1, <2>1 DEF rcvVars, sndVars
    <2>6. SentSeqs' = SentSeqs
        BY <2>5 DEF SentSeqs
    <2>7. nextSeq <= nextKey'
        BY <1>3, <1>1 DEF PInv, Numbered, SP!SInv, SP!SenderTypeOK
    <2>8. Numbered'
        BY <1>1, <1>2, <1>3, <1>4, <2>5, <2>6, <2>7 DEF PInv, Numbered
    <2>9. Ledger'
        BY <1>3, <2>4, <2>5, LedgerKept
    <2>10. DriveKnown'
        BY <1>1, <1>2, <1>3, <2>4, <2>5, <2>6, DriveKept
    <2>11. QED
        BY <2>2, <2>3, <2>4, <2>8, <2>9, <2>10 DEF PInv
<1>5. CASE ~failed
    <2>1. S!Enqueue(nextKey, nextKey, connectionId) /\ nextKey = nextSeq
        BY <1>5 DEF Submit, PInv, Numbered
    <2> DEFINE r == [handler |-> nextKey, key |-> nextKey, seq |-> nextKey, id |-> DriveId]
    <2>2. /\ RP!IInv' /\ SP!SInv' /\ Admits
          /\ queue' = Append(queue, r)
        BY <1>1, <1>2, <1>3, <2>1, SubmitStep
    <2>3. /\ UNCHANGED <<sphase, writer, writing, sent, spc, sstatus, fate>>
          /\ nextSeq' = nextSeq + 1
        BY <2>1 DEF S!Enqueue
    <2>4. Control'
        BY <1>1, <1>5, <2>3 DEF PInv, Control, rcvVars
    <2>5. Effect /\ NoSuccess
        BY <1>1, <1>2, <1>5, <2>2 DEF Effect, SameLink, NoSuccess
    <2>6. SentSeqs' = SentSeqs
        BY <2>3 DEF SentSeqs
    <2>7. r \in SP!Request /\ r.handler = r.seq /\ r.key = r.seq /\ r.id = DriveId
        BY <1>3 DEF SP!Request, Keys, Ids, ConnectionIds, Handlers
    <2> HIDE DEF r
    <2>8. /\ Len(queue) \in Nat /\ Len(queue') = Len(queue) + 1
          /\ queue'[Len(queue) + 1] = r /\ \A j \in 1 .. Len(queue) : queue'[j] = queue[j]
        BY <2>2, <2>7, QueuedFacts, SP!AppendFacts, Constants DEF SConstants
    <2>9. \A i \in 1 .. Len(queue') :
            /\ queue'[i].handler = queue'[i].seq /\ queue'[i].key = queue'[i].seq
            /\ queue'[i].id = DriveId
        BY <2>7, <2>8 DEF PInv, Numbered
    <2>10. nextSeq' <= nextKey' /\ nextSeq' = nextKey'
        BY <1>1, <1>3, <2>1, <2>3
    <2>11. Numbered'
        BY <1>1, <1>2, <1>3, <2>3, <2>6, <2>9, <2>10 DEF PInv, Numbered, rcvVars
    <2>12. Ledger'
        BY <1>3, <2>3, <2>5, LedgerKept
    <2>13. DriveKnown'
        BY <1>1, <1>2, <1>3, <2>5, <2>6, DriveKept DEF rcvVars
    <2>14. QED
        BY <2>2, <2>4, <2>5, <2>11, <2>12, <2>13 DEF PInv
<1>6. QED
    BY <1>4, <1>5

LEMMA RemoveInv == \A k \in Keys : PInv /\ Remove(k) => PInv' /\ Effect
<1> SUFFICES ASSUME NEW k \in Keys, PInv, Remove(k) PROVE PInv' /\ Effect
    OBVIOUS
<1>1. MayCall /\ UNCHANGED <<svcVars, envVars, nextKey, answers, inbox, failed, runpc>>
    BY DEF Remove, svcVars, envVars
<1>2. Usable /\ phase = "open"
    BY <1>1, CallingWhen
<1>3. CASE k \in S!KeysQueued
    <2>1. S!RemoveQueued(k) /\ UNCHANGED <<rcvVars, phase, connectionId, map>>
        BY <1>3 DEF Remove, rcvVars
    <2>2. RP!IInv' /\ SP!SInv' /\ Shrinks /\ \E h \in Handlers : Settles(h, "removed")
        BY <1>1, <2>1, RemoveQueuedStep
    <2>3. UNCHANGED <<sphase, nextSeq, writer, writing, sent, spc>>
        BY <2>1 DEF S!RemoveQueued
    <2>4. Control'
        BY <1>1, <1>2, <2>1, <2>3 DEF PInv, Control, Usable, rcvVars, svcVars, envVars
    <2>5. Effect /\ NoSuccess
        BY <1>1, <1>2, <2>2 DEF Effect, SameLink, NoSuccess
    <2>6. QED
        BY <1>1, <1>2, <2>1, <2>2, <2>3, <2>4, <2>5, StepKept
<1>4. CASE k \notin S!KeysQueued
    <2>1. R!Remove(k) /\ UNCHANGED <<sndVars, queue, nextSeq, writer, writing, sent, sphase>>
        BY <1>4 DEF Remove, sndVars
    <2>2. RP!IInv' /\ SP!SInv' /\ k \in Handlers /\ Settles(k, "removed")
        BY <1>1, <2>1, RemoveStep
    <2>3. /\ UNCHANGED <<phase, connectionId, rpc>>
          /\ \A s \in DOMAIN map' : s \in DOMAIN map /\ map'[s] = map[s]
        BY <2>1 DEF R!Remove, R!Erase, R!Restrict
    <2>4. Control'
        BY <1>1, <1>2, <2>1, <2>3 DEF PInv, Control, Usable, sndVars, svcVars, envVars
    <2>5. Effect /\ NoSuccess
        BY <1>1, <1>2, <2>2 DEF Effect, SameLink, NoSuccess
    <2>6. QED
        BY <1>1, <1>2, <2>1, <2>2, <2>3, <2>4, <2>5, StepKept
<1>5. QED
    BY <1>3, <1>4

-----------------------------------------------------------------------------
(* The receiver's steps.                                                   *)

(* Receive runs inside Run or the constructor; in the destructor only the  *)
(* error loop does.                                                        *)
LEMMA ReceivingWhen ==
    ASSUME PInv, rpc # "out"
    PROVE  /\ runpc \in {"out", "receive", "closing"} /\ runpc # "closed"
           /\ phase \in {"handshake", "open", "closed"}
           /\ phase = "closed" => rpc \in {"failing", "erroring"}
           /\ phase # "closed" => ~failed /\ Usable
<1>1. phase \in {"handshake", "open", "threw", "closed"} /\ SP!SenderTypeOK
    BY DEF PInv, RP!IInv, RP!TypeOK, RP!Phases, SP!SInv
<1>2. sphase \in {"open", "closing", "closed"}
    BY <1>1 DEF SP!SenderTypeOK
<1>3. QED
    BY <1>1, <1>2 DEF PInv, Control, Usable

(* A step inside Receive or the error loop of the destructor.              *)
LEMMA ReceivingKept ==
    ASSUME PInv, NotSending, rpc # "out", UNCHANGED phase,
           RP!IInv', SP!SInv', Effect, NoSuccess \/ Backed,
           phase = "closed" =>
              \/ rpc' \in {"failing", "erroring"} /\ map' = map
              \/ rpc' = "out" /\ DOMAIN map' = {},
           connectionId' \in {connectionId, DriveId},
           fate'[HandshakeHandler] = <<"succeeded">> =>
              \/ fate[HandshakeHandler] = <<"succeeded">>
              \/ connectionId' = DriveId,
           \A s \in DOMAIN map' : s \in DOMAIN map /\ map'[s] = map[s],
           inbox' = inbox \/ (inbox # << >> /\ inbox' = Tail(inbox))
    PROVE  PInv'
<1>1. UNCHANGED <<sphase, queue, nextSeq, writer, writing, sent, spc,
                  failed, nextKey, runpc, wantRead, wantWrite, answers, faults, fresh>>
    BY DEF NotSending, sndVars, svcVars
<1>2. Control'
    BY <1>1, ReceivingWhen DEF PInv, Control
<1>3. Numbered'
    BY <1>1, NumberedKept
<1>4. nextKey' \in 0 .. MaxSubmits
    BY <1>1 DEF PInv, Numbered
<1>5. Ledger'
    BY <1>1, <1>4, LedgerKept
<1>6. SentSeqs' = SentSeqs
    BY <1>1 DEF SentSeqs
<1>7. /\ phase' \in {"open", "closed"} => connectionId' = DriveId
      /\ fate'[HandshakeHandler] = <<"succeeded">> => connectionId' = DriveId
    BY DEF PInv, DriveKnown
<1>8. DriveKnown'
    BY <1>1, <1>4, <1>6, <1>7, DriveKept
<1>9. QED
    BY <1>2, <1>3, <1>5, <1>8 DEF PInv

(* Steps that call nobody.                                                 *)
LEMMA QuietReceiveInv ==
    ASSUME PInv, NotSending, UNCHANGED inbox,
           \/ R!ReceiveIdle \/ R!ReceiveWaits \/ R!HandlerReturns
           \/ R!ErrorHandlerReturns
    PROVE  PInv' /\ Effect
<1>1. UNCHANGED <<sndVars, svcVars, nextKey, failed, runpc>>
    BY DEF NotSending, svcVars
<1>2. RP!IInv' /\ SP!SInv' /\ Still
    BY <1>1, QuietReceiverStep
<1>3. /\ rpc # "out" /\ UNCHANGED <<phase, map, connectionId, fate>>
      /\ rpc \in {"reading", "handling"} \/ rpc' = "failing"
    BY DEF R!ReceiveIdle, R!ReceiveWaits, R!HandlerReturns, R!ErrorHandlerReturns
<1>4. Effect /\ NoSuccess
    BY <1>1, <1>2 DEF Effect, SameLink, NoSuccess
<1>5. QED
    BY <1>2, <1>3, <1>4, ReceivingWhen, ReceivingKept

(* The constructor's steps between two calls of Receive.                   *)
LEMMA HandshakeInv ==
    ASSUME PInv, NotSending, UNCHANGED inbox,
           R!HandshakeReceivesAgain \/ R!HandshakeSucceeds \/ R!HandshakeThrows
    PROVE  PInv' /\ Effect
<1>1. UNCHANGED <<sphase, queue, nextSeq, writer, writing, sent, spc, sndVars,
                  svcVars, failed, nextKey, runpc, wantRead, wantWrite, answers,
                  faults, fresh>>
    BY DEF NotSending, sndVars, svcVars
<1>2. RP!IInv' /\ SP!SInv' /\ Still
    BY <1>1, QuietReceiverStep
<1>3. /\ UNCHANGED <<map, connectionId, fate>> /\ phase = "handshake" /\ rpc = "out"
      /\ \/ phase' = "handshake" /\ rpc' = "reading"
         \/ phase' = "open" /\ rpc' = "out" /\ fate[HandshakeHandler] = <<"succeeded">>
         \/ phase' = "threw" /\ rpc' = "out"
    BY DEF R!HandshakeReceivesAgain, R!HandshakeSucceeds, R!HandshakeThrows, R!Idle
<1>4. Control'
    BY <1>1, <1>3 DEF PInv, Control
<1>5. Effect /\ NoSuccess
    BY <1>1, <1>2 DEF Effect, SameLink, NoSuccess
<1>6. phase' = "open" => connectionId' = DriveId
    BY <1>3 DEF PInv, DriveKnown
<1>7. QED
    BY <1>1, <1>2, <1>3, <1>4, <1>5, <1>6, StepKept

LEMMA CallErrorInv ==
    ASSUME PInv, NotSending, UNCHANGED inbox, NEW q \in R!AllSeqs, R!CallErrorHandler(q)
    PROVE  PInv' /\ Effect
<1>1. UNCHANGED <<sndVars, svcVars, nextKey, failed, runpc>>
    BY DEF NotSending, svcVars
<1>2. RP!IInv' /\ SP!SInv' /\ (Still \/ (q \in Handlers /\ Settles(q, "failed")))
    BY <1>1, ErrorStep
<1>3. /\ rpc = "failing" /\ rpc' = "erroring" /\ UNCHANGED <<phase, map, connectionId>>
      /\ q \in RP!Live /\ fate' = RP!Record(map[q].handler, "failed")
    BY DEF R!CallErrorHandler, RP!Live, RP!Failing, R!Record, RP!Record
<1>4. Effect /\ NoSuccess
    BY <1>1, <1>2, <1>3, ReceivingWhen DEF Effect, SameLink, NoSuccess
<1>5. /\ q \in DOMAIN map /\ fate[map[q].handler] = << >>
      /\ map[q].handler \in RP!AllHandlers /\ HandshakeHandler \in RP!AllHandlers
      /\ DOMAIN fate = RP!AllHandlers
    BY <1>3, LiveFacts DEF PInv, RP!IInv, RP!TypeOK, RP!Entry, RP!AllHandlers
<1>6. /\ fate'[map[q].handler] = <<"failed">>
      /\ \A g \in RP!AllHandlers \ {map[q].handler} : fate'[g] = fate[g]
    BY <1>3, <1>5, OneFate
<1>7. <<"failed">> # <<"succeeded">>
    OBVIOUS
<1>8. fate'[HandshakeHandler] = <<"succeeded">> =>
        fate[HandshakeHandler] = <<"succeeded">>
    BY <1>5, <1>6, <1>7
<1>9. QED
    BY <1>2, <1>3, <1>4, <1>8, ReceivingKept

LEMMA ClearInv ==
    ASSUME PInv, NotSending, UNCHANGED inbox, R!AllErrorHandlersCalled
    PROVE  PInv' /\ Effect
<1>1. UNCHANGED <<sndVars, svcVars, nextKey, failed, runpc>>
    BY DEF NotSending, svcVars
<1>2. RP!IInv' /\ SP!SInv' /\ Still /\ DOMAIN map' = {}
    BY <1>1, ClearStep
<1>3. rpc = "failing" /\ rpc' = "out" /\ UNCHANGED <<phase, fate, connectionId>>
    BY DEF R!AllErrorHandlersCalled
<1>4. Effect /\ NoSuccess
    BY <1>1, <1>2 DEF Effect, SameLink, NoSuccess
<1>5. QED
    BY <1>2, <1>3, <1>4, ReceivingKept

LEMMA ReceiveStepInv == PInv /\ (ReceiveStep \/ ReceiveWaits) => PInv' /\ Effect
BY QuietReceiveInv, HandshakeInv, CallErrorInv, ClearInv DEF ReceiveStep, ReceiveWaits

(* The error begins that everyone who waits is told of.                    *)
LEMMA FailingInv ==
    ASSUME PInv, NotSending,
           R!ReceiveFails \/ \E p \in RP!Packets : R!ReceiveBadPacket(p),
           inbox' = inbox \/ (inbox # << >> /\ inbox' = Tail(inbox))
    PROVE  PInv' /\ Effect
<1>1. UNCHANGED <<sndVars, svcVars, nextKey, failed, runpc>>
    BY DEF NotSending, svcVars
<1>2. RP!IInv' /\ SP!SInv' /\ Still
    BY <1>1, FailingStep
<1>3. PICK st : R!CallAllErrorHandlers(st) /\ rpc = "reading"
    BY DEF R!ReceiveFails, R!ReceiveBadPacket
<1>4. handler = NoHandler
    BY <1>3 DEF PInv, RP!IInv, RP!PositionsAgree
<1>5. UNCHANGED <<map, fate, phase>> /\ rpc' = "failing"
    BY <1>3, <1>4 DEF R!CallAllErrorHandlers, R!ReceiveFails, R!ReceiveBadPacket
<1>6. connectionId' \in {connectionId, DriveId}
    BY DEF R!ReceiveFails, R!ReceiveBadPacket, R!NewConnectionId, RP!Packets, ConnectionIds
<1>7. Effect /\ NoSuccess
    BY <1>1, <1>2 DEF Effect, SameLink, NoSuccess
<1>8. QED
    BY <1>2, <1>3, <1>5, <1>6, <1>7, ReceivingKept

LEMMA ReceiveFailsInv == PInv /\ ReceiveFails => PInv' /\ Effect
BY FailingInv DEF ReceiveFails

(* What is read from the inbox was put there by the drive.                 *)
LEMMA HeadBelievable ==
    ASSUME PInv, inbox # << >>, Head(inbox) # Garbage
    PROVE  Believable(Head(inbox))
<1>1. inbox \in Seq(RP!Packets \cup {Garbage})
    BY DEF PInv, DriveKnown, Believed
<1>2. Head(inbox) = inbox[1] /\ 1 \in 1 .. Len(inbox)
    BY <1>1, SP!TailFacts, Constants DEF SConstants
<1>3. QED
    BY <1>2 DEF PInv, DriveKnown, Believed

LEMMA UnknownInv ==
    ASSUME PInv, NotSending, NEW p \in RP!Packets, R!ReceiveUnknown(p),
           inbox # << >>, inbox' = Tail(inbox)
    PROVE  PInv' /\ Effect
<1>1. UNCHANGED <<sndVars, svcVars, nextKey, failed, runpc>>
    BY DEF NotSending, svcVars
<1>2. RP!IInv' /\ SP!SInv' /\ Still
    BY <1>1, UnknownStep
<1>3. /\ UNCHANGED <<map, fate, phase, rpc>> /\ rpc = "reading"
      /\ connectionId' \in {connectionId, DriveId}
    BY DEF R!ReceiveUnknown, R!NewConnectionId, RP!Packets, ConnectionIds
<1>4. Effect /\ NoSuccess
    BY <1>1, <1>2 DEF Effect, SameLink, NoSuccess
<1>5. QED
    BY <1>2, <1>3, <1>4, ReceivingWhen, ReceivingKept

(* A response is believed only because the drive sent it: the handshake    *)
(* ends with the drive's own greeting, and a request succeeds because the  *)
(* drive answered this request with success.                               *)
LEMMA ResponseInv ==
    ASSUME PInv, NotSending, NEW p \in RP!Packets, Believable(p), R!ReceiveResponse(p),
           inbox # << >>, inbox' = Tail(inbox)
    PROVE  PInv' /\ Effect
<1> DEFINE s == R!AckOf(p)
<1>1. UNCHANGED <<sndVars, svcVars, nextKey, failed, runpc>>
    BY DEF NotSending, svcVars
<1>2. /\ RP!IInv' /\ SP!SInv'
      /\ IF s = -1 THEN Still ELSE s \in Handlers /\ Settles(s, Outcome(p))
      /\ s \in DOMAIN map /\ fate' = RP!Record(map[s].handler, Outcome(p))
    BY <1>1, ResponseStep
<1>3. /\ rpc = "reading" /\ rpc' = "handling" /\ UNCHANGED phase
      /\ connectionId' = R!NewConnectionId(p) /\ map' = R!Erase(map, s)
      /\ s # NoAck
    BY DEF R!ReceiveResponse, R!GoodPacket
<1>4. /\ connectionId' \in {connectionId, DriveId}
      /\ p.unsolicited => connectionId' = DriveId
    BY <1>3, MarkersOK, ServiceConstantsOK
    DEF R!NewConnectionId, RP!Packets, ConnectionIds, Believable
<1>5. \A t \in DOMAIN map' : t \in DOMAIN map /\ map'[t] = map[t]
    BY <1>3 DEF R!Erase, R!Restrict
<1>6. runpc # "closed" /\ phase # "closed" /\ ~failed /\ Usable
    BY <1>3, ReceivingWhen
<1>7. ~p.unsolicited => /\ s = p.ack /\ s \in DOMAIN answers /\ s \in SentSeqs
                        /\ p.success => answers[s] = "succeeded"
    BY <1>3 DEF R!AckOf, Believable, PInv, DriveKnown
<1>8. -1 \notin SentSeqs /\ (p.unsolicited => s = -1)
    <2>1. \A i \in 1 .. Len(sent) : sent[i].seq \in Nat
        BY SP!NumbersAreNumbers, Constants DEF SConstants, PInv, SP!SInv
    <2>2. QED
        BY <2>1 DEF SentSeqs, R!AckOf, R!HandshakeSeq
<1> HIDE DEF s
<1>9. CASE s = -1
    <2>1. p.unsolicited
        BY <1>7, <1>8, <1>9 DEF RP!Packets
    <2>2. Effect /\ NoSuccess
        BY <1>1, <1>2, <1>9 DEF Effect, SameLink, NoSuccess
    <2>3. QED
        BY <1>2, <1>3, <1>4, <1>5, <1>6, <2>1, <2>2, ReceivingKept
<1>10. CASE s # -1
    <2>1. ~p.unsolicited /\ s \in Handlers /\ Settles(s, Outcome(p))
        BY <1>2, <1>8, <1>10
    <2>2. CASE p.success
        <3>1. Settles(s, "succeeded") /\ s \in DOMAIN answers /\ answers[s] = "succeeded"
            BY <1>7, <2>1, <2>2 DEF Outcome
        <3>2. Effect /\ Backed
            BY <1>1, <1>6, <2>1, <3>1 DEF Effect, SameLink, Backed
        <3>3. fate'[HandshakeHandler] = fate[HandshakeHandler]
            <4>1. map[s].handler = s /\ s # HandshakeHandler
                BY <1>2, <1>10, <2>1, LiveFacts, MarkersOK
            <4>2. HandshakeHandler \in DOMAIN fate
                BY DEF PInv, RP!IInv, RP!TypeOK, RP!AllHandlers
            <4>3. QED
                BY <1>2, <4>1, <4>2 DEF RP!Record
        <3>4. QED
            BY <1>2, <1>3, <1>4, <1>5, <1>6, <3>2, <3>3, ReceivingKept
    <2>3. CASE ~p.success
        <3>1. Settles(s, "failed")
            BY <2>1, <2>3 DEF Outcome
        <3>2. Effect /\ NoSuccess
            BY <1>1, <1>6, <2>1, <3>1 DEF Effect, SameLink, NoSuccess
        <3>3. fate'[HandshakeHandler] = fate[HandshakeHandler]
            <4>1. map[s].handler = s /\ s # HandshakeHandler
                BY <1>2, <1>10, <2>1, LiveFacts, MarkersOK
            <4>2. HandshakeHandler \in DOMAIN fate
                BY DEF PInv, RP!IInv, RP!TypeOK, RP!AllHandlers
            <4>3. QED
                BY <1>2, <4>1, <4>2 DEF RP!Record
        <3>4. QED
            BY <1>2, <1>3, <1>4, <1>5, <1>6, <3>2, <3>3, ReceivingKept
    <2>4. QED
        BY <2>2, <2>3
<1>11. QED
    BY <1>9, <1>10

LEMMA ReceivePacketInv == PInv /\ ReceivePacket => PInv' /\ Effect
<1> SUFFICES ASSUME PInv, ReceivePacket PROVE PInv' /\ Effect
    OBVIOUS
<1> DEFINE p == Head(inbox)
<1>1. /\ inbox # << >> /\ Believable(p) /\ NotSending /\ inbox' = Tail(inbox)
      /\ R!ReceiveBadPacket(p) \/ R!ReceiveUnknown(p) \/ R!ReceiveResponse(p)
    BY HeadBelievable DEF ReceivePacket
<1> HIDE DEF p
<1>2. p \in RP!Packets
    BY <1>1 DEF Believable
<1>3. QED
    BY <1>1, <1>2, FailingInv, UnknownInv, ResponseInv

-----------------------------------------------------------------------------
(* The drive and the network.                                              *)

(* What the drive sends changes nothing for the client until it is read.   *)
LEMMA DriveActs ==
    ASSUME PInv, DriveOnly,
           Believed',
           DOMAIN answers \subseteq DOMAIN answers', DOMAIN answers' \subseteq SentSeqs,
           \A q \in DOMAIN answers : answers'[q] = answers[q],
           faults' \in 0 .. MaxFaults
    PROVE  PInv' /\ Effect
<1> USE DEF DriveOnly, rcvVars, sndVars, svcVars
<1>1. RP!IInv' /\ SP!SInv'
    BY NotFated, NotSent DEF PInv, appFate
<1>2. \A h : (InQueue(h)' <=> InQueue(h)) /\ (InMap(h)' <=> InMap(h)) /\ appFate' = appFate
    BY DEF InQueue, InMap, RP!Live, RP!Failing, appFate
<1>3. Still
    BY <1>1, <1>2, StillBecause DEF PInv
<1>4. Effect
    BY <1>3 DEF Effect, SameLink
<1>5. Control' /\ Numbered'
    BY DEF PInv, Control, Numbered, SentSeqs
<1>6. Ledger'
    BY <1>4, LedgerKept DEF PInv, Numbered
<1>7. DriveKnown'
    <2>1. SentSeqs' = SentSeqs
        BY DEF SentSeqs
    <2>2. AnswersMatch'
        BY DEF PInv, DriveKnown, AnswersMatch, Submitted
    <2>3. QED
        BY <2>1, <2>2 DEF PInv, DriveKnown
<1>8. QED
    BY <1>1, <1>4, <1>5, <1>6, <1>7 DEF PInv

(* A response is added at the end.                                         *)
LEMMA Arrives ==
    ASSUME PInv, NEW p \in RP!Packets \cup {Garbage}, inbox' = Append(inbox, p),
           p # Garbage => Believable(p)',
           DOMAIN answers \subseteq DOMAIN answers',
           \A q \in DOMAIN answers : answers'[q] = answers[q]
    PROVE  Believed' /\ Len(inbox') > Len(inbox)
<1>1. /\ inbox \in Seq(RP!Packets \cup {Garbage})
      /\ \A i \in 1 .. Len(inbox) : inbox[i] # Garbage => Believable(inbox[i])
    BY DEF PInv, DriveKnown, Believed
<1>2. \A x : Believable(x) => Believable(x)'
    BY DEF Believable, RP!Packets, RP!AllSeqs, RP!HandshakeSeq
<1>3. /\ Len(inbox) \in Nat /\ Len(inbox') = Len(inbox) + 1
      /\ inbox'[Len(inbox) + 1] = p /\ \A j \in 1 .. Len(inbox) : inbox'[j] = inbox[j]
      /\ inbox' \in Seq(RP!Packets \cup {Garbage})
    BY <1>1, SP!AppendFacts, Constants DEF SConstants
<1>4. ASSUME NEW i \in 1 .. Len(inbox'), NEW x, x = inbox'[i], x # Garbage
      PROVE  Believable(x)'
    <2>1. CASE i = Len(inbox) + 1
        BY <1>3, <1>4, <2>1
    <2>2. CASE i \in 1 .. Len(inbox)
        <3>1. Believable(inbox[i]) /\ inbox[i] = x
            BY <1>1, <1>3, <1>4, <2>2
        <3>2. Believable(x)
            BY <3>1
        <3>3. QED
            BY <1>2, <3>2
    <2>3. QED
        BY <1>3, <1>4, <2>1, <2>2
<1>5. \A i \in 1 .. Len(inbox') : inbox'[i] # Garbage => Believable(inbox[i])'
    BY <1>4
<1>6. QED
    BY <1>3, <1>5 DEF Believed

LEMMA PacketsThere ==
    /\ \A a \in R!AllSeqs \cup {NoAck}, ok \in BOOLEAN :
        [Packet EXCEPT !.ack = a, !.success = ok] \in RP!Packets
    /\ \A a \in R!AllSeqs \cup {NoAck} : [Packet EXCEPT !.ack = a] \in RP!Packets
    /\ {Packet, Greeting, [Packet EXCEPT !.hmac = "invalid"],
        [Packet EXCEPT !.parses = FALSE]} \subseteq RP!Packets
<1> USE DEF Packet, RP!Packets, ConnectionIds, R!AllSeqs, RP!AllSeqs,
        R!HandshakeSeq, RP!HandshakeSeq
<1>1. ASSUME NEW a \in R!AllSeqs \cup {NoAck}, NEW ok \in BOOLEAN
      PROVE  [Packet EXCEPT !.ack = a, !.success = ok] \in RP!Packets
    OBVIOUS
<1>2. ASSUME NEW a \in R!AllSeqs \cup {NoAck} PROVE [Packet EXCEPT !.ack = a] \in RP!Packets
    OBVIOUS
<1>3. Packet \in RP!Packets
    OBVIOUS
<1>4. Greeting \in RP!Packets
    BY DEF Greeting
<1>5. [Packet EXCEPT !.hmac = "invalid"] \in RP!Packets
    OBVIOUS
<1>6. [Packet EXCEPT !.parses = FALSE] \in RP!Packets
    OBVIOUS
<1> HIDE DEF Packet, RP!Packets
<1>7. QED
    BY <1>1, <1>2, <1>3, <1>4, <1>5, <1>6

LEMMA GreetInv == PInv /\ Greet => PInv' /\ Effect
<1> SUFFICES ASSUME PInv, Greet PROVE PInv' /\ Effect
    OBVIOUS
<1>1. /\ inbox = << >> /\ inbox' = <<Greeting>> /\ DriveOnly
      /\ UNCHANGED <<answers, faults>>
    BY DEF Greet
<1>2. Greeting \in RP!Packets /\ Greeting.unsolicited /\ Greeting.id = DriveId
    BY PacketsThere DEF Greeting, Packet
<1>3. /\ inbox' \in Seq(RP!Packets \cup {Garbage}) /\ Len(inbox') = 1
      /\ inbox'[1] = Greeting
    BY <1>1, <1>2
<1>4. Believable(Greeting)'
    BY <1>2 DEF Believable, RP!Packets, RP!AllSeqs, RP!HandshakeSeq
<1>5. \A i \in 1 .. Len(inbox') : i = 1
    BY <1>3
<1>6. \A i \in 1 .. Len(inbox') : inbox'[i] # Garbage => Believable(inbox[i])'
    BY <1>3, <1>4, <1>5
<1>7. Believed'
    BY <1>3, <1>6 DEF Believed
<1>8. QED
    BY <1>1, <1>7, DriveActs DEF PInv, DriveKnown, Control

LEMMA AnswerInv == \A q \in Seqs : PInv /\ Answer(q) => PInv' /\ Effect
<1> SUFFICES ASSUME NEW q \in Seqs, PInv, Answer(q) PROVE PInv' /\ Effect
    OBVIOUS
<1>1. PICK ok \in BOOLEAN :
        /\ answers' = R!Put(answers, q, IF ok THEN "succeeded" ELSE "failed")
        /\ inbox' = Append(inbox, [Packet EXCEPT !.ack = q, !.success = ok])
    BY DEF Answer
<1>2. DriveOnly /\ UNCHANGED faults /\ q \notin DOMAIN answers
    BY DEF Answer
<1>3. q \in SentSeqs
    <2>1. DOMAIN sent = 1 .. Len(sent)
        BY LenProperties DEF PInv, SP!SInv, SP!SenderTypeOK
    <2>2. QED
        BY <2>1 DEF Answer, SentSeqs
<1>4. /\ DOMAIN answers' = DOMAIN answers \cup {q}
      /\ answers'[q] = IF ok THEN "succeeded" ELSE "failed"
      /\ \A a \in DOMAIN answers : answers'[a] = answers[a]
    BY <1>1, <1>2 DEF R!Put
<1> DEFINE p == [Packet EXCEPT !.ack = q, !.success = ok]
<1>5. p.ack = q /\ p.success = ok /\ p.unsolicited = FALSE
    BY DEF Packet
<1>6. p \in RP!Packets
    BY PacketsThere DEF R!AllSeqs
<1> HIDE DEF p
<1>7. Believable(p)'
    BY <1>4, <1>5, <1>6 DEF Believable, RP!Packets, RP!AllSeqs, RP!HandshakeSeq
<1>8. Believed'
    <2>1. inbox' = Append(inbox, p)
        BY <1>1 DEF p
    <2>2. p \in RP!Packets \cup {Garbage} /\ DOMAIN answers \subseteq DOMAIN answers'
        BY <1>4, <1>6
    <2>3. QED
        BY <1>4, <1>7, <2>1, <2>2, Arrives
<1>9. DOMAIN answers \subseteq DOMAIN answers' /\ DOMAIN answers' \subseteq SentSeqs
    BY <1>3, <1>4 DEF PInv, DriveKnown
<1>10. QED
    BY <1>2, <1>4, <1>8, <1>9, DriveActs DEF PInv, Control

LEMMA MisbehaveInv == PInv /\ Misbehave => PInv' /\ Effect
<1> SUFFICES ASSUME PInv, Misbehave PROVE PInv' /\ Effect
    OBVIOUS
<1>1. DriveOnly /\ UNCHANGED answers /\ faults' = faults + 1 /\ faults < MaxFaults
    BY DEF Misbehave
<1>2. PICK p \in SpuriousPackets : inbox' = Append(inbox, p)
    BY DEF Misbehave
<1>3. DOMAIN answers \subseteq R!AllSeqs /\ \A q \in DOMAIN answers : q \notin {NoAck}
    <2>1. ASSUME NEW q \in SentSeqs PROVE q \in R!AllSeqs /\ q \in Nat
        <3>1. PICK i \in 1 .. Len(sent) : sent[i].seq = q
            BY DEF SentSeqs
        <3>2. q \in Nat
            BY <3>1, SP!NumbersAreNumbers, Constants DEF SConstants, PInv, SP!SInv
        <3>3. q < nextKey
            BY <3>1, <3>2 DEF PInv, SP!SInv, SP!SenderTypeOK, SP!NumbersGrow, Numbered
        <3>4. QED
            BY <3>2, <3>3, ServiceConstantsOK
            DEF R!AllSeqs, Seqs, Handlers, PInv, Numbered
    <2>2. QED
        BY <2>1, MarkersOK DEF PInv, DriveKnown
<1>4. p \in RP!Packets \cup {Garbage}
    BY <1>3, PacketsThere DEF SpuriousPackets
<1>5. ASSUME p # Garbage PROVE Believable(p)'
    <2>1. p \in RP!Packets
        BY <1>4, <1>5
    <2>2. CASE p = Greeting
        BY <2>1, <2>2 DEF Greeting, Packet, Believable, RP!Packets, RP!AllSeqs, RP!HandshakeSeq
    <2>3. CASE p \in {Packet, [Packet EXCEPT !.hmac = "invalid"],
                      [Packet EXCEPT !.parses = FALSE]}
        <3>1. p.ack = NoAck /\ p.unsolicited = FALSE
            BY <2>3 DEF Packet
        <3>2. QED
            BY <2>1, <3>1 DEF Believable, RP!Packets, RP!AllSeqs, RP!HandshakeSeq
    <2>4. CASE \E q \in DOMAIN answers : answers[q] = "succeeded" /\ p = [Packet EXCEPT !.ack = q]
        <3>1. PICK q \in DOMAIN answers : answers[q] = "succeeded" /\ p = [Packet EXCEPT !.ack = q]
            BY <2>4
        <3>2. p.ack = q /\ p.unsolicited = FALSE
            BY <3>1 DEF Packet
        <3>3. QED
            BY <1>1, <2>1, <3>1, <3>2 DEF Believable, RP!Packets, RP!AllSeqs, RP!HandshakeSeq
    <2>5. QED
        BY <1>5, <2>2, <2>3, <2>4 DEF SpuriousPackets
<1>6. Believed'
    BY <1>1, <1>2, <1>4, <1>5, Arrives
<1>7. faults' \in 0 .. MaxFaults
    BY <1>1, ServiceConstantsOK DEF PInv, Control
<1>8. QED
    BY <1>1, <1>6, <1>7, DriveActs DEF PInv, DriveKnown

LEMMA BreakInv == PInv /\ Break => PInv' /\ Effect
<1> SUFFICES ASSUME PInv, Break PROVE PInv' /\ Effect
    OBVIOUS
<1>1. /\ inbox' = inbox \/ inbox' = << >>
      /\ DriveOnly /\ UNCHANGED <<answers, faults>>
    BY DEF Break
<1>2. Believed
    BY DEF PInv, DriveKnown
<1>3. CASE inbox' = inbox
    <2>1. Believed'
        BY <1>1, <1>2, <1>3
        DEF Believed, Believable, RP!Packets, RP!AllSeqs, RP!HandshakeSeq
    <2>2. QED
        BY <1>1, <2>1, DriveActs DEF PInv, DriveKnown, Control
<1>4. CASE inbox' = << >>
    <2>1. Believed'
        BY <1>4 DEF Believed
    <2>2. QED
        BY <1>1, <2>1, DriveActs DEF PInv, DriveKnown, Control
<1>5. QED
    BY <1>1, <1>3, <1>4

-----------------------------------------------------------------------------
(* The invariant.                                                          *)

LEMMA ServiceInit == Init => PInv
<1> SUFFICES ASSUME Init PROVE PInv
    OBVIOUS
<1>1. RP!IInv
    <2>1. RP!Init
        BY DEF Init, R!Init, RP!Init, R!HandshakeSeq, RP!HandshakeSeq,
            R!HandshakeKey, RP!HandshakeKey, R!AllHandlers, RP!AllHandlers
    <2>2. QED
        BY <2>1, RP!InitInv, Constants DEF RConstants
<1>2. fate \in [RP!AllHandlers -> {<< >>}] /\ Handlers \subseteq RP!AllHandlers
    BY DEF Init, R!Init, R!AllHandlers, RP!AllHandlers
<1>3. SP!SInv
    <2>1. SP!SenderAlone
        BY <1>2 DEF Init, S!SenderInit, SP!SenderAlone, SP!SenderInit, appFate
    <2>2. QED
        BY <2>1, SP!SenderInitInv, Constants DEF SConstants
<1>4. /\ queue = << >> /\ sent = << >> /\ inbox = << >> /\ nextKey = 0 /\ nextSeq = 0
      /\ writer = NoWriter /\ writing = NoHandler /\ sphase = "open" /\ spc = "out"
      /\ phase = "handshake" /\ rpc = "reading" /\ failed = FALSE /\ runpc = "out"
      /\ DOMAIN map = {-1} /\ map[-1].handler = HandshakeHandler /\ map[-1].key = -1
      /\ DOMAIN answers = {}
    BY DEF Init, R!Init, S!SenderInit, R!HandshakeSeq, R!HandshakeKey
<1>5. Control
    <2>1. {failed, wantRead, wantWrite, fresh} \subseteq BOOLEAN
        BY DEF Init
    <2>2. faults \in 0 .. MaxFaults
        BY ServiceConstantsOK DEF Init
    <2>3. QED
        BY <1>4, <2>1, <2>2 DEF Control
<1>6. Numbered
    BY <1>4, ServiceConstantsOK DEF Numbered
<1>7. Ledger
    <2>1. Abandoned = {}
        BY <1>4 DEF Abandoned, Pending, Submitted
    <2>2. QED
        BY <1>2, <2>1 DEF Ledger
<1>8. DriveKnown
    <2>1. fate[HandshakeHandler] = << >>
        BY <1>2 DEF RP!AllHandlers
    <2>2. << >> # <<"succeeded">>
        OBVIOUS
    <2>3. AnswersMatch
        BY <1>4 DEF AnswersMatch, Submitted
    <2>4. Believed
        BY <1>4 DEF Believed
    <2>5. QED
        BY <1>4, <2>1, <2>2, <2>3, <2>4 DEF DriveKnown
<1>9. QED
    BY <1>1, <1>3, <1>5, <1>6, <1>7, <1>8 DEF PInv

(* Every step keeps the invariant and is one the board of requests knows.  *)
LEMMA ServiceNext == PInv /\ Next => PInv' /\ Effect
<1> SUFFICES ASSUME PInv, Next PROVE PInv' /\ Effect
    OBVIOUS
<1>1. ASSUME ClientStep PROVE PInv' /\ Effect
    BY <1>1, RunAfterSendInv, RunAfterReceiveInv, ReleasedInv, ClosedInv,
       SendStepInv, WriteFailsInv, ReceiveStepInv, ReceiveFailsInv, ReceivePacketInv
    DEF ClientStep
<1>2. QED
    BY <1>1, SubmitInv, RemoveInv, RunInv, CloseInv, SendStepInv, WriteDoneInv,
       GreetInv, AnswerInv, MisbehaveInv, BreakInv
    DEF Next

LEMMA ServiceStutters == PInv /\ UNCHANGED vars => PInv' /\ Effect
<1> SUFFICES ASSUME PInv, UNCHANGED vars PROVE PInv' /\ Effect
    OBVIOUS
<1>1. DriveOnly /\ UNCHANGED <<inbox, answers, faults>>
    BY DEF vars, DriveOnly, envVars
<1>2. Believed'
    BY <1>1 DEF PInv, DriveKnown, Believed, Believable, RP!Packets, RP!AllSeqs,
        RP!HandshakeSeq
<1>3. QED
    BY <1>1, <1>2, DriveActs DEF PInv, DriveKnown, Control

LEMMA ServiceInv == Spec => []PInv
<1>1. Init => PInv
    BY ServiceInit
<1>2. PInv /\ [Next]_vars => PInv'
    BY ServiceNext, ServiceStutters
<1>3. QED
    BY <1>1, <1>2, PTL DEF Spec

-----------------------------------------------------------------------------
(* The theorems about states.                                              *)

LEMMA SubmittedFacts ==
    ASSUME PInv
    PROVE  nextKey \in Nat /\ \A h \in Submitted : h \in Handlers /\ h < nextKey
<1>1. nextKey \in 0 .. MaxSubmits
    BY DEF PInv, Numbered
<1>2. \A h \in 0 .. nextKey - 1 : h \in Handlers /\ h < nextKey
    BY <1>1, SubmittedAreHandlers
<1>3. QED
    BY <1>1, <1>2 DEF Submitted

(* Every variable of the connection has its type: a request's key is its   *)
(* sequence number, and Send and Receive never run at once.                *)
THEOREM ServiceTypes == Spec => []ServiceTypeOK
<1>1. PInv => ServiceTypeOK
    <2> SUFFICES ASSUME PInv PROVE ServiceTypeOK
        OBVIOUS
    <2>1. R!TypeOK
        BY DEF PInv, RP!IInv, RP!TypeOK, R!TypeOK, R!Phases, RP!Phases,
            R!AllSeqs, RP!AllSeqs, R!HandshakeSeq, RP!HandshakeSeq, R!AllKeys,
            RP!AllKeys, R!HandshakeKey, RP!HandshakeKey, R!Entry, RP!Entry,
            R!AllHandlers, RP!AllHandlers, R!Positions, RP!Positions,
            R!Statuses, RP!Statuses, R!Fates, RP!Fates
    <2>2. /\ SP!SenderTypeOK /\ SP!NumbersGrow
          /\ nextSeq \in Nat /\ nextKey \in 0 .. MaxSubmits /\ nextSeq <= nextKey
        BY DEF PInv, SP!SInv, Numbered, SP!SenderTypeOK
    <2>3. sphase \in {"open", "closing", "closed"} /\ spc \in S!SendPositions
        BY <2>2 DEF SP!SenderTypeOK, SP!SendPositions, S!SendPositions
    <2>4. queue \in Seq(S!Request)
        BY <2>2 DEF SP!SenderTypeOK, SP!Request, S!Request
    <2>5. nextSeq \in 0 .. MaxSubmits
        BY <2>2, ServiceConstantsOK
    <2>6. \A r \in S!ToSet(queue) : r.key = r.seq /\ r.handler = r.key
        BY QueuedFacts DEF S!ToSet
    <2>7. writer \in [seq : Seqs, key : Keys, id : Ids] \cup {NoWriter}
        <3>1. writer # NoWriter => writer \in [seq : Nat, key : Keys, id : Ids]
                                   /\ writer.seq < nextSeq
            BY <2>2 DEF SP!SenderTypeOK, SP!NumbersGrow
        <3>2. ASSUME writer # NoWriter PROVE writer.seq \in Seqs
            <4>1. writer.seq \in Nat /\ writer.seq < nextSeq
                BY <3>1, <3>2
            <4>2. QED
                BY <2>5, <4>1, ServiceConstantsOK DEF Seqs, Handlers
        <3>3. QED
            BY <3>1, <3>2
    <2>8. writing \in Handlers \cup {NoHandler}
        BY <2>2 DEF SP!SenderTypeOK
    <2>9. spc # "out" => rpc = "out"
        BY SendingWhen, ReceivingWhen DEF PInv, Control
    <2>10. QED
        BY <2>1, <2>2, <2>3, <2>4, <2>5, <2>6, <2>7, <2>8, <2>9
        DEF ServiceTypeOK, PInv, Control
<1>2. QED
    BY <1>1, ServiceInv, PTL

(* A request without a fate is in one place only -- the queue, the writer  *)
(* or the receiver -- and one that has a fate waits nowhere, so that it is *)
(* called back once; only the one being written when the connection was    *)
(* destroyed is nowhere.                                                   *)
THEOREM EachInOnePlace == Spec => []OnePlace
<1>1. PInv => OnePlace
    <2> SUFFICES ASSUME PInv PROVE OnePlace
        OBVIOUS
    <2>1. /\ S!HandlersQueued = {queue[i].handler : i \in 1 .. Len(queue)}
          /\ R!Live = RP!Live
        BY QueuedFacts, LiveFacts DEF S!HandlersQueued, S!ToSet
    <2>2. ASSUME NEW h \in Handlers
          PROVE  /\ h \in S!HandlersQueued =>
                        /\ fate[h] = << >> /\ h # writing
                        /\ h \notin {map[q].handler : q \in R!Live}
                 /\ h = writing => h \notin {map[q].handler : q \in R!Live}
                 /\ h \in {map[q].handler : q \in R!Live} => fate[h] = << >>
        <3>1. h = writing => writing # NoHandler
            BY Constants DEF SConstants
        <3>2. QED
            BY <2>1, <3>1, QueuedFacts, LiveFacts, WritingFacts
    <2>3. ASSUME NEW h \in Pending PROVE Cardinality(Places(h)) <= 1
        <3>1. h \in Handlers
            BY SubmittedFacts DEF Pending
        <3>2. Places(h) = {} \/ \E p : Places(h) = {p}
            BY <2>2, <3>1 DEF Places
        <3>3. CASE Places(h) = {}
            <4>1. Cardinality(Places(h)) = 0
                BY <3>3, FS_EmptySet
            <4>2. QED
                BY <4>1
        <3>4. CASE \E p : Places(h) = {p}
            <4>1. Cardinality(Places(h)) = 1
                BY <3>4, FS_Singleton
            <4>2. QED
                BY <4>1
        <3>5. QED
            BY <3>2, <3>3, <3>4
    <2>4. ASSUME NEW h \in Submitted \ Pending
          PROVE  "queue" \notin Places(h) /\ "receiver" \notin Places(h)
        <3>1. h \in Handlers /\ fate[h] # << >>
            BY SubmittedFacts DEF Pending
        <3>2. QED
            BY <2>2, <3>1 DEF Places
    <2>5. ASSUME Abandoned # {} PROVE sphase = "closed" /\ Cardinality(Abandoned) = 1
        <3>1. PICK h : h \in Abandoned
            BY <2>5
        <3>2. Abandoned = {h} /\ sphase = "closed"
            BY <3>1 DEF PInv, Ledger
        <3>3. QED
            BY <3>2, FS_Singleton
    <2>6. QED
        BY <2>3, <2>4, <2>5 DEF OnePlace
<1>2. QED
    BY <1>1, ServiceInv, PTL

(* The drive receives requests in the order of their submission, each with *)
(* the connection id it announced.                                         *)
THEOREM InOrderOnTheWire == Spec => []WireOrder
<1>1. PInv => WireOrder
    <2> SUFFICES ASSUME PInv PROVE WireOrder
        OBVIOUS
    <2>1. DOMAIN sent = 1 .. Len(sent)
        BY LenProperties DEF PInv, SP!SInv, SP!SenderTypeOK
    <2>2. \A i, j \in 1 .. Len(sent) : i < j => sent[i].seq < sent[j].seq
        BY DEF PInv, SP!SInv, SP!NumbersGrow, SP!Growing
    <2>3. QED
        BY <2>1, <2>2 DEF WireOrder, PInv, Numbered
<1>2. QED
    BY <1>1, ServiceInv, PTL

(* A callback reports success only of a request the drive has answered     *)
(* with success, whatever else the drive sends.                            *)
THEOREM SuccessIsAnswered == Spec => []AnswersMatch
<1>1. PInv => AnswersMatch
    BY DEF PInv, DriveKnown
<1>2. QED
    BY <1>1, ServiceInv, PTL

(* The receiver takes every request the sender hands over: its sequence    *)
(* number and its key are not in use.                                      *)
THEOREM Accepted == Spec => []NeverRefused
<1>1. PInv => NeverRefused
    BY DEF PInv, Control, NeverRefused
<1>2. QED
    BY <1>1, ServiceInv, PTL

-----------------------------------------------------------------------------
(* The theorem about steps.                                                *)

(* After a failure nothing more is written or read and no callback reports *)
(* success.                                                                *)
THEOREM QuietOnceFailed == Spec => QuietAfterFailure
<1> DEFINE Quiet == /\ sent' = sent
                    /\ inbox = inbox' \/ Len(inbox') > Len(inbox) \/ socket' # socket
                    /\ \A h \in Handlers : fate'[h] # fate[h] => fate'[h] # <<"succeeded">>
<1>1. PInv /\ failed /\ [Next]_vars => Quiet
    <2> SUFFICES ASSUME PInv, failed, [Next]_vars PROVE Quiet
        OBVIOUS
    <2>1. Effect
        BY ServiceNext, ServiceStutters
    <2>2. spc # "sending" /\ rpc # "reading"
        BY SendingWhen, ReceivingWhen
    <2>3. /\ <<"failed">> # <<"succeeded">> /\ <<"removed">> # <<"succeeded">>
          /\ << >> # <<"succeeded">>
        OBVIOUS
    <2>4. \A h \in Handlers : fate'[h] # fate[h] => fate'[h] # <<"succeeded">>
        BY <2>1, <2>3 DEF Effect, Still, Settles, Admits, Rejects, Loses, Same
    <2>5. sent' = sent
        BY <2>2 DEF Next, vars, Submit, Remove, Run, Close, ClientStep,
            WriteWaits, WriteDone, Greet, Answer, Misbehave, Break,
            RunAfterSend, RunAfterReceive, ReceiverReleased, Closed,
            SendStep, WriteFails, ReceiveStep, ReceiveWaits, ReceiveFails,
            ReceivePacket, S!Enqueue, S!RemoveQueued, S!CallSend,
            S!DestroySender, S!SendIdle, S!TakeRequest, S!FailedReturns,
            S!DrainOne, S!DrainedReturns, S!DrainEnds, S!MembersDestroyed,
            S!WriteWaits, S!WriteFails, S!WriteDone, NotSending, DriveOnly, sndVars
    <2>6. inbox = inbox' \/ Len(inbox') > Len(inbox) \/ socket' # socket
        <3>1. CASE Greet
            <4>1. inbox = << >> /\ inbox' = <<Greeting>>
                BY <3>1 DEF Greet
            <4>2. Len(<<Greeting>>) = 1 /\ Len(<< >>) = 0
                OBVIOUS
            <4>3. QED
                BY <4>1, <4>2
        <3>2. CASE (\E q \in Seqs : Answer(q)) \/ Misbehave
            <4>1. PICK p : inbox' = Append(inbox, p)
                BY <3>2 DEF Answer, Misbehave
            <4>2. inbox \in Seq(RP!Packets \cup {Garbage})
                BY DEF PInv, DriveKnown, Believed
            <4>3. Len(inbox') = Len(inbox) + 1 /\ Len(inbox) \in Nat
                BY <4>1, <4>2, AppendProperties, LenProperties
            <4>4. QED
                BY <4>3
        <3>3. CASE Break
            BY <3>3 DEF Break, Connected
        <3>4. CASE ~(Greet \/ (\E q \in Seqs : Answer(q)) \/ Misbehave \/ Break)
            BY <2>2, <3>4 DEF Next, vars, envVars, Submit, Remove, Run, Close,
                ClientStep, WriteWaits, WriteDone, RunAfterSend, RunAfterReceive,
                ReceiverReleased, Closed, SendStep, WriteFails, ReceiveStep,
                ReceiveWaits, ReceiveFails, ReceivePacket, R!ReceiveFails,
                R!ReceiveBadPacket, R!ReceiveUnknown, R!ReceiveResponse, NotReceiving
        <3>5. QED
            BY <3>1, <3>2, <3>3, <3>4
    <2>7. QED
        BY <2>4, <2>5, <2>6
<1>2. PInv /\ [Next]_vars => [failed => Quiet]_vars
    BY <1>1
<1>3. QED
    BY <1>2, ServiceInv, PTL DEF Spec, QuietAfterFailure

-----------------------------------------------------------------------------
(* The refinement of the board of requests.                                *)

(* What the board says of a request, by the request's fate.                *)
StatusIs(h) ==
    /\ h >= nextKey => BoardState[h] = "new"
    /\ h < nextKey /\ fate[h] = << >> /\ h \in HandlersHeld =>
          BoardState[h] = "pending"
    /\ h < nextKey /\ fate[h] = << >> /\ h \notin HandlersHeld =>
          BoardState[h] = "abandoned"
    /\ h < nextKey /\ fate[h] = <<"succeeded">> => BoardState[h] = "succeeded"
    /\ h < nextKey /\ fate[h] = <<"failed">> => BoardState[h] = "failed"
    /\ h < nextKey /\ fate[h] = <<"removed">> => BoardState[h] = "withdrawn"

LEMMA OneOfSix ==
    ASSUME NEW p1 \in BOOLEAN, NEW p2 \in BOOLEAN, NEW p3 \in BOOLEAN,
           NEW p4 \in BOOLEAN, NEW p5 \in BOOLEAN, NEW p6 \in BOOLEAN,
           NEW v1, NEW v2, NEW v3, NEW v4, NEW v5, NEW v6, NEW b,
           b = CASE p1 -> v1 [] p2 -> v2 [] p3 -> v3 [] p4 -> v4 [] p5 -> v5 [] p6 -> v6
    PROVE  /\ p1 /\ ~p2 /\ ~p3 /\ ~p4 /\ ~p5 /\ ~p6 => b = v1
           /\ ~p1 /\ p2 /\ ~p3 /\ ~p4 /\ ~p5 /\ ~p6 => b = v2
           /\ ~p1 /\ ~p2 /\ p3 /\ ~p4 /\ ~p5 /\ ~p6 => b = v3
           /\ ~p1 /\ ~p2 /\ ~p3 /\ p4 /\ ~p5 /\ ~p6 => b = v4
           /\ ~p1 /\ ~p2 /\ ~p3 /\ ~p4 /\ p5 /\ ~p6 => b = v5
BY Zenon

LEMMA StatusKnown ==
    ASSUME nextKey \in Nat, NEW h \in Handlers, h >= nextKey => fate[h] = << >>
    PROVE  StatusIs(h)
<1> DEFINE f  == fate[h]
           p1 == h >= nextKey
           p2 == h < nextKey /\ f = << >>
           p3 == f = <<"succeeded">>
           p4 == f = <<"failed">>
           p5 == f = <<"removed">>
           p6 == Len(f) > 1
           v2 == IF h \in HandlersHeld THEN "pending" ELSE "abandoned"
           b  == BoardState[h]
<1>1. b = CASE p1 -> "new" [] p2 -> v2 [] p3 -> "succeeded" [] p4 -> "failed"
            [] p5 -> "withdrawn" [] p6 -> "settled twice"
    BY DEF BoardState
<1>2. /\ p1 \in BOOLEAN /\ p2 \in BOOLEAN /\ p3 \in BOOLEAN
      /\ p4 \in BOOLEAN /\ p5 \in BOOLEAN /\ p6 \in BOOLEAN
    OBVIOUS
<1>3. /\ Len(<<"succeeded">>) = 1 /\ Len(<<"failed">>) = 1 /\ Len(<<"removed">>) = 1
      /\ Len(<< >>) = 0
    OBVIOUS
<1>4. /\ << >> # <<"succeeded">> /\ << >> # <<"failed">> /\ << >> # <<"removed">>
      /\ <<"succeeded">> # <<"failed">> /\ <<"succeeded">> # <<"removed">>
      /\ <<"failed">> # <<"removed">>
    OBVIOUS
<1>5. h \in Nat /\ (p1 <=> ~(h < nextKey))
    BY DEF Handlers
<1>6. /\ p1 => ~p2 /\ ~p3 /\ ~p4 /\ ~p5 /\ ~p6
      /\ p2 => ~p1 /\ ~p3 /\ ~p4 /\ ~p5 /\ ~p6
      /\ h < nextKey /\ p3 => ~p1 /\ ~p2 /\ ~p4 /\ ~p5 /\ ~p6
      /\ h < nextKey /\ p4 => ~p1 /\ ~p2 /\ ~p3 /\ ~p5 /\ ~p6
      /\ h < nextKey /\ p5 => ~p1 /\ ~p2 /\ ~p3 /\ ~p4 /\ ~p6
    <2>1. p1 => f = << >>
        OBVIOUS
    <2>2. p6 => ~p3 /\ ~p4 /\ ~p5 /\ f # << >>
        <3>1. ~(1 > 1) /\ ~(0 > 1)
            OBVIOUS
        <3>2. QED
            BY <1>3, <3>1, Zenon
    <2>3. p3 => ~p4 /\ ~p5 /\ f # << >>
        BY <1>4
    <2>4. p4 => ~p5 /\ f # << >>
        BY <1>4
    <2>5. p5 => f # << >>
        BY <1>4
    <2>6. (p2 => f = << >>) /\ (p2 <=> h < nextKey /\ f = << >>)
        OBVIOUS
    <2> HIDE DEF p1, p2, p3, p4, p5, p6, f
    <2>7. QED
        BY <1>5, <2>1, <2>2, <2>3, <2>4, <2>5, <2>6
<1> HIDE DEF p1, p2, p3, p4, p5, p6, v2, b
<1>7. /\ p1 => b = "new"
      /\ p2 => b = v2
      /\ h < nextKey /\ p3 => b = "succeeded"
      /\ h < nextKey /\ p4 => b = "failed"
      /\ h < nextKey /\ p5 => b = "withdrawn"
    <2>1. /\ p1 /\ ~p2 /\ ~p3 /\ ~p4 /\ ~p5 /\ ~p6 => b = "new"
          /\ ~p1 /\ p2 /\ ~p3 /\ ~p4 /\ ~p5 /\ ~p6 => b = v2
          /\ ~p1 /\ ~p2 /\ p3 /\ ~p4 /\ ~p5 /\ ~p6 => b = "succeeded"
          /\ ~p1 /\ ~p2 /\ ~p3 /\ p4 /\ ~p5 /\ ~p6 => b = "failed"
          /\ ~p1 /\ ~p2 /\ ~p3 /\ ~p4 /\ p5 /\ ~p6 => b = "withdrawn"
        BY <1>1, <1>2, OneOfSix, Zenon
    <2>2. QED
        BY <1>6, <2>1
<1>8. QED
    BY <1>7 DEF StatusIs, p1, p2, p3, p4, p5, v2, b

(* A request has no fate or one of three.                                  *)
LEMMA FateIs ==
    ASSUME PInv, NEW h \in Handlers
    PROVE  fate[h] \in {<< >>, <<"succeeded">>, <<"failed">>, <<"removed">>}
<1>1. appFate[h] = fate[h] /\ appFate[h] \in Seq(SP!SendFates) /\ Len(appFate[h]) <= 1
    BY DEF PInv, SP!SInv, SP!SenderTypeOK, SP!CalledOnce, appFate
<1>2. ASSUME NEW s \in Seq(SP!SendFates), Len(s) <= 1, s # << >>
      PROVE  s \in {<<"succeeded">>, <<"failed">>, <<"removed">>}
    <2>1. Len(s) \in Nat \ {0} /\ Len(s) <= 1
        BY <1>2, EmptySeq
    <2>2. Len(s) = 1
        <3> DEFINE n == Len(s)
        <3>1. n \in Nat \ {0} /\ n <= 1
            BY <2>1
        <3> HIDE DEF n
        <3>2. n = 1
            BY <3>1
        <3>3. QED
            BY <3>2 DEF n
    <2>3. s[1] \in SP!SendFates
        BY <2>2
    <2>4. s = <<s[1]>>
        BY <2>2
    <2>5. QED
        BY <2>3, <2>4 DEF SP!SendFates
<1>3. QED
    BY <1>1, <1>2

LEMMA StatusAlways ==
    \A h \in Handlers :
        (nextKey \in Nat /\ (h >= nextKey => fate[h] = << >>) => StatusIs(h))'
<1>1. \A h \in Handlers :
        nextKey \in Nat /\ (h >= nextKey => fate[h] = << >>) => StatusIs(h)
    BY StatusKnown
<1>2. (\A h \in Handlers :
        nextKey \in Nat /\ (h >= nextKey => fate[h] = << >>) => StatusIs(h))'
    BY <1>1, PTL
<1>3. QED
    BY <1>2

(* What the board says now and after the step.                             *)
LEMMA Statuses ==
    ASSUME PInv, PInv', NEW h \in Handlers
    PROVE  /\ nextKey \in Nat /\ nextKey' \in Nat /\ h \in Nat
           /\ StatusIs(h) /\ StatusIs(h)'
           /\ fate[h] \in {<< >>, <<"succeeded">>, <<"failed">>, <<"removed">>}
<1>1. nextKey \in Nat /\ nextKey' \in Nat /\ h \in Nat
    BY DEF PInv, Numbered, Handlers
<1>2. StatusIs(h)
    BY <1>1, StatusKnown DEF PInv, Ledger
<1>3. (nextKey \in Nat /\ (h >= nextKey => fate[h] = << >>) => StatusIs(h))'
    BY StatusAlways
<1>4. QED
    BY <1>1, <1>2, <1>3, FateIs DEF PInv, Ledger

(* A request to which nothing happens keeps its place on the board.        *)
LEMMA SameStatus ==
    ASSUME PInv, PInv', NEW h \in Handlers, Same(h), h < nextKey <=> h < nextKey'
    PROVE  BoardState'[h] = BoardState[h]
BY Statuses DEF Same, StatusIs

(* Functions that differ at one place, and functions that do not differ.   *)
LEMMA ChangedAt ==
    ASSUME NEW D, NEW f, NEW g, f = [x \in D |-> f[x]], g = [x \in D |-> g[x]],
           NEW h \in D, NEW to, \A x \in D \ {h} : g[x] = f[x], g[h] = to
    PROVE  g = [f EXCEPT ![h] = to]
OBVIOUS

LEMMA Unchanged ==
    ASSUME NEW D, NEW f, NEW g, f = [x \in D |-> f[x]], g = [x \in D |-> g[x]],
           \A x \in D : g[x] = f[x]
    PROVE  g = f
OBVIOUS

(* The board is a function, now and after the step.                        *)
LEMMA BoardIs == BoardState = [g \in Handlers |-> BoardState[g]]
<1> DEFINE W(h) == CASE h >= nextKey -> "new"
                     [] h < nextKey /\ fate[h] = << >> ->
                            IF h \in HandlersHeld THEN "pending" ELSE "abandoned"
                     [] fate[h] = <<"succeeded">> -> "succeeded"
                     [] fate[h] = <<"failed">>    -> "failed"
                     [] fate[h] = <<"removed">>   -> "withdrawn"
                     [] Len(fate[h]) > 1          -> "settled twice"
<1>1. BoardState = [h \in Handlers |-> W(h)]
    BY DEF BoardState
<1> HIDE DEF W
<1>2. QED
    BY <1>1

LEMMA BoardIsNext == BoardState' = [g \in Handlers |-> BoardState'[g]]
<1>1. (BoardState = [g \in Handlers |-> BoardState[g]])'
    BY BoardIs, PTL
<1>2. QED
    BY <1>1

(* When everybody else stays, the board changes at one request.            *)
LEMMA BoardChanges ==
    ASSUME NEW h \in Handlers, NEW to,
           \A g \in Handlers \ {h} : BoardState'[g] = BoardState[g],
           BoardState'[h] = to
    PROVE  BoardState' = [BoardState EXCEPT ![h] = to]
<1> DEFINE a == BoardState
           b == BoardState'
<1>1. a = [g \in Handlers |-> a[g]] /\ b = [g \in Handlers |-> b[g]]
    BY BoardIs, BoardIsNext
<1>2. (\A g \in Handlers \ {h} : b[g] = a[g]) /\ b[h] = to
    OBVIOUS
<1> HIDE DEF a, b
<1>3. b = [a EXCEPT ![h] = to]
    BY <1>1, <1>2, ChangedAt
<1>4. QED
    BY <1>3 DEF a, b

LEMMA BoardStays ==
    ASSUME \A g \in Handlers : BoardState'[g] = BoardState[g]
    PROVE  BoardState' = BoardState
<1> DEFINE a == BoardState
           b == BoardState'
<1>1. a = [g \in Handlers |-> a[g]] /\ b = [g \in Handlers |-> b[g]]
    BY BoardIs, BoardIsNext
<1>2. \A g \in Handlers : b[g] = a[g]
    OBVIOUS
<1> HIDE DEF a, b
<1>3. b = a
    BY <1>1, <1>2, Unchanged
<1>4. QED
    BY <1>3 DEF a, b

(* What the board says of the connection.                                  *)
LEMMA OneOfThree ==
    ASSUME NEW p1 \in BOOLEAN, NEW p2 \in BOOLEAN, NEW p3 \in BOOLEAN,
           NEW v1, NEW v2, NEW v3, NEW b,
           b = CASE p1 -> v1 [] p2 -> v2 [] p3 -> v3
    PROVE  /\ p1 /\ ~p2 /\ ~p3 => b = v1
           /\ ~p1 /\ p2 /\ ~p3 => b = v2
           /\ ~p1 /\ ~p2 /\ p3 => b = v3
BY Zenon

LinkIs ==
    /\ runpc = "closed" => BoardLink = "gone"
    /\ runpc = "closing" => BoardLink = "closing"
    /\ runpc \notin {"closed", "closing"} /\ failed => BoardLink = "failed"
    /\ runpc \notin {"closed", "closing"} /\ ~failed => BoardLink = "working"

LEMMA LinkKnown == LinkIs /\ LinkIs'
<1>1. LinkIs
    <2> DEFINE p1 == runpc = "closed"
               p2 == runpc = "closing"
               p3 == runpc \notin {"closed", "closing"}
               v3 == IF failed THEN "failed" ELSE "working"
               b  == BoardLink
    <2>1. b = CASE p1 -> "gone" [] p2 -> "closing" [] p3 -> v3
        BY DEF BoardLink
    <2>2. /\ p1 \in BOOLEAN /\ p2 \in BOOLEAN /\ p3 \in BOOLEAN
          /\ p1 => ~p2 /\ ~p3
          /\ p2 => ~p1 /\ ~p3
          /\ p3 <=> ~p1 /\ ~p2
        OBVIOUS
    <2> HIDE DEF p1, p2, p3, v3, b
    <2>3. /\ p1 /\ ~p2 /\ ~p3 => b = "gone"
          /\ ~p1 /\ p2 /\ ~p3 => b = "closing"
          /\ ~p1 /\ ~p2 /\ p3 => b = v3
        BY <2>1, <2>2, OneOfThree, Zenon
    <2>4. (p1 => b = "gone") /\ (p2 => b = "closing") /\ (p3 => b = v3)
        BY <2>2, <2>3
    <2>5. QED
        BY <2>4 DEF LinkIs, p1, p2, p3, v3, b
<1>2. QED
    BY <1>1, PTL

(* A step that does nothing to the requests.                               *)
LEMMA BoardStill ==
    ASSUME PInv, PInv', Still
    PROVE  BoardState' = BoardState
BY SameStatus, BoardStays DEF Still

(* A step that does something to one.                                      *)
LEMMA BoardSettles ==
    ASSUME PInv, PInv', NEW h \in Handlers, NEW what \in SP!SendFates, Settles(h, what)
    PROVE  /\ BoardState[h] = "pending"
           /\ BoardState' = [BoardState EXCEPT
                ![h] = IF what = "removed" THEN "withdrawn" ELSE what]
<1>1. StatusIs(h) /\ StatusIs(h)' /\ h < nextKey /\ nextKey' = nextKey
    BY Statuses DEF Settles
<1>2. BoardState[h] = "pending"
    BY <1>1 DEF Settles, StatusIs
<1>3. what \in {"succeeded", "failed", "removed"}
    BY DEF SP!SendFates
<1>4. BoardState'[h] = IF what = "removed" THEN "withdrawn" ELSE what
    BY <1>1, <1>3 DEF Settles, StatusIs
<1>5. \A g \in Handlers \ {h} : BoardState'[g] = BoardState[g]
    BY SameStatus DEF Settles
<1>6. QED
    BY <1>2, <1>4, <1>5, BoardChanges

LEMMA BoardGrows ==
    ASSUME PInv, PInv', Admits \/ Rejects
    PROVE  /\ nextKey \in Handlers /\ BoardState[nextKey] = "new"
           /\ BoardState' = [BoardState EXCEPT
                ![nextKey] = IF Admits THEN "pending" ELSE "failed"]
<1>1. nextKey \in Handlers /\ nextKey' = nextKey + 1
    BY DEF Admits, Rejects
<1>2. /\ StatusIs(nextKey) /\ nextKey \in Nat /\ nextKey < nextKey'
    BY <1>1, Statuses
<1> DEFINE n == nextKey
<1>3. BoardState[n] = "new"
    BY <1>2 DEF StatusIs
<1>4. BoardState'[n] = IF Admits THEN "pending" ELSE "failed"
    <2>1. \A h \in Handlers : StatusIs(h)'
        BY Statuses
    <2>2. \A h \in Handlers : h < nextKey' /\ fate'[h] = << >> /\ h \in HandlersHeld' =>
             BoardState'[h] = "pending"
        BY <2>1 DEF StatusIs
    <2>3. \A h \in Handlers : h < nextKey' /\ fate'[h] = <<"failed">> =>
             BoardState'[h] = "failed"
        BY <2>1 DEF StatusIs
    <2>4. <<"failed">> # << >>
        OBVIOUS
    <2>5. QED
        BY <1>1, <1>2, <2>2, <2>3, <2>4 DEF Admits, Rejects
<1>5. ASSUME NEW g \in Handlers \ {n} PROVE BoardState'[g] = BoardState[g]
    <2>1. Same(g)
        BY DEF Admits, Rejects
    <2>2. g < nextKey <=> g < nextKey'
        BY <1>1, <1>2 DEF Handlers
    <2>3. QED
        BY <2>1, <2>2, SameStatus
<1>6. QED
    BY <1>1, <1>3, <1>4, <1>5, BoardChanges

LEMMA BoardLoses ==
    ASSUME PInv, PInv', NEW h \in Handlers, Loses(h)
    PROVE  /\ BoardState[h] = "pending"
           /\ BoardState' = [BoardState EXCEPT ![h] = "abandoned"]
<1>1. StatusIs(h) /\ StatusIs(h)' /\ h < nextKey /\ nextKey' = nextKey
    BY Statuses DEF Loses
<1>2. BoardState[h] = "pending" /\ BoardState'[h] = "abandoned"
    BY <1>1 DEF Loses, StatusIs
<1>3. \A g \in Handlers \ {h} : BoardState'[g] = BoardState[g]
    BY SameStatus DEF Loses
<1>4. QED
    BY <1>2, <1>3, BoardChanges

(* Before the members of the sender go, nobody has been lost.              *)
LEMMA NoneAbandoned ==
    ASSUME PInv, sphase # "closed", NEW h \in Handlers
    PROVE  BoardState[h] # "abandoned"
<1>1. Abandoned = {}
    BY DEF PInv, Ledger
<1>2. h < nextKey /\ fate[h] = << >> => h \in HandlersHeld
    BY <1>1, AbandonedIs DEF PInv, Numbered
<1>3. StatusIs(h) /\ h \in Nat /\ nextKey \in Nat
    BY StatusKnown DEF PInv, Ledger, Numbered, Handlers
<1>4. fate[h] \in {<< >>, <<"succeeded">>, <<"failed">>, <<"removed">>}
    BY FateIs
<1>5. QED
    BY <1>2, <1>3, <1>4 DEF StatusIs

(* When both halves are gone, nobody waits.                                *)
LEMMA NonePending ==
    ASSUME PInv, phase = "closed", rpc = "out", NEW h \in Handlers
    PROVE  BoardState[h] # "pending"
<1>1. queue = << >> /\ writing = NoHandler /\ DOMAIN map = {}
    BY DEF PInv, Control
<1>2. ~InQueue(h) /\ h # writing /\ ~InMap(h)
    BY <1>1, LiveFacts, Constants DEF InQueue, InMap, SConstants
<1>3. h \notin HandlersHeld
    BY <1>2, HeldIs DEF PInv
<1>4. StatusIs(h) /\ h \in Nat /\ nextKey \in Nat
    BY StatusKnown DEF PInv, Ledger, Numbered, Handlers
<1>5. fate[h] \in {<< >>, <<"succeeded">>, <<"failed">>, <<"removed">>}
    BY FateIs
<1>6. QED
    BY <1>3, <1>4, <1>5 DEF StatusIs

(* Every step of the connection is one of the board, or none.              *)
LEMMA BoardStep ==
    ASSUME PInv, PInv', Effect
    PROVE  [Board!BoardNext]_Board!boardVars
<1>1. CASE Still /\ SameLink
    <2>1. BoardLink' = BoardLink
        BY <1>1, LinkKnown DEF SameLink, LinkIs, PInv, Control
    <2>2. QED
        BY <1>1, <2>1, BoardStill DEF Board!boardVars
<1>2. CASE Still /\ Breaks
    <2>1. BoardLink = "working" /\ BoardLink' = "failed"
        BY <1>2, LinkKnown DEF Breaks, LinkIs
    <2>2. Board!Break
        BY <1>2, <2>1, BoardStill DEF Board!Break
    <2>3. QED
        BY <2>2 DEF Board!BoardNext
<1>3. CASE Still /\ Closes
    <2>1. BoardLink \in {"working", "failed"} /\ BoardLink' = "closing"
        BY <1>3, LinkKnown DEF Closes, LinkIs
    <2>2. Board!BeginClose
        BY <1>3, <2>1, BoardStill DEF Board!BeginClose
    <2>3. QED
        BY <2>2 DEF Board!BoardNext
<1>4. CASE Still /\ Ends
    <2>1. BoardLink = "closing" /\ BoardLink' = "gone"
        BY <1>4, LinkKnown DEF Ends, LinkIs
    <2>2. \A h \in Handlers : BoardState[h] # "pending"
        BY <1>4, NonePending DEF Ends
    <2>3. Board!EndClose
        BY <1>4, <2>1, <2>2, BoardStill DEF Board!EndClose
    <2>4. QED
        BY <2>3 DEF Board!BoardNext
<1>5. ASSUME SameLink, ~failed, Usable, NEW h \in Handlers, Settles(h, "succeeded")
      PROVE  Board!BoardNext
    <2>1. BoardLink = "working" /\ BoardLink' = BoardLink
        BY <1>5, LinkKnown DEF SameLink, LinkIs, Usable
    <2>2. /\ BoardState[h] = "pending"
          /\ BoardState' = [BoardState EXCEPT ![h] = "succeeded"]
        BY <1>5, BoardSettles DEF SP!SendFates
    <2>3. Board!Succeed(h)
        BY <2>1, <2>2 DEF Board!Succeed, Board!Become
    <2>4. QED
        BY <2>3 DEF Board!BoardNext
<1>6. ASSUME SameLink, runpc # "closed", NEW h \in Handlers, Settles(h, "failed")
      PROVE  Board!BoardNext
    <2>1. BoardLink # "gone" /\ BoardLink' = BoardLink
        BY <1>6, LinkKnown DEF SameLink, LinkIs, PInv, Control
    <2>2. /\ BoardState[h] = "pending"
          /\ BoardState' = [BoardState EXCEPT ![h] = "failed"]
        BY <1>6, BoardSettles DEF SP!SendFates
    <2>3. Board!Fail(h)
        BY <2>1, <2>2 DEF Board!Fail, Board!Become
    <2>4. QED
        BY <2>3 DEF Board!BoardNext
<1>7. ASSUME SameLink, Usable, NEW h \in Handlers, Settles(h, "removed")
      PROVE  Board!BoardNext
    <2>1. BoardLink \in {"working", "failed"} /\ BoardLink' = BoardLink
        BY <1>7, LinkKnown DEF SameLink, LinkIs, Usable, PInv, Control
    <2>2. /\ BoardState[h] = "pending"
          /\ BoardState' = [BoardState EXCEPT ![h] = "withdrawn"]
        BY <1>7, BoardSettles DEF SP!SendFates
    <2>3. Board!Withdraw(h)
        BY <2>1, <2>2 DEF Board!Withdraw, Board!Become
    <2>4. QED
        BY <2>3 DEF Board!BoardNext
<1>8. CASE SameLink /\ ~failed /\ Usable /\ Admits
    <2>1. BoardLink = "working" /\ BoardLink' = BoardLink
        BY <1>8, LinkKnown DEF SameLink, LinkIs, Usable
    <2>2. /\ nextKey \in Handlers /\ BoardState[nextKey] = "new"
          /\ BoardState' = [BoardState EXCEPT ![nextKey] = "pending"]
        BY <1>8, BoardGrows
    <2>3. Board!SubmitRequest(nextKey)
        BY <2>1, <2>2 DEF Board!SubmitRequest, Board!Become
    <2>4. QED
        BY <2>2, <2>3 DEF Board!BoardNext
<1>9. CASE SameLink /\ failed /\ Usable /\ Rejects
    <2>1. BoardLink = "failed" /\ BoardLink' = BoardLink
        BY <1>9, LinkKnown DEF SameLink, LinkIs, Usable
    <2>2. ~Admits
        <3>1. <<"failed">> # << >>
            OBVIOUS
        <3>2. QED
            BY <1>9, <3>1 DEF Admits, Rejects
    <2>3. /\ nextKey \in Handlers /\ BoardState[nextKey] = "new"
          /\ BoardState' = [BoardState EXCEPT ![nextKey] = "failed"]
        BY <1>9, <2>2, BoardGrows
    <2>4. Board!SubmitRequest(nextKey)
        BY <2>1, <2>3 DEF Board!SubmitRequest, Board!Become
    <2>5. QED
        BY <2>3, <2>4 DEF Board!BoardNext
<1>10. ASSUME SameLink, runpc = "closing", sphase = "closing", NEW h \in Handlers, Loses(h)
       PROVE  Board!BoardNext
    <2>1. BoardLink = "closing" /\ BoardLink' = BoardLink
        BY <1>10, LinkKnown DEF SameLink, LinkIs
    <2>2. /\ BoardState[h] = "pending"
          /\ BoardState' = [BoardState EXCEPT ![h] = "abandoned"]
        BY <1>10, BoardLoses
    <2>3. \A q \in Handlers : BoardState[q] # "abandoned"
        BY <1>10, NoneAbandoned
    <2>4. Board!Abandon(h)
        BY <2>1, <2>2, <2>3 DEF Board!Abandon, Board!Become
    <2>5. QED
        BY <2>4 DEF Board!BoardNext
<1>11. QED
    BY <1>1, <1>2, <1>3, <1>4, <1>5, <1>6, <1>7, <1>8, <1>9, <1>10 DEF Effect

(* The connection implements the board of requests: whatever the socket,   *)
(* the drive and the application do, a request is settled at most once,    *)
(* succeeds only while the connection works, is pending until it is        *)
(* settled, and at most one is abandoned, by the destructor.               *)
THEOREM ServiceImplementsBoard == Spec => ImplementsBoard
<1>1. Init => Board!BoardInit
    <2> SUFFICES ASSUME Init PROVE Board!BoardInit
        OBVIOUS
    <2>1. nextKey = 0 /\ runpc = "out" /\ failed = FALSE
        BY DEF Init
    <2>2. BoardLink = "working"
        BY <2>1, LinkKnown DEF LinkIs
    <2>3. \A h \in Handlers : StatusIs(h) /\ h \in Nat
        BY <2>1, ServiceInit, StatusKnown DEF PInv, Ledger, Handlers
    <2>4. \A h \in Handlers : BoardState[h] = "new"
        BY <2>1, <2>3 DEF StatusIs
    <2>5. BoardState = [h \in Handlers |-> "new"]
        <3> DEFINE a == BoardState
        <3>1. a = [g \in Handlers |-> a[g]] /\ \A h \in Handlers : a[h] = "new"
            BY <2>4, BoardIs
        <3> HIDE DEF a
        <3>2. a = [h \in Handlers |-> "new"]
            BY <3>1
        <3>3. QED
            BY <3>2 DEF a
    <2>6. QED
        BY <2>2, <2>5 DEF Board!BoardInit
<1>2. PInv /\ PInv' /\ [Next]_vars => [Board!BoardNext]_Board!boardVars
    BY ServiceNext, ServiceStutters, BoardStep
<1>3. QED
    BY <1>1, <1>2, ServiceInv, PTL DEF Spec, ImplementsBoard, Board!BoardSpec
=============================================================================
