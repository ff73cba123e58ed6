---------------------- MODULE BlockingConnectionProofs ----------------------
(***************************************************************************)
(* Theorems about BlockingConnection, for any number of operations and     *)
(* faults.                                                                 *)
(*                                                                         *)
(* A step of the caller's thread is a step of the connection, or leaves it *)
(* alone, so that the connection's invariant PInv comes from its proofs.   *)
(* Two things are added: where RunOperation stands, and why a callback may *)
(* report an error.  As long as the drive sends nothing damaged, a request *)
(* fails only because the drive refused it or because Run is about to      *)
(* return false -- and RunOperation does not look at done_ after that.     *)
(***************************************************************************)
EXTENDS BlockingConnection, PacketServiceProofs

-----------------------------------------------------------------------------
(* Why a callback reports an error.                                        *)

(* The drive refused request h.                                            *)
Refused(h) == h \in DOMAIN answers /\ answers[h] = "failed"

(* The connection has failed, or the Run that is active will return false. *)
Breaking ==
    \/ failed
    \/ runpc = "send" /\ (sstatus = "kError" \/ spc \in {"failed", "draining", "drained"})
    \/ runpc = "receive" /\ status = "kError"

(* What an undamaged drive sends: greetings and its answers.               *)
Sound(p) ==
    /\ p.hmac # "invalid" /\ p.parses
    /\ \/ p.unsolicited
       \/ p.ack \in DOMAIN answers /\ (~p.success => answers[p.ack] = "failed")

Undamaged ==
    faults = 0 =>
        /\ \A i \in 1 .. Len(inbox) : Sound(inbox[i])
        /\ rpc \in {"failing", "erroring"} => failed \/ status = "kError"

(* Send and Receive are not called again after an error.                   *)
Alive ==
    /\ rpc \in {"reading", "handling"} => status # "kError"
    /\ spc = "sending" => sstatus # "kError"

(* A step gives request h no fate that it should not have.                 *)
Candid(h) ==
    \/ fate'[h] = fate[h] \/ fate'[h] = <<"succeeded">>
    \/ faults' > 0 \/ Refused(h)' \/ Breaking'

Forward ==
    /\ Undamaged' /\ Alive'
    /\ Breaking => Breaking'
    /\ faults = faults' \/ faults' > 0
    /\ \A q \in DOMAIN answers : q \in DOMAIN answers' /\ answers'[q] = answers[q]
    /\ \A h \in Handlers : Candid(h)

(* The client reads what is there, or not, and the drive does nothing.     *)
LEMMA ClientForward ==
    ASSUME PInv, Undamaged, UNCHANGED <<faults, answers>>,
           inbox' = inbox \/ (inbox # << >> /\ inbox' = Tail(inbox)),
           Alive', Breaking => Breaking',
           faults = 0 /\ rpc' \in {"failing", "erroring"} => failed' \/ status' = "kError",
           \A h \in Handlers : Candid(h)
    PROVE  Forward
<1>1. \A x : Sound(x) => Sound(x)'
    BY DEF Sound
<1>2. \A i \in 1 .. Len(inbox') : \E j \in 1 .. Len(inbox) : inbox'[i] = inbox[j]
    <2>1. inbox \in Seq(RP!Packets \cup {Garbage})
        BY DEF PInv, DriveKnown, Believed
    <2>2. CASE inbox' = inbox
        BY <2>2
    <2>3. CASE inbox # << >> /\ inbox' = Tail(inbox)
        <3>1. /\ Len(inbox) \in Nat /\ Len(inbox) > 0 /\ Len(inbox') = Len(inbox) - 1
              /\ \A i \in 1 .. Len(inbox') : inbox'[i] = inbox[i + 1]
            BY <2>1, <2>3, SP!TailFacts, Constants DEF SConstants
        <3>2. QED
            BY <3>1
    <2>4. QED
        BY <2>2, <2>3
<1>3. ASSUME faults = 0, NEW i \in 1 .. Len(inbox'), NEW x, x = inbox'[i]
      PROVE  Sound(x)'
    <2>1. PICK j \in 1 .. Len(inbox) : x = inbox[j]
        BY <1>2, <1>3
    <2>2. Sound(inbox[j])
        BY <1>3 DEF Undamaged
    <2>3. QED
        BY <1>1, <2>1, <2>2
<1>4. faults = 0 => \A i \in 1 .. Len(inbox') : Sound(inbox[i])'
    BY <1>3
<1>5. Undamaged'
    BY <1>4 DEF Undamaged
<1>6. QED
    BY <1>5 DEF Forward

(* The client's steps outside Send and Receive.                            *)
LEMMA CallForward ==
    ASSUME PInv, Undamaged, Alive,
           Run \/ RunAfterSend \/ RunAfterReceive \/ Close \/ Closed
    PROVE  Forward
<1> USE DEF Breaking, Candid, Alive
<1>1. /\ UNCHANGED <<faults, answers, inbox, fate>>
    BY DEF Run, RunAfterSend, RunAfterReceive, Close, Closed, envVars, S!CallSend,
        S!DestroySender, R!CallReceive, CleanUp
<1>2. \A h \in Handlers : Candid(h)
    BY <1>1
<1>3. CASE Run
    BY <1>1, <1>2, <1>3, ClientForward
    DEF Run, Outside, S!CallSend, rcvVars, Undamaged
<1>4. CASE RunAfterSend
    <2>1. rpc = "out" /\ ~failed
        BY <1>4 DEF RunAfterSend, PInv, Control, RP!IInv, RP!TypeOK
    <2>2. QED
        BY <1>1, <1>2, <1>4, <2>1, ClientForward
        DEF RunAfterSend, CleanUp, R!CallReceive, rcvVars, sndVars
<1>5. CASE RunAfterReceive
    BY <1>1, <1>2, <1>5, ClientForward DEF RunAfterReceive, CleanUp, rcvVars, sndVars
<1>6. CASE Close
    BY <1>1, <1>2, <1>6, ClientForward DEF Close, CleanUp, S!DestroySender, rcvVars
<1>7. CASE Closed
    <2>1. failed
        BY <1>7 DEF Closed, PInv, Control
    <2>2. QED
        BY <1>1, <1>2, <1>7, <2>1, ClientForward DEF Closed, rcvVars, sndVars
<1>8. QED
    BY <1>3, <1>4, <1>5, <1>6, <1>7

(* The steps of Send.                                                      *)
LEMMA SendForward ==
    ASSUME PInv, PInv', Undamaged, Alive, SendStep \/ WriteWaits \/ WriteFails \/ WriteDone
    PROVE  Forward
<1> USE DEF Breaking, Candid, Alive
<1>1. UNCHANGED <<failed, runpc, faults, answers, inbox>>
    BY DEF SendStep, WriteWaits, WriteFails, WriteDone, NotReceiving, svcVars, envVars
<1>2. SendStep \/ WriteWaits \/ WriteFails => UNCHANGED <<rpc, status>>
    BY DEF SendStep, WriteWaits, WriteFails, NotReceiving, rcvVars
<1>3. ASSUME S!SendIdle \/ S!TakeRequest \/ S!FailedReturns \/ S!DrainedReturns
             \/ S!DrainEnds \/ S!WriteWaits,
             UNCHANGED <<rpc, status>>
      PROVE  Forward
    <2>1. UNCHANGED fate /\ \A h \in Handlers : Candid(h)
        BY <1>3 DEF S!SendIdle, S!TakeRequest, S!FailedReturns, S!DrainedReturns,
            S!DrainEnds, S!WriteWaits
    <2>2. Alive' /\ (Breaking => Breaking')
        BY <1>1, <1>3
        DEF S!SendIdle, S!TakeRequest, S!FailedReturns, S!DrainedReturns,
            S!DrainEnds, S!WriteWaits, S!SendReturns
    <2>3. QED
        BY <1>1, <1>3, <2>1, <2>2, ClientForward DEF Undamaged
<1>4. ASSUME S!DrainOne \/ S!MembersDestroyed \/ S!WriteFails, UNCHANGED <<rpc, status>>
      PROVE  Forward
    <2>1. spc # "out" /\ (S!MembersDestroyed => sphase = "closing")
          /\ (S!WriteFails => spc = "sending")
        BY <1>4 DEF S!DrainOne, S!MembersDestroyed, S!WriteFails
    <2>2. failed \/ runpc = "send"
        BY <2>1, SendingWhen DEF PInv, Control
    <2>3. S!MembersDestroyed => failed
        BY <2>1 DEF PInv, Control
    <2>4. Breaking' /\ Alive'
        BY <1>1, <1>4, <2>2, <2>3 DEF S!DrainOne, S!MembersDestroyed, S!WriteFails
    <2>5. QED
        BY <1>1, <1>4, <2>4, ClientForward DEF Undamaged
<1>5. CASE WriteDone
    <2>1. /\ UNCHANGED <<spc, sstatus, fate, rpc, status>>
        BY <1>1, <1>5, WriteDoneStep DEF WriteDone, svcVars, envVars
    <2>2. QED
        BY <1>1, <2>1, ClientForward DEF Undamaged
<1>6. QED
    BY <1>2, <1>3, <1>4, <1>5 DEF SendStep, WriteWaits, WriteFails

(* The steps of Receive, of the constructor's loop around it, and of the   *)
(* destructor.                                                             *)
LEMMA QuietReceiveForward ==
    ASSUME PInv, Undamaged, Alive, NotSending, UNCHANGED inbox,
           \/ R!ReceiveIdle \/ R!HandlerReturns \/ R!ErrorHandlerReturns
           \/ R!AllErrorHandlersCalled \/ R!HandshakeReceivesAgain
           \/ R!HandshakeSucceeds \/ R!HandshakeThrows \/ R!ReceiveWaits
    PROVE  Forward
<1> USE DEF Breaking, Candid, Alive
<1>1. UNCHANGED <<failed, runpc, faults, answers, spc, sstatus>>
    BY DEF NotSending, svcVars, sndVars
<1>2. UNCHANGED fate /\ \A h \in Handlers : Candid(h)
    BY DEF R!ReceiveIdle, R!HandlerReturns, R!ErrorHandlerReturns,
        R!AllErrorHandlersCalled, R!HandshakeReceivesAgain,
        R!HandshakeSucceeds, R!HandshakeThrows, R!ReceiveWaits
<1>3. /\ Alive' /\ (Breaking => Breaking')
      /\ rpc' \in {"failing", "erroring"} => rpc \in {"failing", "erroring"} /\ status' = status
    BY <1>1 DEF R!ReceiveIdle, R!HandlerReturns, R!ErrorHandlerReturns,
        R!AllErrorHandlersCalled, R!HandshakeReceivesAgain,
        R!HandshakeSucceeds, R!HandshakeThrows, R!ReceiveWaits, R!Return
<1>4. QED
    BY <1>1, <1>2, <1>3, ClientForward DEF Undamaged

LEMMA ErrorForward ==
    ASSUME PInv, Undamaged, Alive, NotSending, UNCHANGED inbox, NEW q \in R!AllSeqs,
           R!CallErrorHandler(q)
    PROVE  Forward
<1> USE DEF Breaking, Candid, Alive
<1>1. UNCHANGED <<failed, runpc, nextKey, faults, answers, spc, sstatus, sndVars>>
    BY DEF NotSending, svcVars, sndVars
<1>2. rpc = "failing" /\ rpc' = "erroring" /\ status' = status /\ phase' = phase
    BY DEF R!CallErrorHandler
<1>3. Still \/ (q \in Handlers /\ Settles(q, "failed"))
    BY <1>1, ErrorStep
<1>4. Alive' /\ (Breaking => Breaking')
    BY <1>1, <1>2
<1>5. ASSUME NEW h \in Handlers, fate'[h] # fate[h] PROVE Candid(h)
    <2>1. nextKey > 0 /\ nextKey \in Nat
        BY <1>3, <1>5 DEF Still, Settles, Same, PInv, Numbered, Handlers
    <2>2. phase # "handshake" /\ faults \in Nat
        BY <2>1 DEF PInv, Numbered, Control
    <2>3. failed \/ runpc = "receive"
        BY <1>2, <2>2, ReceivingWhen DEF PInv, Control
    <2>4. QED
        BY <1>1, <1>2, <2>2, <2>3 DEF Undamaged
<1>6. \A h \in Handlers : Candid(h)
    BY <1>5
<1>7. QED
    BY <1>1, <1>2, <1>4, <1>6, ClientForward DEF Undamaged

(* Everyone is called because of an error: this Run will return false,     *)
(* unless the drive sent something damaged.                                *)
LEMMA FailForward ==
    ASSUME PInv, Undamaged, Alive, UNCHANGED <<sndVars, failed, runpc, nextKey, faults, answers>>,
           inbox' = inbox \/ (inbox # << >> /\ inbox' = Tail(inbox)),
           NEW st, R!CallAllErrorHandlers(st),
           rpc = "reading" => st = "kError" \/ faults > 0,
           rpc # "reading" => failed /\ st = status,
           R!ReceiveFails \/ R!Destroy \/ \E p \in RP!Packets : R!ReceiveBadPacket(p)
    PROVE  Forward
<1> USE DEF Breaking, Candid, Alive
<1>1. rpc' = "failing" /\ status' = st /\ faults \in Nat /\ UNCHANGED <<spc, sstatus>>
    BY DEF R!CallAllErrorHandlers, PInv, Control, sndVars
<1>2. RP!IInv' /\ SP!SInv' /\ Still
    BY FailingStep
<1>3. \A h \in Handlers : Candid(h)
    BY <1>2 DEF Still, Same
<1>4. Alive' /\ (Breaking => Breaking')
    BY <1>1
<1>5. QED
    BY <1>1, <1>3, <1>4, ClientForward

(* A response calls one handler back: with an error only if the drive      *)
(* refused its request.                                                    *)
LEMMA ResponseForward ==
    ASSUME PInv, Undamaged, Alive, NotSending, inbox # << >>, inbox' = Tail(inbox),
           NEW p \in RP!Packets, faults = 0 => Sound(p), Believable(p),
           R!ReceiveUnknown(p) \/ R!ReceiveResponse(p)
    PROVE  Forward
<1> USE DEF Breaking, Candid, Alive
<1>1. UNCHANGED <<failed, runpc, nextKey, faults, answers, spc, sstatus, sndVars>>
    BY DEF NotSending, svcVars, sndVars
<1>2. /\ rpc = "reading" /\ rpc' \in {"reading", "handling"} /\ status' = status
      /\ faults \in Nat
    BY DEF R!ReceiveUnknown, R!ReceiveResponse, PInv, Control
<1>3. CASE R!ReceiveUnknown(p)
    <2>1. UNCHANGED fate
        BY <1>3 DEF R!ReceiveUnknown
    <2>2. \A h \in Handlers : Candid(h)
        BY <2>1
    <2>3. QED
        BY <1>1, <1>2, <2>2, ClientForward
<1>4. CASE R!ReceiveResponse(p)
    <2> DEFINE s == R!AckOf(p)
    <2>1. IF s = -1 THEN Still ELSE s \in Handlers /\ Settles(s, Outcome(p))
        BY <1>1, <1>4, ResponseStep
    <2>2. p.unsolicited => s = -1
        BY DEF R!AckOf, R!HandshakeSeq
    <2>3. ~p.unsolicited => s = p.ack
        BY DEF R!AckOf
    <2> HIDE DEF s
    <2>4. ASSUME NEW h \in Handlers, fate'[h] # fate[h], fate'[h] # <<"succeeded">>, faults = 0
          PROVE  Refused(h)'
        <3>1. s # -1 /\ h = s /\ fate'[h] = <<Outcome(p)>>
            BY <2>1, <2>4 DEF Still, Settles, Same
        <3>2. ~p.success /\ ~p.unsolicited
            BY <2>2, <2>4, <3>1 DEF Outcome
        <3>3. Refused(h)
            BY <2>3, <2>4, <3>1, <3>2 DEF Sound, Refused
        <3>4. QED
            BY <1>1, <3>3 DEF Refused
    <2>5. \A h \in Handlers : Candid(h)
        BY <1>1, <1>2, <2>4
    <2>6. QED
        BY <1>1, <1>2, <2>5, ClientForward
<1>5. QED
    BY <1>3, <1>4

LEMMA ReadForward ==
    ASSUME PInv, Undamaged, Alive,
           ReceiveStep \/ ReceiveWaits \/ ReceiveFails \/ ReceivePacket \/ ReceiverReleased
    PROVE  Forward
<1>1. faults \in Nat
    BY DEF PInv, Control
<1>2. NotSending => UNCHANGED <<sndVars, failed, runpc, nextKey, faults, answers>>
    BY DEF NotSending, svcVars
<1>3. CASE ReceiveStep \/ ReceiveWaits
    BY <1>3, QuietReceiveForward, ErrorForward DEF ReceiveStep, ReceiveWaits
<1>4. CASE ReceiveFails
    <2>1. rpc = "reading" /\ R!CallAllErrorHandlers("kError") /\ R!ReceiveFails
          /\ (inbox' = inbox \/ (inbox # << >> /\ inbox' = Tail(inbox))) /\ NotSending
        BY <1>4 DEF ReceiveFails, R!ReceiveFails
    <2>2. QED
        BY <1>2, <2>1, FailForward
<1>5. CASE ReceiverReleased
    <2>1. /\ rpc = "out" /\ R!CallAllErrorHandlers(status) /\ R!Destroy /\ failed
          /\ UNCHANGED <<sndVars, failed, runpc, nextKey, faults, answers, inbox>>
        BY <1>5 DEF ReceiverReleased, R!Destroy, R!Idle, svcVars, envVars, PInv, Control
    <2>2. QED
        BY <2>1, FailForward
<1>6. CASE ReceivePacket
    <2> DEFINE p == Head(inbox)
    <2>1. /\ inbox # << >> /\ Believable(p) /\ NotSending /\ inbox' = Tail(inbox)
          /\ R!ReceiveBadPacket(p) \/ R!ReceiveUnknown(p) \/ R!ReceiveResponse(p)
        BY <1>6, HeadBelievable DEF ReceivePacket
    <2>2. faults = 0 => Sound(p)
        <3>1. inbox \in Seq(RP!Packets \cup {Garbage})
            BY DEF PInv, DriveKnown, Believed
        <3>2. p = inbox[1] /\ 1 \in 1 .. Len(inbox)
            BY <2>1, <3>1, SP!TailFacts, Constants DEF SConstants
        <3>3. QED
            BY <3>2 DEF Undamaged
    <2> HIDE DEF p
    <2>3. p \in RP!Packets
        BY <2>1 DEF Believable
    <2>4. CASE R!ReceiveBadPacket(p)
        <3>1. PICK st : R!CallAllErrorHandlers(st) /\ rpc = "reading"
            BY <2>4 DEF R!ReceiveBadPacket
        <3>2. ~Sound(p)
            <4>1. p.unsolicited => R!AckOf(p) # NoAck
                BY MarkersOK DEF R!AckOf, R!HandshakeSeq
            <4>2. ~p.unsolicited /\ R!AckOf(p) = NoAck => p.ack \notin DOMAIN answers
                <5>1. DOMAIN answers \subseteq Nat
                    <6>1. \A i \in 1 .. Len(sent) : sent[i].seq \in Nat
                        BY SP!NumbersAreNumbers, Constants DEF SConstants, PInv, SP!SInv
                    <6>2. QED
                        BY <6>1 DEF SentSeqs, PInv, DriveKnown
                <5>2. QED
                    BY <5>1, MarkersOK DEF R!AckOf
            <4>3. QED
                BY <2>4, <4>1, <4>2 DEF R!ReceiveBadPacket, Sound
        <3>3. faults > 0
            BY <1>1, <2>2, <3>2
        <3>4. QED
            BY <1>2, <2>1, <2>3, <2>4, <3>1, <3>3, FailForward
    <2>5. QED
        BY <2>1, <2>2, <2>3, <2>4, ResponseForward
<1>7. QED
    BY <1>3, <1>4, <1>5, <1>6

(* The drive and the network change nothing for the client until it reads. *)
LEMMA DriveForward ==
    ASSUME PInv, Undamaged, Alive, DriveOnly,
           \A q \in DOMAIN answers : q \in DOMAIN answers' /\ answers'[q] = answers[q],
           \/ faults' > 0
           \/ faults' = faults /\ (faults = 0 => \A i \in 1 .. Len(inbox') : Sound(inbox[i])')
    PROVE  Forward
<1>1. UNCHANGED <<failed, runpc, rpc, status, spc, sstatus, fate>>
    BY DEF DriveOnly, rcvVars, svcVars, sndVars
<1>2. Alive' /\ (Breaking => Breaking') /\ \A h \in Handlers : Candid(h)
    BY <1>1 DEF Alive, Breaking, Candid
<1>3. Undamaged'
    BY <1>1 DEF Undamaged
<1>4. QED
    BY <1>2, <1>3 DEF Forward

LEMMA ArrivesSound ==
    ASSUME PInv, Undamaged, faults = 0, NEW p \in RP!Packets,
           Sound(p)', inbox' = Append(inbox, p),
           \A q \in DOMAIN answers : q \in DOMAIN answers' /\ answers'[q] = answers[q]
    PROVE  \A i \in 1 .. Len(inbox') : Sound(inbox[i])'
<1>1. inbox \in Seq(RP!Packets \cup {Garbage})
    BY DEF PInv, DriveKnown, Believed
<1>2. /\ Len(inbox) \in Nat /\ Len(inbox') = Len(inbox) + 1
      /\ inbox'[Len(inbox) + 1] = p /\ \A j \in 1 .. Len(inbox) : inbox'[j] = inbox[j]
    BY <1>1, SP!AppendFacts, Constants DEF SConstants
<1>3. \A x : Sound(x) => Sound(x)'
    BY DEF Sound
<1>4. ASSUME NEW i \in 1 .. Len(inbox'), NEW x, x = inbox'[i] PROVE Sound(x)'
    <2>1. CASE i = Len(inbox) + 1
        BY <1>2, <1>4, <2>1
    <2>2. CASE i \in 1 .. Len(inbox)
        <3>1. Sound(inbox[i]) /\ inbox[i] = x
            BY <1>2, <1>4, <2>2 DEF Undamaged
        <3>2. QED
            BY <1>3, <3>1
    <2>3. QED
        BY <1>2, <1>4, <2>1, <2>2
<1>5. QED
    BY <1>4

LEMMA EnvironmentForward ==
    ASSUME PInv, Undamaged, Alive,
           Greet \/ (\E q \in Seqs : Answer(q)) \/ Misbehave \/ Break
    PROVE  Forward
<1>1. CASE Greet
    <2>1. /\ DriveOnly /\ UNCHANGED <<answers, faults>> /\ inbox' = <<Greeting>>
        BY <1>1 DEF Greet
    <2>2. Sound(Greeting)'
        BY MarkersOK, PacketsThere DEF Sound, Greeting, Packet
    <2>3. \A i \in 1 .. Len(inbox') : i = 1 /\ inbox'[i] = Greeting
        BY <2>1
    <2>4. \A i \in 1 .. Len(inbox') : Sound(inbox[i])'
        BY <2>2, <2>3
    <2>5. QED
        BY <2>1, <2>4, DriveForward
<1>2. ASSUME NEW q \in Seqs, Answer(q) PROVE Forward
    <2>1. PICK ok \in BOOLEAN :
            /\ answers' = R!Put(answers, q, IF ok THEN "succeeded" ELSE "failed")
            /\ inbox' = Append(inbox, [Packet EXCEPT !.ack = q, !.success = ok])
        BY <1>2 DEF Answer
    <2>2. DriveOnly /\ UNCHANGED faults /\ q \notin DOMAIN answers
        BY <1>2 DEF Answer
    <2>3. /\ DOMAIN answers' = DOMAIN answers \cup {q}
          /\ answers'[q] = IF ok THEN "succeeded" ELSE "failed"
          /\ \A a \in DOMAIN answers : answers'[a] = answers[a]
        BY <2>1, <2>2 DEF R!Put
    <2> DEFINE p == [Packet EXCEPT !.ack = q, !.success = ok]
    <2>4. /\ p.ack = q /\ p.success = ok /\ p.unsolicited = FALSE
          /\ p.hmac # "invalid" /\ p.parses
        BY DEF Packet
    <2>5. p \in RP!Packets /\ inbox' = Append(inbox, p)
        BY <2>1, PacketsThere DEF R!AllSeqs
    <2> HIDE DEF p
    <2>6. faults = 0 => \A i \in 1 .. Len(inbox') : Sound(inbox[i])'
        BY <2>3, <2>4, <2>5, ArrivesSound DEF Sound
    <2>7. QED
        BY <2>2, <2>3, <2>6, DriveForward
<1>3. CASE Misbehave
    BY <1>3, DriveForward DEF Misbehave, PInv, Control
<1>4. CASE Break
    <2>1. /\ inbox' = inbox \/ inbox' = << >>
          /\ DriveOnly /\ UNCHANGED <<answers, faults>>
        BY <1>4 DEF Break
    <2>2. \A x : Sound(x) => Sound(x)'
        BY <2>1 DEF Sound
    <2>3. faults = 0 => \A i \in 1 .. Len(inbox') : Sound(inbox[i])'
        <3>1. ASSUME faults = 0, NEW i \in 1 .. Len(inbox'), NEW x, x = inbox'[i]
              PROVE  Sound(x)'
            <4>1. i \in 1 .. Len(inbox) /\ x = inbox[i]
                BY <2>1, <3>1
            <4>2. QED
                BY <2>2, <3>1, <4>1 DEF Undamaged
        <3>2. QED
            BY <3>1
    <2>4. QED
        BY <2>1, <2>3, DriveForward
<1>5. QED
    BY <1>1, <1>2, <1>3, <1>4

(* Removing and submitting requests.                                       *)
LEMMA AppForward ==
    ASSUME PInv, Undamaged, Alive, Submit \/ \E k \in Keys : Remove(k)
    PROVE  Undamaged' /\ Alive' /\ UNCHANGED <<faults, answers>>
<1>1. CASE Submit
    BY <1>1 DEF Submit, S!Enqueue, Undamaged, Alive, Sound, rcvVars, sndVars
<1>2. ASSUME NEW k \in Keys, Remove(k)
      PROVE  Undamaged' /\ Alive' /\ UNCHANGED <<faults, answers>>
    <2>1. /\ UNCHANGED <<failed, inbox, answers, faults, rpc, status, spc, sstatus>>
        BY <1>2 DEF Remove, S!RemoveQueued, R!Remove, rcvVars, sndVars, svcVars, envVars
    <2>2. QED
        BY <2>1 DEF Undamaged, Alive, Sound
<1>3. QED
    BY <1>1, <1>2

LEMMA NothingForward == PInv /\ Undamaged /\ Alive /\ UNCHANGED vars => Forward
<1> SUFFICES ASSUME PInv, Undamaged, Alive, UNCHANGED vars PROVE Forward
    OBVIOUS
<1>1. DriveOnly /\ UNCHANGED <<inbox, answers, faults>>
    BY DEF vars, DriveOnly, envVars
<1>2. faults = 0 => \A i \in 1 .. Len(inbox') : Sound(inbox[i])'
    BY <1>1 DEF Undamaged, Sound
<1>3. QED
    BY <1>1, <1>2, DriveForward

-----------------------------------------------------------------------------
(* The inductive invariant.                                                *)

(* Where RunOperation and the connection stand, and which operations have  *)
(* returned.                                                               *)
Typed ==
    /\ bpc \in {"idle", "submitted", "first run", "loop", "run"}
    /\ expired \in BOOLEAN
    /\ result \in [Handlers -> {"none", "ok", "error", "io error"}]

Placed ==
    /\ runpc \in {"send", "receive"} => bpc \in {"first run", "run"}
    /\ bpc = "loop" => ~failed
    /\ bpc # "idle" => nextKey > 0 /\ runpc \notin {"closing", "closed"}

Returned ==
    \A n \in Handlers : result[n] # "none" <=> n < nextKey /\ (n = Op => bpc = "idle")

Standing == Typed /\ Placed /\ Returned

(* RunOperation never takes the failure of the connection for the drive's  *)
(* refusal: the callback that reports it runs in a Run that returns false. *)
InTime ==
    bpc # "idle" /\ faults = 0 /\ fate[Op] \notin {<< >>, <<"succeeded">>} =>
        Refused(Op) \/ Breaking

BInv == Standing /\ Undamaged /\ Alive /\ InTime /\ ResultsMatch

Everything == <<blkVars, vars>>

LEMMA OpIs ==
    ASSUME PInv, nextKey > 0
    PROVE  Op \in Handlers /\ Op \in Submitted /\ Op < nextKey
BY SubmittedAreHandlers, ServiceConstantsOK
DEF PInv, Numbered, Op, Submitted, Handlers

LEMMA BlockingStart == BlockingInit => PInv /\ BInv
<1> SUFFICES ASSUME BlockingInit PROVE PInv /\ BInv
    OBVIOUS
<1>1. PInv
    BY ServiceInit DEF BlockingInit
<1>2. Undamaged /\ Alive
    BY DEF BlockingInit, Init, R!Init, S!SenderInit, Undamaged, Alive
<1>3. Standing
    <2>1. \A n \in Handlers : n \in Int /\ n >= 0
        BY DEF Handlers
    <2>2. /\ bpc = "idle" /\ expired = FALSE /\ runpc = "out" /\ nextKey = 0
          /\ \A n \in Handlers : result[n] = "none"
          /\ result \in [Handlers -> {"none", "ok", "error", "io error"}]
        BY DEF BlockingInit, Init
    <2>3. \A n \in Handlers : ~(n < nextKey)
        <3>1. nextKey = 0
            BY <2>2
        <3>2. QED
            BY <2>1, <3>1
    <2>4. Returned
        BY <2>2, <2>3 DEF Returned
    <2>5. QED
        BY <2>2, <2>4 DEF Standing, Typed, Placed
<1>4. InTime /\ ResultsMatch
    BY DEF BlockingInit, InTime, ResultsMatch
<1>5. QED
    BY <1>1, <1>2, <1>3, <1>4 DEF BInv

(* A step is one of the connection or leaves it alone.                     *)
LEMMA GiveUpSteps ==
    ASSUME PInv, nextKey > 0, GiveUp
    PROVE  UNCHANGED vars \/ \E k \in Keys : Remove(k)
BY OpIs DEF GiveUp, Keys

LEMMA BlockingSteps ==
    ASSUME PInv, Standing, [BlockingNext]_Everything
    PROVE  [Next]_vars
<1>1. CASE RunOperation \/ SelectFails
    <2>1. nextKey > 0
        BY <1>1 DEF RunOperation, FirstRun, RunFails, RunReturns, Done, SelectReturns,
            SelectTimesOut, SelectFails, Standing, Placed
    <2>2. Run \/ UNCHANGED vars \/ \E k \in Keys : Remove(k)
        BY <1>1, <2>1, GiveUpSteps
        DEF RunOperation, FirstRun, RunFails, RunReturns, Done, SelectReturns,
            SelectTimesOut, SelectFails
    <2>3. QED
        BY <2>2 DEF Next
<1>2. CASE ~(RunOperation \/ SelectFails)
    BY <1>2 DEF BlockingNext, Operation, DeadlinePasses, Next, Everything
<1>3. QED
    BY <1>1, <1>2

-----------------------------------------------------------------------------
(* The steps.                                                              *)

(* A step that is fair to every request and does not end the operation.    *)
LEMMA OnwardInv ==
    ASSUME PInv, BInv, Forward, Standing', nextKey' = nextKey, result' = result,
           bpc' # "idle" => bpc # "idle"
    PROVE  BInv'
<1>1. faults = 0 \/ faults > 0
    BY DEF PInv, Control
<1>2. InTime'
    <2>1. SUFFICES ASSUME bpc' # "idle", faults' = 0, fate'[Op] \notin {<< >>, <<"succeeded">>}
                   PROVE  Refused(Op)' \/ Breaking'
        BY DEF InTime, Op
    <2>2. nextKey > 0 /\ bpc # "idle" /\ faults = 0
        <3>1. faults = faults' /\ bpc # "idle"
            BY <2>1 DEF Forward
        <3>2. QED
            BY <2>1, <3>1 DEF BInv, Standing, Placed
    <2>3. PICK h \in Handlers : h = Op
        BY <2>2, OpIs
    <2>4. /\ Op' = h /\ Candid(h)
        BY <2>3 DEF Forward, Op
    <2>5. Refused(h)' \/ Breaking'
        <3>1. CASE fate'[h] = fate[h]
            <4>1. Refused(h) \/ Breaking
                BY <2>1, <2>2, <2>3, <3>1 DEF BInv, InTime
            <4>2. QED
                BY <4>1 DEF Forward, Refused
        <3>2. CASE fate'[h] # fate[h]
            <4>1. fate'[h] # <<"succeeded">>
                BY <2>1, <2>3
            <4>2. ~(faults' > 0)
                <5>1. faults' = 0
                    BY <2>1
                <5>2. QED
                    BY <5>1
            <4>3. QED
                BY <2>4, <3>2, <4>1, <4>2 DEF Candid
        <3>3. QED
            BY <3>1, <3>2
    <2>6. QED
        BY <2>4, <2>5 DEF Refused
<1>3. ResultsMatch'
    BY <1>1 DEF BInv, ResultsMatch, Forward
<1>4. QED
    BY <1>2, <1>3 DEF BInv, Forward

(* Steps inside RunOperation and Run: where the connection stands.         *)
InnerStep ==
    \/ ClientStep \/ WriteWaits \/ WriteDone \/ Greet
    \/ (\E q \in Seqs : Answer(q)) \/ Misbehave \/ Break

LEMMA InnerStands ==
    ASSUME PInv, InnerStep
    PROVE  /\ nextKey' = nextKey
           /\ \/ UNCHANGED <<failed, runpc>>
              \/ runpc \in {"send", "receive"} /\ runpc' \in {"out", "receive"}
              \/ runpc = "closing" /\ runpc' = "closed" /\ failed' = failed
<1>1. CASE SendStep \/ WriteWaits \/ WriteFails \/ WriteDone
    BY <1>1 DEF SendStep, WriteWaits, WriteFails, WriteDone, NotReceiving, svcVars
<1>2. CASE ReceiveStep \/ ReceiveWaits \/ ReceiveFails \/ ReceivePacket \/ ReceiverReleased
    BY <1>2 DEF ReceiveStep, ReceiveWaits, ReceiveFails, ReceivePacket,
        ReceiverReleased, NotSending, svcVars
<1>3. CASE RunAfterSend \/ RunAfterReceive \/ Closed
    BY <1>3 DEF RunAfterSend, RunAfterReceive, Closed
<1>4. CASE Greet \/ (\E q \in Seqs : Answer(q)) \/ Misbehave \/ Break
    BY <1>4 DEF Greet, Answer, Misbehave, Break, DriveOnly, svcVars
<1>5. QED
    BY <1>1, <1>2, <1>3, <1>4 DEF InnerStep, ClientStep

LEMMA InnerInv ==
    ASSUME PInv, PInv', BInv, InnerStep, Inside
    PROVE  BInv'
<1>1. Forward
    BY CallForward, SendForward, ReadForward, EnvironmentForward
    DEF InnerStep, ClientStep, BInv
<1>2. Standing'
    <2>1. UNCHANGED <<bpc, expired, result, nextKey>>
        BY InnerStands DEF Inside, blkVars
    <2>2. Typed' /\ Returned'
        BY <2>1 DEF BInv, Standing, Typed, Returned, Op
    <2>3. Placed'
        <3>1. CASE failed' = failed /\ runpc' = runpc
            BY <2>1, <3>1 DEF BInv, Standing, Placed
        <3>2. CASE runpc \in {"send", "receive"} /\ runpc' \in {"out", "receive"}
            BY <2>1, <3>2 DEF BInv, Standing, Placed
        <3>3. CASE runpc = "closing" /\ runpc' = "closed"
            BY <2>1, <3>3 DEF BInv, Standing, Placed
        <3>4. QED
            BY <3>1, <3>2, <3>3, InnerStands
    <2>4. QED
        BY <2>2, <2>3 DEF Standing
<1>3. QED
    BY <1>1, <1>2, InnerStands, OnwardInv DEF Inside, blkVars

LEMMA OperationInv ==
    ASSUME PInv, PInv', BInv, Operation
    PROVE  BInv'
<1>1. /\ bpc = "idle" /\ bpc' = "submitted" /\ UNCHANGED <<expired, result>> /\ Submit
      /\ nextKey' = nextKey + 1 /\ UNCHANGED <<failed, runpc>>
    BY DEF Operation, Submit
<1>2. Usable /\ nextKey \in Nat /\ nextKey \in Handlers /\ nextKey' \in Nat
    <2>1. nextKey \in Nat /\ nextKey < MaxSubmits
        BY <1>1 DEF Submit, PInv, Numbered
    <2>2. nextKey \in Handlers /\ nextKey' \in Nat
        BY <1>1, <2>1, ServiceConstantsOK DEF Handlers
    <2>3. QED
        BY <1>1, <2>1, <2>2, CallingWhen DEF Submit
<1>3. Undamaged' /\ Alive' /\ UNCHANGED <<faults, answers>>
    BY <1>1, AppForward DEF BInv
<1>4. Standing'
    <2>1. \A n \in Handlers : n \in Int
        BY DEF Handlers
    <2>2. \A n \in Handlers : result[n] # "none" <=> n < nextKey
        BY <1>1 DEF BInv, Standing, Returned
    <2>3. Returned'
        BY <1>1, <1>2, <2>1, <2>2 DEF Returned, Op
    <2>4. nextKey' > 0 /\ runpc \notin {"closing", "closed"}
        BY <1>1, <1>2 DEF Usable
    <2>5. Placed'
        BY <1>1, <2>4 DEF BInv, Standing, Placed
    <2>6. Typed'
        BY <1>1 DEF BInv, Standing, Typed
    <2>7. QED
        BY <2>3, <2>5, <2>6 DEF Standing
<1>5. InTime'
    <2>1. Op' = nextKey
        BY <1>1, <1>2 DEF Op
    <2>2. CASE failed
        BY <1>1, <2>2 DEF InTime, Breaking
    <2>3. CASE ~failed
        <3>1. fate' = fate
            BY <1>1, <2>3 DEF Submit, S!Enqueue
        <3>2. fate[nextKey] = << >>
            BY <1>2 DEF PInv, Ledger
        <3>3. fate'[Op'] = << >>
            BY <2>1, <3>1, <3>2
        <3>4. QED
            BY <3>3 DEF InTime
    <2>4. QED
        BY <2>2, <2>3
<1>6. ResultsMatch'
    BY <1>1, <1>3 DEF BInv, ResultsMatch
<1>7. QED
    BY <1>3, <1>4, <1>5, <1>6 DEF BInv

(* RunOperation gives up: whatever happens to its handler, the result is   *)
(* CLIENT_IO_ERROR.                                                        *)
LEMMA GiveUpInv ==
    ASSUME PInv, PInv', BInv, GiveUp, bpc # "idle", runpc = "out"
    PROVE  BInv'
<1>1. /\ bpc' = "idle" /\ result' = [result EXCEPT ![Op] = "io error"] /\ expired' = expired
      /\ nextKey > 0 /\ Op \in Handlers /\ Op < nextKey /\ nextKey \in Nat
    <2>1. nextKey > 0 /\ nextKey \in Nat
        BY DEF BInv, Standing, Placed, PInv, Numbered
    <2>2. QED
        BY <2>1, OpIs DEF GiveUp
<1>2. UNCHANGED vars \/ \E k \in Keys : Remove(k)
    BY <1>1, GiveUpSteps
<1>3. Undamaged' /\ Alive' /\ UNCHANGED <<faults, answers>>
    BY <1>2, AppForward, NothingForward DEF BInv, Forward, vars, envVars
<1>4. UNCHANGED <<nextKey, failed, runpc>>
    BY <1>2 DEF Remove, vars, svcVars
<1>5. Standing'
    <2>1. Typed' /\ Placed'
        BY <1>1, <1>4 DEF BInv, Standing, Typed, Placed
    <2>2. \A n \in Handlers \ {Op} : result'[n] = result[n]
        BY <1>1 DEF BInv, Standing, Typed
    <2>3. result'[Op] # "none"
        BY <1>1 DEF BInv, Standing, Typed
    <2>4. Returned'
        BY <1>1, <1>4, <2>2, <2>3 DEF BInv, Standing, Returned, Op
    <2>5. QED
        BY <2>1, <2>4 DEF Standing
<1>6. ResultsMatch' /\ InTime'
    BY <1>1, <1>3 DEF BInv, ResultsMatch, InTime, Standing, Typed
<1>7. QED
    BY <1>3, <1>5, <1>6 DEF BInv

LEMMA DoneInv ==
    ASSUME PInv, BInv, Done
    PROVE  BInv'
<1>1. /\ bpc = "loop" /\ bpc' = "idle" /\ UNCHANGED vars /\ expired' = expired
      /\ nextKey > 0 /\ Op \in Handlers /\ Op \in Submitted /\ Op < nextKey /\ nextKey \in Nat
      /\ fate[Op] # << >>
      /\ result' = [result EXCEPT ![Op] =
                      IF fate[Op] = <<"succeeded">> THEN "ok" ELSE "error"]
    <2>1. nextKey > 0 /\ nextKey \in Nat
        BY DEF Done, BInv, Standing, Placed, PInv, Numbered
    <2>2. QED
        BY <2>1, OpIs DEF Done
<1>2. UNCHANGED <<nextKey, failed, runpc, faults, answers>>
    BY <1>1 DEF vars, svcVars, envVars
<1>3. Undamaged' /\ Alive'
    BY <1>1, NothingForward DEF BInv, Forward
<1>4. fate[Op] = <<"succeeded">> => Refused(Op) \/ (Op \in DOMAIN answers /\ answers[Op] = "succeeded")
    BY <1>1 DEF PInv, DriveKnown, AnswersMatch
<1>5. fate[Op] # <<"succeeded">> => faults > 0 \/ Refused(Op)
    <2>1. ~Breaking
        BY <1>1 DEF BInv, Standing, Placed, Breaking
    <2>2. faults = 0 \/ faults > 0
        BY DEF PInv, Control
    <2>3. QED
        BY <1>1, <2>1, <2>2 DEF BInv, InTime
<1>6. Standing'
    <2>1. Typed' /\ Placed'
        BY <1>1, <1>2 DEF BInv, Standing, Typed, Placed
    <2>2. \A n \in Handlers \ {Op} : result'[n] = result[n]
        BY <1>1 DEF BInv, Standing, Typed
    <2>3. result'[Op] # "none"
        BY <1>1 DEF BInv, Standing, Typed
    <2>4. Returned'
        BY <1>1, <1>2, <2>2, <2>3 DEF BInv, Standing, Returned, Op
    <2>5. QED
        BY <2>1, <2>4 DEF Standing
<1>7. ResultsMatch' /\ InTime'
    BY <1>1, <1>2, <1>4, <1>5 DEF BInv, ResultsMatch, InTime, Standing, Typed,
        Refused, PInv, DriveKnown, AnswersMatch
<1>8. QED
    BY <1>3, <1>6, <1>7 DEF BInv

(* The turns of the loop.                                                  *)
LEMMA TurnInv ==
    ASSUME PInv, BInv,
           \/ FirstRun /\ ~failed
           \/ RunReturns \/ SelectReturns \/ DeadlinePasses \/ UNCHANGED Everything
    PROVE  BInv'
<1>1. CASE (FirstRun /\ ~failed) \/ SelectReturns
    <2>1. Run /\ bpc # "idle" /\ bpc' \in {"first run", "run"} /\ UNCHANGED <<expired, result>>
        BY <1>1 DEF FirstRun, SelectReturns
    <2>2. UNCHANGED <<nextKey, failed>> /\ runpc' = "send"
        BY <2>1 DEF Run
    <2>3. Typed' /\ Placed' /\ Returned'
        BY <2>1, <2>2 DEF BInv, Standing, Typed, Placed, Returned, Op
    <2>4. QED
        BY <2>1, <2>2, <2>3, CallForward, OnwardInv DEF BInv, Standing
<1>2. CASE RunReturns \/ DeadlinePasses \/ UNCHANGED Everything
    <2>1. UNCHANGED <<vars, nextKey, failed, runpc, result>>
        BY <1>2 DEF RunReturns, DeadlinePasses, Everything, blkVars, vars, svcVars
    <2>2. /\ bpc' # "idle" <=> bpc # "idle"
          /\ bpc' = bpc \/ (bpc' = "loop" /\ ~failed /\ runpc = "out")
        BY <1>2 DEF RunReturns, DeadlinePasses, Everything, blkVars
    <2>3. expired' \in BOOLEAN
        BY <1>2 DEF RunReturns, DeadlinePasses, Everything, blkVars, BInv, Standing, Typed
    <2>4. Typed' /\ Placed' /\ Returned'
        BY <2>1, <2>2, <2>3 DEF BInv, Standing, Typed, Placed, Returned, Op
    <2>5. QED
        BY <2>1, <2>2, <2>4, NothingForward, OnwardInv DEF BInv, Standing
<1>3. QED
    BY <1>1, <1>2

LEMMA CloseKeeps ==
    ASSUME PInv, PInv', BInv, bpc = "idle", Close, Inside
    PROVE  BInv'
<1>1. UNCHANGED <<bpc, expired, result, nextKey>> /\ runpc' = "closing"
    BY DEF Close, Inside, blkVars
<1>2. Typed' /\ Placed' /\ Returned'
    BY <1>1 DEF BInv, Standing, Typed, Placed, Returned, Op
<1>3. QED
    BY <1>1, <1>2, CallForward, OnwardInv DEF BInv, Standing

LEMMA BlockingNextInv == PInv /\ BInv /\ [BlockingNext]_Everything => PInv' /\ BInv'
<1> SUFFICES ASSUME PInv, BInv, [BlockingNext]_Everything PROVE PInv' /\ BInv'
    OBVIOUS
<1>1. [Next]_vars /\ PInv'
    BY BlockingSteps, ServiceNext, ServiceStutters DEF BInv
<1>2. CASE RunOperation \/ SelectFails
    <2>1. CASE GiveUp /\ (FirstRun \/ RunFails \/ SelectTimesOut \/ SelectFails)
        <3>1. bpc # "idle" /\ runpc = "out"
            BY <2>1 DEF FirstRun, RunFails, SelectTimesOut, SelectFails, BInv, Standing,
                Placed, PInv, Control
        <3>2. QED
            BY <1>1, <2>1, <3>1, GiveUpInv
    <2>2. CASE Done
        BY <1>1, <2>2, DoneInv
    <2>3. CASE (FirstRun /\ ~failed) \/ RunReturns \/ SelectReturns
        BY <1>1, <2>3, TurnInv
    <2>4. QED
        BY <1>2, <2>1, <2>2, <2>3
        DEF RunOperation, FirstRun, RunFails, SelectTimesOut, SelectFails
<1>3. CASE Operation
    BY <1>1, <1>3, OperationInv
<1>4. CASE DeadlinePasses \/ UNCHANGED Everything
    BY <1>1, <1>4, TurnInv
<1>5. CASE bpc = "idle" /\ Close /\ Inside
    BY <1>1, <1>5, CloseKeeps
<1>6. CASE InnerStep /\ Inside
    BY <1>1, <1>6, InnerInv
<1>7. QED
    BY <1>1, <1>2, <1>3, <1>4, <1>5, <1>6 DEF BlockingNext, InnerStep

LEMMA BlockingAlways == BlockingSpec => [](PInv /\ BInv)
<1>1. BlockingInit => PInv /\ BInv
    BY BlockingStart
<1>2. PInv /\ BInv /\ [BlockingNext]_<<blkVars, vars>> => PInv' /\ BInv'
    BY BlockingNextInv DEF Everything
<1>3. QED
    BY <1>1, <1>2, PTL DEF BlockingSpec

-----------------------------------------------------------------------------
(* The theorems.                                                           *)

(* What the caller does with the connection is what its application may do *)
(* with it: everything proved of a connection holds under RunOperation.    *)
THEOREM BlockingUsesService == BlockingSpec => Spec
<1>1. BlockingInit => Init
    BY DEF BlockingInit
<1>2. PInv /\ BInv /\ [BlockingNext]_<<blkVars, vars>> => [Next]_vars
    BY BlockingSteps DEF Everything, BInv
<1>3. QED
    BY <1>1, <1>2, BlockingAlways, PTL DEF BlockingSpec, Spec

(* RunOperation and the connection are in positions that fit, and exactly  *)
(* the operations that have returned have a result.                        *)
THEOREM BlockingTypes == BlockingSpec => []BlockingTypeOK
<1>1. BInv => BlockingTypeOK
    BY DEF BInv, Standing, Typed, Placed, Returned, BlockingTypeOK
<1>2. QED
    BY <1>1, BlockingAlways, PTL

(* An operation returns OK only if the drive has done it, and an error     *)
(* other than CLIENT_IO_ERROR only if the drive refused it or sent         *)
(* something damaged: no answer to another operation is taken for its own, *)
(* and no failure of the connection for the drive's refusal.               *)
THEOREM ResultsAreTrue == BlockingSpec => []ResultsMatch
<1>1. BInv => ResultsMatch
    BY DEF BInv
<1>2. QED
    BY <1>1, BlockingAlways, PTL

(* Removing a handler that is known settles it.                            *)
LEMMA RemovedIsSettled ==
    ASSUME PInv, NEW k \in Keys, Remove(k)
    PROVE  fate'[k] # << >>
<1>1. nextKey' = nextKey /\ k \in DOMAIN fate
    BY DEF Remove, svcVars, Keys, PInv, RP!IInv, RP!TypeOK, RP!AllHandlers
<1>2. CASE k \in S!KeysQueued
    <2>1. S!RemoveQueued(k)
        BY <1>2 DEF Remove
    <2>2. PICK i \in 1 .. Len(queue) : /\ queue[i].key = k
                                       /\ fate' = S!Fated(queue[i].handler, "removed")
        BY <2>1, QueuedFacts DEF S!RemoveQueued
    <2>3. queue[i].handler = k /\ fate[k] = << >>
        BY <2>2, QueuedFacts
    <2>4. fate'[k] = <<"removed">>
        BY <1>1, <2>2, <2>3 DEF S!Fated
    <2>5. QED
        BY <2>4
<1>3. CASE k \notin S!KeysQueued
    <2>1. R!Remove(k) /\ UNCHANGED sndVars
        BY <1>3 DEF Remove
    <2>2. Settles(k, "removed")
        BY <1>1, <2>1, RemoveStep
    <2>3. QED
        BY <2>2 DEF Settles
<1>4. QED
    BY <1>2, <1>3

(* A pending request that Remove does not know is being written.           *)
LEMMA UnknownIsWritten ==
    ASSUME PInv, nextKey > 0, sphase # "closed", ~Known(Op), fate[Op] = << >>
    PROVE  writing = Op
<1>1. PICK h \in Handlers : h = Op
    BY OpIs
<1>2. h < nextKey /\ fate[h] = << >> /\ nextKey \in 0 .. MaxSubmits
    BY <1>1, OpIs DEF PInv, Numbered
<1>3. h \in HandlersHeld
    <2>1. h \notin Abandoned
        BY DEF PInv, Ledger
    <2>2. QED
        BY <1>2, <2>1, AbandonedIs
<1>4. ~InQueue(h)
    <2>1. \A i \in 1 .. Len(queue) : queue[i].key \in S!KeysQueued
        BY QueuedFacts DEF S!KeysQueued, S!ToSet
    <2>2. QED
        BY <1>1, <2>1, QueuedFacts DEF InQueue, Known
<1>5. ~InMap(h)
    <2>1. SUFFICES ASSUME NEW s \in RP!Live, map[s].handler = h PROVE FALSE
        BY DEF InMap
    <2>2. s \in DOMAIN map /\ s # -1 /\ map[s].key = h
        BY <2>1, LiveFacts, MarkersOK
    <2>3. h \in DOMAIN seqOfKey
        BY <2>1, <2>2 DEF PInv, RP!IInv, RP!MapsInverse
    <2>4. QED
        BY <1>1, <2>3 DEF Known
<1>6. h = writing
    BY <1>3, <1>4, <1>5, HeldIs DEF PInv
<1>7. QED
    BY <1>1, <1>6

(* Only the callback of a request that is being written when RunOperation  *)
(* returns can run later, when the caller's variables are gone.            *)
THEOREM OnlyWrittenIsLate == BlockingSpec => OnlyTheWrittenIsLate
<1>1. PInv /\ BInv /\ [BlockingNext]_<<blkVars, vars>>
        => [Returning => fate'[Op] # << >> \/ writing = Op]_<<blkVars, vars>>
    <2> SUFFICES ASSUME PInv, BInv, BlockingNext, Returning
                 PROVE  fate'[Op] # << >> \/ writing = Op
        BY DEF Returning, blkVars
    <2>1. bpc # "idle" /\ bpc' = "idle"
        BY DEF Returning
    <2>2. nextKey > 0 /\ sphase # "closed" /\ Op \in Keys
        BY <2>1, OpIs DEF BInv, Standing, Placed, PInv, Control, Keys
    <2>3. CASE Done
        BY <2>3 DEF Done, vars
    <2>4. CASE GiveUp
        <3>1. CASE Known(Op)
            <4>1. PICK k \in Keys : k = Op
                BY <2>2
            <4>2. Remove(k)
                BY <2>4, <3>1, <4>1 DEF GiveUp
            <4>3. QED
                BY <4>1, <4>2, RemovedIsSettled
        <3>2. CASE ~Known(Op)
            <4>1. fate' = fate
                BY <2>4, <3>2 DEF GiveUp, vars
            <4>2. QED
                BY <2>2, <3>2, <4>1, UnknownIsWritten
        <3>3. QED
            BY <3>1, <3>2
    <2>5. QED
        BY <2>1, <2>3, <2>4
        DEF BlockingNext, Operation, RunOperation, FirstRun, RunFails, RunReturns,
            SelectReturns, SelectTimesOut, SelectFails, DeadlinePasses, Inside, blkVars
<1>2. QED
    BY <1>1, BlockingAlways, PTL DEF BlockingSpec, OnlyTheWrittenIsLate

(* A success that arrived is lost only if the connection failed afterwards *)
(* in the same Run.                                                        *)
THEOREM SuccessIsReported == BlockingSpec => SuccessLostOnlyByFailure
<1>1. PInv /\ BInv /\ [BlockingNext]_<<blkVars, vars>>
        => [Returning /\ fate[Op] = <<"succeeded">>
              => result'[Op] = "ok" \/ failed]_<<blkVars, vars>>
    <2> SUFFICES ASSUME PInv, BInv, BlockingNext, Returning, fate[Op] = <<"succeeded">>, ~failed
                 PROVE  result'[Op] = "ok"
        BY DEF Returning, blkVars
    <2>1. bpc # "idle" /\ bpc' = "idle" /\ fate[Op] # << >>
        BY DEF Returning
    <2>2. Done
        BY <2>1
        DEF BlockingNext, Operation, RunOperation, FirstRun, RunFails, RunReturns,
            SelectReturns, SelectTimesOut, SelectFails, DeadlinePasses, Inside, blkVars
    <2>3. Op \in Handlers
        BY <2>1, OpIs DEF BInv, Standing, Placed
    <2>4. QED
        BY <2>2, <2>3 DEF Done, BInv, Standing, Typed
<1>2. QED
    BY <1>1, BlockingAlways, PTL DEF BlockingSpec, SuccessLostOnlyByFailure
=============================================================================
