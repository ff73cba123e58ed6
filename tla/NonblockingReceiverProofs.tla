--------------------- MODULE NonblockingReceiverProofs ---------------------
(* Proofs about NonblockingReceiver, for every set of handlers, keys,      *)
(* sequence numbers and connection ids.                                    *)
EXTENDS NonblockingReceiver, TLAPS

(* What the helpers on partial functions and on fate return.               *)
LEMMA PutFacts ==
    ASSUME NEW f, NEW x, NEW v
    PROVE  /\ DOMAIN Put(f, x, v) = DOMAIN f \cup {x}
           /\ Put(f, x, v)[x] = v
           /\ \A y \in DOMAIN f : y # x => Put(f, x, v)[y] = f[y]
BY DEF Put

(* Erase takes one entry out and keeps the others.                         *)
LEMMA EraseFacts ==
    ASSUME NEW f, NEW x
    PROVE  /\ DOMAIN Erase(f, x) = DOMAIN f \ {x}
           /\ \A y \in DOMAIN f \ {x} : Erase(f, x)[y] = f[y]
           /\ \A S : f \in [DOMAIN f -> S] => Erase(f, x) \in [DOMAIN f \ {x} -> S]
BY DEF Erase, Restrict

(* A handler without a fate gets its first one.                            *)
LEMMA FirstFate ==
    ASSUME fate \in [AllHandlers -> Seq(Fates)], CalledOnce,
           NEW h \in AllHandlers, fate[h] = << >>,
           NEW what \in Fates, fate' = Record(h, what)
    PROVE  /\ fate' \in [AllHandlers -> Seq(Fates)]
           /\ fate'[h] # << >>
           /\ \A g \in AllHandlers \ {h} : fate'[g] = fate[g]
           /\ CalledOnce'
<1> DEFINE q == Append(<< >>, what)
<1>1. q \in Seq(Fates) /\ Len(q) = 1
    OBVIOUS
<1>2. q # << >>
    BY <1>1
<1>3. fate' = [fate EXCEPT ![h] = q]
    BY DEF Record
<1> HIDE DEF q
<1>4. /\ fate' \in [AllHandlers -> Seq(Fates)]
      /\ fate'[h] = q
      /\ \A g \in AllHandlers \ {h} : fate'[g] = fate[g]
    BY <1>1, <1>3
<1>5. ASSUME NEW g \in AllHandlers PROVE Len(fate'[g]) <= 1
    <2>1. CASE g = h
        <3>1. fate'[g] = q
            BY <1>4, <2>1
        <3>2. Len(fate'[g]) = 1
            BY <1>1, <3>1, Zenon
        <3>3. QED
            BY <3>2
    <2>2. CASE g # h
        BY <1>4, <2>2 DEF CalledOnce
    <2>3. QED
        BY <2>1, <2>2
<1>6. QED
    BY <1>2, <1>4, <1>5 DEF CalledOnce

-----------------------------------------------------------------------------
(* The inductive invariant.                                                *)

(* A handler still to be called waits under one sequence number and has no *)
(* fate yet; an entry the error loop has passed has one.                   *)
FatesAgree ==
    /\ \A s \in Live : fate[map[s].handler] = << >>
    /\ \A s, t \in Live : map[s].handler = map[t].handler => s = t
    /\ \A s \in DOMAIN map \ Live : fate[map[s].handler] # << >>

(* handler_ is set only while its handler runs, and the error loop runs    *)
(* for one of the two statuses that leave nobody waiting, or for the       *)
(* destructor.                                                             *)
PositionsAgree ==
    /\ handler # NoHandler <=> rpc = "handling"
    /\ ~Failing => unvisited = {}
    /\ Failing /\ phase # "closed" => status \in {"kIdle", "kError"}

IInv == TypeOK /\ ChecksHold /\ MapsInverse /\ CalledOnce /\ FatesAgree
               /\ PositionsAgree

(* The constructor starts in IInv: only the handshake handler waits.       *)
LEMMA InitInv == Init => IInv
<1> SUFFICES ASSUME Init PROVE IInv
    OBVIOUS
<1> USE DEF Init
<1>1. /\ DOMAIN map = {HandshakeSeq} /\ DOMAIN seqOfKey = {HandshakeKey}
      /\ map[HandshakeSeq].handler = HandshakeHandler
      /\ map[HandshakeSeq].key = HandshakeKey
      /\ seqOfKey[HandshakeKey] = HandshakeSeq
    OBVIOUS
<1>2. TypeOK
    <2>1. fate \in [AllHandlers -> Seq(Fates)]
        OBVIOUS
    <2>2. map \in [DOMAIN map -> Entry]
        BY DEF Entry, AllHandlers, AllKeys
    <2>3. seqOfKey \in [DOMAIN seqOfKey -> AllSeqs]
        BY DEF AllSeqs
    <2>4. DOMAIN map \subseteq AllSeqs /\ DOMAIN seqOfKey \subseteq AllKeys
        BY <1>1 DEF AllSeqs, AllKeys
    <2>5. QED
        BY <2>1, <2>2, <2>3, <2>4 DEF TypeOK, Phases, Statuses, Positions
<1>3. ChecksHold /\ CalledOnce
    BY DEF ChecksHold, CalledOnce
<1>4. Live = {HandshakeSeq}
    BY <1>1 DEF Live, Failing
<1>5. MapsInverse
    BY <1>1, <1>4 DEF MapsInverse
<1>6. FatesAgree
    BY <1>1, <1>4 DEF FatesAgree, AllHandlers
<1>7. PositionsAgree
    BY DEF PositionsAgree, Failing
<1>8. QED
    BY <1>2, <1>3, <1>5, <1>6, <1>7 DEF IInv

-----------------------------------------------------------------------------
(* Steps that touch neither map_, nor the key map, nor any handler.        *)
LEMMA QuietStep ==
    ASSUME IInv,
           UNCHANGED <<map, seqOfKey, unvisited, aborted, fate, connectionId>>,
           Live' = Live,
           phase' \in Phases, reader' \in BOOLEAN, rpc' \in Positions,
           status' \in Statuses, handler' \in {handler, NoHandler},
           PositionsAgree'
    PROVE  IInv'
<1>1. TypeOK'
    BY DEF IInv, TypeOK
<1>2. ChecksHold' /\ MapsInverse' /\ CalledOnce' /\ FatesAgree'
    BY DEF IInv, ChecksHold, MapsInverse, CalledOnce, FatesAgree
<1>3. QED
    BY <1>1, <1>2 DEF IInv

(* The actions of Receive and of the constructor that are quiet steps.     *)
LEMMA QuietActions ==
    ASSUME IInv,
           \/ CallReceive \/ ReceiveIdle \/ ReceiveWaits \/ HandlerReturns
           \/ ErrorHandlerReturns \/ HandshakeReceivesAgain
           \/ HandshakeSucceeds \/ HandshakeThrows \/ UNCHANGED rcvVars
    PROVE  IInv'
<1> USE DEF IInv, TypeOK, PositionsAgree, Live, Failing, Phases, Positions,
        Statuses, Return, Idle
<1>1. CASE CallReceive
    BY <1>1, QuietStep DEF CallReceive
<1>2. CASE ReceiveIdle
    BY <1>2, QuietStep DEF ReceiveIdle
<1>3. CASE ReceiveWaits
    BY <1>3, QuietStep DEF ReceiveWaits
<1>4. CASE HandlerReturns
    BY <1>4, QuietStep DEF HandlerReturns
<1>5. CASE ErrorHandlerReturns
    BY <1>5, QuietStep DEF ErrorHandlerReturns
<1>6. CASE HandshakeReceivesAgain
    BY <1>6, QuietStep DEF HandshakeReceivesAgain
<1>7. CASE HandshakeSucceeds
    BY <1>7, QuietStep DEF HandshakeSucceeds
<1>8. CASE HandshakeThrows
    BY <1>8, QuietStep DEF HandshakeThrows
<1>9. CASE UNCHANGED rcvVars
    BY <1>9, QuietStep DEF rcvVars
<1>10. QED
    BY <1>1, <1>2, <1>3, <1>4, <1>5, <1>6, <1>7, <1>8, <1>9

-----------------------------------------------------------------------------
(* One lemma for every other action.  First, Enqueue on a new sequence     *)
(* number and key.                                                         *)
LEMMA EnqueueInv ==
    ASSUME IInv, NEW h \in Handlers, NEW s \in Seqs, NEW k \in Keys,
           NewHandler(h), Enqueue(h, s, k)
    PROVE  IInv'
<1> DEFINE e == [handler |-> h, key |-> k]
<1>1. /\ s \notin DOMAIN map /\ k \notin DOMAIN seqOfKey
      /\ fate[h] = << >> /\ \A t \in DOMAIN map : map[t].handler # h
      /\ rpc = "out" /\ Live = DOMAIN map /\ Live' = DOMAIN map'
    BY DEF Enqueue, Accepts, NewHandler, Waiting, Idle, Live, Failing
<1>2. /\ DOMAIN map' = DOMAIN map \cup {s} /\ map'[s] = e
      /\ \A t \in DOMAIN map : map'[t] = map[t]
      /\ DOMAIN seqOfKey' = DOMAIN seqOfKey \cup {k} /\ seqOfKey'[k] = s
      /\ \A j \in DOMAIN seqOfKey : seqOfKey'[j] = seqOfKey[j]
    <2>1. map' = Put(map, s, e) /\ seqOfKey' = Put(seqOfKey, k, s)
        BY DEF Enqueue
    <2> HIDE DEF e
    <2>2. /\ DOMAIN map' = DOMAIN map \cup {s} /\ map'[s] = e
          /\ \A t \in DOMAIN map : t # s => map'[t] = map[t]
        BY <2>1 DEF Put
    <2>3. /\ DOMAIN seqOfKey' = DOMAIN seqOfKey \cup {k} /\ seqOfKey'[k] = s
          /\ \A j \in DOMAIN seqOfKey : j # k => seqOfKey'[j] = seqOfKey[j]
        BY <2>1 DEF Put
    <2>4. QED
        BY <1>1, <2>2, <2>3
<1>3. TypeOK'
    <2>1. map' \in [DOMAIN map' -> Entry]
        BY <1>1, <1>2 DEF IInv, TypeOK, Enqueue, Put, Entry, AllHandlers, AllKeys
    <2>2. seqOfKey' \in [DOMAIN seqOfKey' -> AllSeqs]
        BY <1>1, <1>2 DEF IInv, TypeOK, Enqueue, Put, AllSeqs
    <2>3. QED
        BY <1>2, <2>1, <2>2 DEF IInv, TypeOK, Enqueue, AllSeqs, AllKeys
<1>4. MapsInverse'
    BY <1>1, <1>2 DEF IInv, MapsInverse
<1>5. FatesAgree'
    BY <1>1, <1>2 DEF IInv, FatesAgree, Enqueue
<1>6. ChecksHold' /\ CalledOnce' /\ PositionsAgree'
    BY DEF IInv, ChecksHold, CalledOnce, PositionsAgree, Failing, Enqueue
<1>7. QED
    BY <1>3, <1>4, <1>5, <1>6 DEF IInv

(* Enqueue on a taken sequence number or key.                             *)
LEMMA EnqueueRefusesInv ==
    ASSUME IInv, NEW h \in Handlers, NEW s \in Seqs, NEW k \in Keys,
           NewHandler(h), EnqueueRefuses(h, s, k)
    PROVE  IInv'
<1>1. /\ fate[h] = << >> /\ \A t \in DOMAIN map : map[t].handler # h
      /\ rpc = "out" /\ Live = DOMAIN map /\ Live' = DOMAIN map
    BY DEF EnqueueRefuses, NewHandler, Waiting, Idle, Live, Failing
<1>2. /\ fate' \in [AllHandlers -> Seq(Fates)] /\ CalledOnce'
      /\ \A g \in AllHandlers \ {h} : fate'[g] = fate[g]
    BY <1>1, FirstFate DEF EnqueueRefuses, IInv, TypeOK, AllHandlers, Fates
<1>3. \A t \in DOMAIN map : map[t].handler \in AllHandlers \ {h}
    BY <1>1 DEF IInv, TypeOK, Entry
<1>4. TypeOK' /\ MapsInverse' /\ ChecksHold' /\ PositionsAgree'
    BY <1>1, <1>2 DEF EnqueueRefuses, IInv, TypeOK, MapsInverse, ChecksHold,
        PositionsAgree, Failing
<1>5. FatesAgree'
    BY <1>1, <1>2, <1>3 DEF EnqueueRefuses, IInv, FatesAgree
<1>6. QED
    BY <1>2, <1>4, <1>5 DEF IInv

(* Remove, also from a handler the error loop is calling.                  *)
LEMMA RemoveInv ==
    ASSUME IInv, NEW k \in Keys, Remove(k)
    PROVE  IInv'
<1> DEFINE s == seqOfKey[k]
           h == map[s].handler
<1>1. /\ k \in DOMAIN seqOfKey /\ s \in Live /\ s \in DOMAIN map
      /\ map[s].key = k /\ Live \subseteq DOMAIN map
    BY DEF Remove, IInv, MapsInverse, TypeOK, Live, Failing
<1>2. h \in AllHandlers /\ fate[h] = << >>
    BY <1>1 DEF IInv, TypeOK, Entry, FatesAgree
<1>3. /\ DOMAIN map' = DOMAIN map \ {s}
      /\ \A t \in DOMAIN map \ {s} : map'[t] = map[t]
      /\ DOMAIN seqOfKey' = DOMAIN seqOfKey \ {k}
      /\ \A j \in DOMAIN seqOfKey \ {k} : seqOfKey'[j] = seqOfKey[j]
    BY EraseFacts DEF Remove
<1>4. Live' = Live \ {s}
    BY <1>1, <1>3 DEF Remove, Live, Failing
<1>5. /\ fate' \in [AllHandlers -> Seq(Fates)] /\ CalledOnce'
      /\ \A g \in AllHandlers \ {h} : fate'[g] = fate[g]
    <2>1. fate' = Record(h, "removed")
        BY <1>1 DEF Remove
    <2>2. QED
        BY <1>2, <2>1, FirstFate DEF IInv, TypeOK, Fates
<1>6. TypeOK'
    <2>1. map' \in [DOMAIN map' -> Entry] /\ seqOfKey' \in [DOMAIN seqOfKey' -> AllSeqs]
        BY <1>3, EraseFacts DEF Remove, IInv, TypeOK
    <2>2. QED
        BY <1>3, <1>5, <2>1 DEF Remove, IInv, TypeOK
<1>7. ChecksHold'
    BY <1>1 DEF Remove, ChecksHold
<1>8. MapsInverse'
    BY <1>1, <1>3, <1>4 DEF IInv, MapsInverse
<1>9. FatesAgree'
    <2>1. \A t \in Live' : map'[t].handler \in AllHandlers \ {h}
        BY <1>1, <1>3, <1>4 DEF IInv, TypeOK, Entry, FatesAgree
    <2>2. \A t \in DOMAIN map' \ Live' : fate'[map'[t].handler] # << >>
        BY <1>1, <1>2, <1>3, <1>4, <1>5 DEF IInv, TypeOK, Entry, FatesAgree
    <2>3. QED
        BY <1>1, <1>3, <1>4, <1>5, <2>1, <2>2 DEF IInv, FatesAgree
<1>10. PositionsAgree'
    BY DEF Remove, IInv, PositionsAgree, Failing
<1>11. QED
    BY <1>5, <1>6, <1>7, <1>8, <1>9, <1>10 DEF IInv

(* CallAllErrorHandlers is only reached while handler_ is empty, so that   *)
(* its first Error never runs for a handler that has been called already.  *)
LEMMA CallAllInv ==
    ASSUME IInv, NEW st \in Statuses, ~Failing, rpc # "handling",
           CallAllErrorHandlers(st),
           phase' \in Phases, reader' \in BOOLEAN,
           connectionId' \in ConnectionIds \cup {0},
           phase' = "closed" \/ st \in {"kIdle", "kError"}
    PROVE  IInv'
<1> USE DEF CallAllErrorHandlers
<1>1. /\ handler = NoHandler /\ fate' = fate /\ handler' = NoHandler
      /\ rpc' = "failing" /\ Live' = DOMAIN map /\ Live = DOMAIN map
    BY DEF IInv, PositionsAgree, Live, Failing
<1>2. TypeOK'
    BY <1>1 DEF IInv, TypeOK, Positions
<1>3. ChecksHold' /\ MapsInverse' /\ CalledOnce' /\ FatesAgree'
    BY <1>1 DEF IInv, ChecksHold, MapsInverse, CalledOnce, FatesAgree
<1>4. PositionsAgree'
    BY <1>1 DEF PositionsAgree, Failing
<1>5. QED
    BY <1>2, <1>3, <1>4 DEF IInv

(* connection_id_ stays an id a drive announced, or 0.                     *)
LEMMA ConnectionIdType ==
    ASSUME IInv, NEW p \in Packets
    PROVE  NewConnectionId(p) \in ConnectionIds \cup {0}
BY DEF IInv, TypeOK, Packets, NewConnectionId

(* The actions of Receive, and the destructor, that fail everyone.         *)
LEMMA FailingActions ==
    ASSUME IInv,
           \/ ReceiveFails \/ Destroy
           \/ \E p \in Packets : ReceiveBadPacket(p)
    PROVE  IInv'
<1> USE DEF Idle, Failing, Phases, Statuses
<1>1. CASE ReceiveFails
    BY <1>1, CallAllInv DEF ReceiveFails, IInv, TypeOK
<1>2. CASE Destroy
    BY <1>2, CallAllInv DEF Destroy, IInv, TypeOK
<1>3. ASSUME NEW p \in Packets, ReceiveBadPacket(p) PROVE IInv'
    <2>1. /\ rpc = "reading" /\ reader' = FALSE /\ phase' = phase
          /\ connectionId' \in {connectionId, NewConnectionId(p)}
          /\ CallAllErrorHandlers("kIdle") \/ CallAllErrorHandlers("kError")
        BY <1>3 DEF ReceiveBadPacket
    <2>2. phase \in Phases /\ connectionId' \in ConnectionIds \cup {0}
        BY <2>1, ConnectionIdType DEF IInv, TypeOK
    <2>3. QED
        BY <2>1, <2>2, CallAllInv
<1>4. QED
    BY <1>1, <1>2, <1>3

(* A response nobody waits for.                                            *)
LEMMA ReceiveUnknownInv ==
    ASSUME IInv, NEW p \in Packets, ReceiveUnknown(p)
    PROVE  IInv'
<1> USE DEF ReceiveUnknown
<1>1. TypeOK'
    BY ConnectionIdType DEF IInv, TypeOK
<1>2. ChecksHold' /\ MapsInverse' /\ CalledOnce' /\ FatesAgree' /\ PositionsAgree'
    BY DEF IInv, ChecksHold, MapsInverse, CalledOnce, FatesAgree,
        PositionsAgree, Live, Failing
<1>3. QED
    BY <1>1, <1>2 DEF IInv

(* The response to a waiting request, up to the call of its handler.       *)
LEMMA ReceiveResponseInv ==
    ASSUME IInv, NEW p \in Packets, ReceiveResponse(p)
    PROVE  IInv'
<1> DEFINE s == AckOf(p)
           h == map[s].handler
           k == map[s].key
           what == IF p.success THEN "succeeded" ELSE "failed"
<1>1. /\ rpc = "reading" /\ rpc' = "handling" /\ s \in DOMAIN map
      /\ Live = DOMAIN map /\ Live' = DOMAIN map'
    BY DEF ReceiveResponse, Live, Failing
<1>2. /\ h \in AllHandlers /\ fate[h] = << >>
      /\ k \in DOMAIN seqOfKey /\ seqOfKey[k] = s
    BY <1>1 DEF IInv, TypeOK, Entry, FatesAgree, MapsInverse
<1>3. map' = Erase(map, s) /\ seqOfKey' = Erase(seqOfKey, k) /\ handler' = h
    BY DEF ReceiveResponse
<1>4. /\ DOMAIN map' = DOMAIN map \ {s}
      /\ \A t \in DOMAIN map \ {s} : map'[t] = map[t]
      /\ DOMAIN seqOfKey' = DOMAIN seqOfKey \ {k}
      /\ \A j \in DOMAIN seqOfKey \ {k} : seqOfKey'[j] = seqOfKey[j]
    BY <1>3, EraseFacts
<1>5. /\ fate' \in [AllHandlers -> Seq(Fates)] /\ CalledOnce'
      /\ \A g \in AllHandlers \ {h} : fate'[g] = fate[g]
    <2>1. fate' = Record(h, what)
        BY DEF ReceiveResponse
    <2>2. what \in Fates
        BY DEF Fates
    <2>3. QED
        BY <1>2, <2>1, <2>2, FirstFate DEF IInv, TypeOK
<1>6. TypeOK'
    <2>1. map' \in [DOMAIN map' -> Entry] /\ seqOfKey' \in [DOMAIN seqOfKey' -> AllSeqs]
        BY <1>3, <1>4, EraseFacts DEF IInv, TypeOK
    <2>2. unvisited' \subseteq DOMAIN map'
        BY <1>1, <1>4 DEF ReceiveResponse, IInv, PositionsAgree, Failing
    <2>3. QED
        BY <1>2, <1>3, <1>4, <1>5, <2>1, <2>2, ConnectionIdType
        DEF ReceiveResponse, IInv, TypeOK, Positions
<1>7. ChecksHold'
    BY <1>2 DEF ReceiveResponse, ChecksHold
<1>8. MapsInverse'
    BY <1>1, <1>2, <1>4 DEF IInv, MapsInverse
<1>9. FatesAgree'
    <2>1. \A t \in Live' : map'[t].handler \in AllHandlers \ {h}
        BY <1>1, <1>4 DEF IInv, TypeOK, Entry, FatesAgree
    <2>2. QED
        BY <1>1, <1>4, <1>5, <2>1 DEF IInv, FatesAgree
<1>10. PositionsAgree'
    BY <1>1, <1>2, <1>3, ConstantsOK
    DEF ReceiveResponse, IInv, ConstantsOK, PositionsAgree, Failing, AllHandlers
<1>11. QED
    BY <1>5, <1>6, <1>7, <1>8, <1>9, <1>10 DEF IInv

(* One turn of the loop of CallAllErrorHandlers, up to the call of Error.  *)
LEMMA CallErrorHandlerInv ==
    ASSUME IInv, NEW s \in AllSeqs, CallErrorHandler(s)
    PROVE  IInv'
<1> DEFINE h == map[s].handler
           k == map[s].key
<1>1. /\ rpc = "failing" /\ rpc' = "erroring" /\ s \in Live
      /\ s \in DOMAIN map /\ Live = unvisited /\ Live' = unvisited \ {s}
      /\ Live \subseteq DOMAIN map /\ map' = map
    BY DEF CallErrorHandler, Live, Failing, IInv, TypeOK
<1>2. /\ h \in AllHandlers /\ fate[h] = << >>
      /\ k \in DOMAIN seqOfKey /\ seqOfKey[k] = s
    BY <1>1 DEF IInv, TypeOK, Entry, FatesAgree, MapsInverse
<1>3. /\ DOMAIN seqOfKey' = DOMAIN seqOfKey \ {k}
      /\ \A j \in DOMAIN seqOfKey \ {k} : seqOfKey'[j] = seqOfKey[j]
      /\ seqOfKey' \in [DOMAIN seqOfKey' -> AllSeqs]
    BY EraseFacts, ZenonT(30) DEF CallErrorHandler, IInv, TypeOK
<1>4. /\ fate' \in [AllHandlers -> Seq(Fates)] /\ CalledOnce' /\ fate'[h] # << >>
      /\ \A g \in AllHandlers \ {h} : fate'[g] = fate[g]
    <2>1. fate' = Record(h, "failed")
        BY DEF CallErrorHandler
    <2>2. QED
        BY <1>2, <2>1, FirstFate DEF IInv, TypeOK, Fates
<1>5. TypeOK' /\ ChecksHold'
    BY <1>1, <1>2, <1>3, <1>4
    DEF CallErrorHandler, IInv, TypeOK, ChecksHold, Positions
<1>6. MapsInverse'
    BY <1>1, <1>2, <1>3 DEF IInv, MapsInverse
<1>7. FatesAgree'
    <2>1. \A t \in Live' : map[t].handler \in AllHandlers \ {h}
        BY <1>1 DEF IInv, TypeOK, Entry, FatesAgree
    <2>2. \A t \in DOMAIN map \ Live' : fate'[map[t].handler] # << >>
        BY <1>1, <1>4 DEF IInv, TypeOK, Entry, FatesAgree
    <2>3. QED
        BY <1>1, <1>4, <2>1, <2>2 DEF IInv, FatesAgree
<1>8. PositionsAgree'
    BY <1>1 DEF CallErrorHandler, IInv, PositionsAgree, Failing
<1>9. QED
    BY <1>4, <1>5, <1>6, <1>7, <1>8 DEF IInv

(* map_.clear() at the end of CallAllErrorHandlers.                        *)
LEMMA AllCalledInv ==
    ASSUME IInv, AllErrorHandlersCalled
    PROVE  IInv'
<1>1. DOMAIN map' = {} /\ Live' = {} /\ Live = {} /\ rpc = "failing" /\ rpc' = "out"
    BY DEF AllErrorHandlersCalled, Restrict, Live, Failing
<1>2. TypeOK'
    BY <1>1 DEF AllErrorHandlersCalled, Restrict, IInv, TypeOK, Positions
<1>3. ChecksHold' /\ MapsInverse' /\ CalledOnce' /\ FatesAgree' /\ PositionsAgree'
    BY <1>1 DEF AllErrorHandlersCalled, IInv, ChecksHold, MapsInverse,
        CalledOnce, FatesAgree, PositionsAgree, Failing
<1>4. QED
    BY <1>2, <1>3 DEF IInv

-----------------------------------------------------------------------------
(* Every step of the receiver preserves IInv.                              *)
LEMMA NextInv == IInv /\ [Next]_rcvVars => IInv'
BY EnqueueInv, EnqueueRefusesInv, RemoveInv, QuietActions, FailingActions,
   ReceiveUnknownInv, ReceiveResponseInv, CallErrorHandlerInv, AllCalledInv
DEF Next, Call, Read, Progress

(* The invariant holds in every reachable state.                           *)
THEOREM Invariance == Spec => []IInv
<1>1. QED
    BY InitInv, NextInv, PTL DEF Spec

(* Every variable keeps its type, and the loop of CallAllErrorHandlers     *)
(* never stands on an entry some handler has erased.                       *)
THEOREM TypeCorrect == Spec => []TypeOK
<1>1. IInv => TypeOK
    BY DEF IInv
<1>2. QED
    BY <1>1, Invariance, PTL

(* No CHECK of the receiver ever aborts the program.                       *)
THEOREM NoCheckFails == Spec => []ChecksHold
<1>1. IInv => ChecksHold
    BY DEF IInv
<1>2. QED
    BY <1>1, Invariance, PTL

(* map_ and handler_to_message_seq_map_ stay inverse to each other.        *)
THEOREM MapsStayInverse == Spec => []MapsInverse
<1>1. IInv => MapsInverse
    BY DEF IInv
<1>2. QED
    BY <1>1, Invariance, PTL

(* No handler is called twice, or called after it was removed or refused.  *)
THEOREM AtMostOneCall == Spec => []CalledOnce
<1>1. IInv => CalledOnce
    BY DEF IInv
<1>2. QED
    BY <1>1, Invariance, PTL

-----------------------------------------------------------------------------
(* Erasing the entry of s hides only the handler of s.                     *)
LEMMA OneErased ==
    ASSUME NEW s \in DOMAIN map, map' = Erase(map, s), NEW h \in Waiting,
           h \notin Waiting'
    PROVE  h = map[s].handler
<1>1. PICK t \in DOMAIN map : h = map[t].handler
    BY DEF Waiting
<1>2. ASSUME t # s PROVE FALSE
    <2>1. t \in DOMAIN map' /\ map'[t] = map[t]
        BY <1>2, EraseFacts, ZenonT(30)
    <2>2. QED
        BY <1>1, <2>1 DEF Waiting
<1>3. QED
    BY <1>1, <1>2

(* A handler only stops waiting in a step that gives it its fate, or when  *)
(* it has one already.                                                     *)
THEOREM NoneDropped == Spec => NeverDropped
<1>1. ASSUME IInv, Next, NEW h \in Waiting, h \notin Waiting'
      PROVE  fate'[h] # << >>
    <2>1. /\ h \in AllHandlers
          /\ Live \subseteq DOMAIN map
          /\ fate \in [AllHandlers -> Seq(Fates)] /\ CalledOnce
        BY <1>1 DEF Waiting, IInv, TypeOK, Entry, Live, Failing
    <2>2. map' # map
        BY <1>1 DEF Waiting
    <2>3. CASE \E g \in Handlers, s \in Seqs, k \in Keys : Enqueue(g, s, k)
        <3>1. PICK g \in Handlers, s \in Seqs, k \in Keys : Enqueue(g, s, k)
            BY <2>3
        <3>2. PICK t \in DOMAIN map : h = map[t].handler
            BY <1>1 DEF Waiting
        <3>3. t \in DOMAIN map' /\ map'[t] = map[t]
            BY <3>1, <3>2 DEF Enqueue, Accepts, Put
        <3>4. QED
            BY <1>1, <3>2, <3>3 DEF Waiting
    <2>4. CASE \E k \in Keys : Remove(k)
        <3>1. PICK k \in Keys : Remove(k)
            BY <2>4
        <3> DEFINE s == seqOfKey[k]
        <3>2. s \in Live /\ s \in DOMAIN map /\ map' = Erase(map, s)
            BY <1>1, <2>1, <3>1 DEF Remove, IInv, MapsInverse
        <3>3. h = map[s].handler
            BY <1>1, <3>2, OneErased
        <3>4. fate[h] = << >> /\ fate' = Record(h, "removed")
            BY <1>1, <3>1, <3>2, <3>3 DEF Remove, IInv, FatesAgree
        <3>5. QED
            BY <2>1, <3>4, FirstFate DEF Fates
    <2>5. CASE \E p \in Packets : ReceiveResponse(p)
        <3>1. PICK p \in Packets : ReceiveResponse(p)
            BY <2>5
        <3> DEFINE s == AckOf(p)
                   what == IF p.success THEN "succeeded" ELSE "failed"
        <3>2. s \in DOMAIN map /\ s \in Live /\ map' = Erase(map, s)
            BY <3>1 DEF ReceiveResponse, Live, Failing
        <3>3. h = map[s].handler
            BY <1>1, <3>2, OneErased
        <3>4. fate[h] = << >> /\ fate' = Record(h, what) /\ what \in Fates
            BY <1>1, <3>1, <3>2, <3>3 DEF ReceiveResponse, IInv, FatesAgree, Fates
        <3>5. QED
            BY <2>1, <3>4, FirstFate
    <2>6. CASE AllErrorHandlersCalled
        <3>1. Live = {} /\ fate' = fate
            BY <2>6 DEF AllErrorHandlersCalled, Live, Failing
        <3>2. QED
            BY <1>1, <3>1 DEF Waiting, IInv, FatesAgree
    <2>7. QED
        BY <1>1, <2>2, <2>3, <2>4, <2>5, <2>6
        DEF Next, Call, Read, Progress, EnqueueRefuses, CallReceive, Destroy,
            ReceiveWaits, ReceiveFails, ReceiveBadPacket, ReceiveUnknown,
            CallAllErrorHandlers, ReceiveIdle, HandlerReturns,
            CallErrorHandler, ErrorHandlerReturns, HandshakeReceivesAgain,
            HandshakeSucceeds, HandshakeThrows
<1>2. IInv /\ [Next]_rcvVars
      => [\A h \in Waiting : h \notin Waiting' => fate'[h] # << >>]_rcvVars
    BY <1>1
<1>3. QED
    BY <1>2, Invariance, PTL DEF Spec, NeverDropped

(* kIdle and kError leave nobody waiting; kIoWait leaves a reader.         *)
THEOREM ReturnsTruly == Spec => ReturnIsTrue
<1>1. ASSUME IInv, Next, ~Idle, Idle', phase # "closed"
      PROVE  /\ status' \in {"kIdle", "kError"} => Waiting' = {}
             /\ status' = "kIoWait" => reader'
    <2>1. CASE ReceiveIdle
        BY <2>1 DEF ReceiveIdle, NothingToRead, Return, Waiting
    <2>2. CASE ReceiveWaits
        BY <2>2 DEF ReceiveWaits, Return
    <2>3. CASE AllErrorHandlersCalled
        <3>1. DOMAIN map' = {}
            BY <2>3 DEF AllErrorHandlersCalled, Restrict
        <3>2. status' \in {"kIdle", "kError"}
            BY <1>1, <2>3 DEF AllErrorHandlersCalled, IInv, PositionsAgree, Failing
        <3>3. QED
            BY <3>1, <3>2 DEF Waiting
    <2>4. QED
        BY <1>1, <2>1, <2>2, <2>3
        DEF Idle, Next, Call, Read, Progress, Enqueue, EnqueueRefuses, Remove,
            CallReceive, Destroy, ReceiveFails, ReceiveBadPacket,
            ReceiveUnknown, ReceiveResponse, CallAllErrorHandlers,
            HandlerReturns, CallErrorHandler, ErrorHandlerReturns,
            HandshakeReceivesAgain, HandshakeSucceeds, HandshakeThrows
<1>2. QED
    BY <1>1, Invariance, PTL DEF Spec, ReturnIsTrue
=============================================================================
