---------------------- MODULE NonblockingSenderProofs ----------------------
(* Theorems about NonblockingSender: its invariants and action properties, *)
(* for any handlers, keys and connection ids.                              *)
EXTENDS NonblockingSender, SequenceTheorems, TLAPS

(* The sequence operations Send and Remove use, element by element.        *)
LEMMA TailFacts ==
    ASSUME NEW T, NEW s \in Seq(T), s # << >>
    PROVE  /\ Head(s) = s[1] /\ s[1] \in T /\ Tail(s) \in Seq(T)
           /\ Len(s) \in Nat /\ Len(s) >= 1 /\ Len(Tail(s)) = Len(s) - 1
           /\ \A j \in 1 .. Len(Tail(s)) : j + 1 \in 1 .. Len(s) /\ Tail(s)[j] = s[j + 1]
OBVIOUS

LEMMA AppendFacts ==
    ASSUME NEW T, NEW s \in Seq(T), NEW e \in T
    PROVE  /\ Append(s, e) \in Seq(T)
           /\ Len(s) \in Nat /\ Len(Append(s, e)) = Len(s) + 1
           /\ Append(s, e)[Len(s) + 1] = e
           /\ \A j \in 1 .. Len(s) : Append(s, e)[j] = s[j]
OBVIOUS

LEMMA RemoveAtFacts ==
    ASSUME NEW T, NEW s \in Seq(T), NEW i \in 1 .. Len(s)
    PROVE  /\ RemoveAt(s, i) \in Seq(T)
           /\ Len(s) \in Nat /\ Len(RemoveAt(s, i)) = Len(s) - 1
           /\ \A j \in 1 .. Len(s) - 1 :
                RemoveAt(s, i)[j] = IF j < i THEN s[j] ELSE s[j + 1]
<1> DEFINE a == SubSeq(s, 1, i - 1)
           b == SubSeq(s, i + 1, Len(s))
<1>1. Len(s) \in Nat /\ i \in Int /\ \A j \in 1 .. Len(s) : s[j] \in T
    BY LenProperties, ElementOfSeq
<1>2. a \in Seq(T) /\ Len(a) = i - 1 /\ \A j \in 1 .. i - 1 : a[j] = s[j]
    BY <1>1, SubSeqProperties
<1>3. b \in Seq(T) /\ Len(b) = Len(s) - i /\ \A j \in 1 .. Len(s) - i : b[j] = s[i + j]
    <2>1. \A j \in i + 1 .. Len(s) : s[j] \in T
        BY <1>1
    <2>2. \A j \in 1 .. Len(s) - i : b[j] = s[(i + 1) + j - 1]
        BY <1>1, <2>1, SubSeqProperties
    <2>3. QED
        BY <1>1, <2>1, <2>2, SubSeqProperties
<1>4. RemoveAt(s, i) = a \o b
    BY DEF RemoveAt
<1> HIDE DEF a, b
<1>5. /\ a \o b \in Seq(T) /\ Len(a \o b) = Len(s) - 1
      /\ \A j \in 1 .. Len(s) - 1 : (a \o b)[j] = IF j <= i - 1 THEN a[j] ELSE b[j - (i - 1)]
    <2>1. /\ a \o b \in Seq(T) /\ Len(a \o b) = Len(a) + Len(b)
          /\ \A j \in 1 .. Len(a) + Len(b) :
                (a \o b)[j] = IF j <= Len(a) THEN a[j] ELSE b[j - Len(a)]
        BY <1>2, <1>3, ConcatProperties, Zenon
    <2>2. Len(a) + Len(b) = Len(s) - 1
        BY <1>1, <1>2, <1>3
    <2>3. QED
        BY <1>2, <2>1, <2>2
<1>6. ASSUME NEW j \in 1 .. Len(s) - 1
      PROVE  (a \o b)[j] = IF j < i THEN s[j] ELSE s[j + 1]
    <2>1. CASE j < i
        BY <1>1, <1>2, <1>5, <2>1
    <2>2. CASE ~(j < i)
        <3>1. j - (i - 1) \in 1 .. Len(s) - i /\ i + (j - (i - 1)) = j + 1
            BY <1>1, <2>2
        <3>2. (a \o b)[j] = b[j - (i - 1)]
            BY <1>1, <1>5, <2>2
        <3>3. b[j - (i - 1)] = s[i + (j - (i - 1))]
            BY <1>3, <3>1
        <3>4. QED
            BY <1>1, <2>2, <3>1, <3>2, <3>3
    <2>3. QED
        BY <2>1, <2>2
<1>7. QED
    BY <1>1, <1>4, <1>5, <1>6

(* The sequence numbers of a sequence of requests grow; its handlers are   *)
(* all different.                                                          *)
Growing(q) == \A i, j \in 1 .. Len(q) : i < j => q[i].seq < q[j].seq
Different(q) == \A i, j \in 1 .. Len(q) : q[i].handler = q[j].handler => i = j

(* Taking the first request off a queue.                                   *)
LEMMA TailKeeps ==
    ASSUME NEW q \in Seq(Request), q # << >>, Growing(q), Different(q)
    PROVE  /\ Growing(Tail(q)) /\ Different(Tail(q))
           /\ \A j \in 1 .. Len(Tail(q)) :
                /\ q[1].seq < Tail(q)[j].seq
                /\ q[1].handler # Tail(q)[j].handler
                /\ \E n \in 1 .. Len(q) : Tail(q)[j] = q[n]
<1>1. /\ Len(q) \in Nat /\ Len(q) >= 1 /\ Len(Tail(q)) = Len(q) - 1
      /\ \A j \in 1 .. Len(Tail(q)) : j + 1 \in 1 .. Len(q) /\ Tail(q)[j] = q[j + 1]
    BY TailFacts
<1> DEFINE t == Tail(q)
<1> HIDE DEF t
<1>2. /\ Len(t) = Len(q) - 1
      /\ \A j \in 1 .. Len(t) : j + 1 \in 1 .. Len(q) /\ t[j] = q[j + 1]
    BY <1>1 DEF t
<1>3. Growing(t)
    BY <1>1, <1>2 DEF Growing
<1>4. Different(t)
    BY <1>1, <1>2 DEF Different
<1>5. \A j \in 1 .. Len(t) : /\ q[1].seq < t[j].seq
                             /\ q[1].handler # t[j].handler
                             /\ \E n \in 1 .. Len(q) : t[j] = q[n]
    BY <1>1, <1>2 DEF Growing, Different
<1>6. QED
    BY <1>3, <1>4, <1>5 DEF t

(* Taking the i-th request off a queue.                                    *)
LEMMA RemoveKeeps ==
    ASSUME NEW q \in Seq(Request), NEW i \in 1 .. Len(q), Growing(q), Different(q)
    PROVE  /\ Growing(RemoveAt(q, i)) /\ Different(RemoveAt(q, i))
           /\ \A j \in 1 .. Len(RemoveAt(q, i)) :
                /\ q[i].handler # RemoveAt(q, i)[j].handler
                /\ \E n \in 1 .. Len(q) : RemoveAt(q, i)[j] = q[n]
           /\ \A n \in 1 .. Len(q) :
                n # i => \E j \in 1 .. Len(RemoveAt(q, i)) : RemoveAt(q, i)[j] = q[n]
<1> DEFINE t == RemoveAt(q, i)
           e(j) == IF j < i THEN j ELSE j + 1
<1>1. /\ Len(q) \in Nat /\ Len(t) = Len(q) - 1
      /\ \A j \in 1 .. Len(q) - 1 : t[j] = IF j < i THEN q[j] ELSE q[j + 1]
    BY RemoveAtFacts
<1> HIDE DEF t
<1>2. \A j \in 1 .. Len(t) : e(j) \in 1 .. Len(q) /\ e(j) # i /\ t[j] = q[e(j)]
    BY <1>1
<1>3. \A j, k \in 1 .. Len(t) : /\ j < k => e(j) < e(k)
                                /\ e(j) = e(k) => j = k
    BY <1>1
<1> HIDE DEF e
<1>4. Growing(t)
    BY <1>2, <1>3 DEF Growing
<1>5. Different(t)
    BY <1>2, <1>3 DEF Different
<1>6. \A j \in 1 .. Len(t) : /\ q[i].handler # t[j].handler
                             /\ \E n \in 1 .. Len(q) : t[j] = q[n]
    BY <1>2 DEF Different
<1>7. ASSUME NEW n \in 1 .. Len(q), n # i
      PROVE  \E j \in 1 .. Len(t) : t[j] = q[n]
    <2>1. CASE n < i
        <3>1. n \in 1 .. Len(t) /\ t[n] = q[n]
            BY <1>1, <2>1
        <3>2. QED
            BY <3>1
    <2>2. CASE ~(n < i)
        <3>1. n - 1 \in 1 .. Len(t) /\ ~(n - 1 < i) /\ (n - 1) + 1 = n
            BY <1>1, <1>7, <2>2
        <3>2. t[n - 1] = q[n]
            BY <1>1, <3>1
        <3>3. QED
            BY <3>1, <3>2
    <2>3. QED
        BY <2>1, <2>2
<1>8. QED
    BY <1>4, <1>5, <1>6, <1>7 DEF t

-----------------------------------------------------------------------------
(* The inductive invariant.                                                *)

(* A handler is held once -- in the queue or with the request being        *)
(* written -- and has no fate until Send calls it.                         *)
HeldOnce ==
    /\ Different(queue)
    /\ \A i \in 1 .. Len(queue) :
        fate[queue[i].handler] = << >> /\ queue[i].handler # writing
    /\ writing # NoHandler =>
        (fate[writing] = << >> <=> spc \notin {"refused", "failed"})

(* Sequence numbers grow from the wire over the request being written and  *)
(* the queue to the next one.                                              *)
NumbersGrow ==
    /\ Growing(sent) /\ Growing(queue)
    /\ \A i \in 1 .. Len(sent), j \in 1 .. Len(queue) : sent[i].seq < queue[j].seq
    /\ \A i \in 1 .. Len(sent) : sent[i].seq < nextSeq
    /\ \A j \in 1 .. Len(queue) : queue[j].seq < nextSeq
    /\ writer # NoWriter =>
        /\ writer.seq < nextSeq
        /\ \A i \in 1 .. Len(sent) : sent[i].seq < writer.seq
        /\ \A j \in 1 .. Len(queue) : writer.seq < queue[j].seq

(* What each position of Send knows of the request being written.          *)
PositionsKnow ==
    /\ spc = "sending" => (writer = NoWriter <=> writing = NoHandler)
    /\ spc = "refused" => writer = NoWriter
    /\ spc \in {"sending", "refused", "failed"} => sphase = "open"
    /\ spc \in {"draining", "drained"} /\ sphase = "open" => writing = NoHandler
    /\ sphase = "closed" => spc = "out"

(* Each handler has one fate at most.                                      *)
CalledOnce == \A h \in Handlers : Len(fate[h]) <= 1

SInv == SenderTypeOK /\ CalledOnce /\ HeldOnce /\ NumbersGrow /\ PositionsKnow

(* The sender is created in SInv: it holds nothing.                        *)
LEMMA SenderInitInv == SenderAlone => SInv
<1> SUFFICES ASSUME SenderAlone PROVE SInv
    OBVIOUS
<1>1. queue = << >> /\ sent = << >> /\ Len(queue) = 0 /\ Len(sent) = 0
    BY DEF SenderAlone, SenderInit
<1>2. SenderTypeOK
    BY DEF SenderAlone, SenderInit, SenderTypeOK, SendPositions
<1>3. CalledOnce
    BY DEF SenderAlone, CalledOnce
<1>4. HeldOnce /\ NumbersGrow
    BY <1>1 DEF SenderAlone, SenderInit, HeldOnce, NumbersGrow, Growing, Different
<1>5. PositionsKnow
    BY DEF SenderAlone, SenderInit, PositionsKnow
<1>6. QED
    BY <1>2, <1>3, <1>4, <1>5 DEF SInv

(* A handler without a fate gets its first one.                            *)
LEMMA FirstFated ==
    ASSUME NEW h \in Handlers, NEW what \in SendFates,
           fate \in [Handlers -> Seq(SendFates)], CalledOnce,
           fate[h] = << >>, fate' = Fated(h, what)
    PROVE  /\ fate' \in [Handlers -> Seq(SendFates)] /\ CalledOnce'
           /\ fate'[h] # << >>
           /\ \A g \in Handlers \ {h} : fate'[g] = fate[g]
<1> DEFINE q == Append(<< >>, what)
<1>1. q \in Seq(SendFates) /\ Len(q) = 1
    OBVIOUS
<1>2. fate' = [fate EXCEPT ![h] = q]
    BY DEF Fated
<1>3. q # << >>
    BY <1>1
<1> HIDE DEF q
<1>4. /\ fate' \in [Handlers -> Seq(SendFates)] /\ fate'[h] = q
      /\ \A g \in Handlers \ {h} : fate'[g] = fate[g]
    BY <1>1, <1>2
<1>5. ASSUME NEW g \in Handlers PROVE Len(fate'[g]) <= 1
    <2>1. CASE g = h
        <3>1. Len(fate'[g]) = 1
            BY <1>1, <1>4, <2>1, Zenon
        <3>2. QED
            BY <3>1
    <2>2. CASE g # h
        BY <1>4, <2>2 DEF CalledOnce
    <2>3. QED
        BY <2>1, <2>2
<1>6. QED
    BY <1>3, <1>4, <1>5 DEF CalledOnce

(* Every queued request is a request.                                      *)
LEMMA QueuedAreRequests ==
    ASSUME SenderTypeOK
    PROVE  /\ queue \in Seq(Request) /\ Len(queue) \in Nat
           /\ DOMAIN queue = 1 .. Len(queue)
           /\ \A i \in 1 .. Len(queue) :
                /\ queue[i] \in Request
                /\ queue[i].handler \in Handlers /\ queue[i].key \in Keys
                /\ queue[i].seq \in Nat /\ queue[i].id \in Ids
<1>1. queue \in Seq(Request)
    BY DEF SenderTypeOK
<1>2. \A i \in 1 .. Len(queue) : queue[i] \in Request
    BY <1>1, ElementOfSeq
<1>3. QED
    BY <1>1, <1>2, LenProperties DEF Request

(* Every sequence number given out so far is a number.                     *)
LEMMA NumbersAreNumbers ==
    ASSUME SenderTypeOK
    PROVE  /\ nextSeq \in Nat /\ Len(sent) \in Nat
           /\ \A j \in 1 .. Len(queue) : queue[j].seq \in Nat
           /\ \A j \in 1 .. Len(sent) : sent[j].seq \in Nat
           /\ writer # NoWriter => writer.seq \in Nat
<1> DEFINE T == [handler : Handlers, seq : Nat, id : Ids]
<1>1. sent \in Seq(T)
    BY DEF SenderTypeOK
<1>2. Len(sent) \in Nat /\ \A j \in 1 .. Len(sent) : sent[j] \in T
    BY <1>1, ElementOfSeq, LenProperties
<1>3. QED
    BY <1>2, QueuedAreRequests DEF SenderTypeOK

(* Steps that change neither the queue nor a fate, and at most forget the  *)
(* request being written.                                                  *)
LEMMA QuietSend ==
    ASSUME SInv, UNCHANGED <<queue, nextSeq, sent, fate>>,
           writer' \in {writer, NoWriter}, writing' \in {writing, NoHandler},
           sphase' \in {"open", "closing", "closed"}, spc' \in SendPositions,
           sstatus' \in {"none", "kIdle", "kIoWait", "kError"},
           writing' # NoHandler =>
               (spc \in {"refused", "failed"} <=> spc' \in {"refused", "failed"}),
           spc' = "out" /\ sstatus' # "kError" =>
               (writer' = NoWriter <=> writing' = NoHandler),
           PositionsKnow'
    PROVE  SInv'
<1>1. SenderTypeOK'
    BY DEF SInv, SenderTypeOK
<1>2. CalledOnce'
    BY DEF SInv, CalledOnce
<1>3. \A i \in 1 .. Len(queue) : queue[i].handler \in Handlers
    BY QueuedAreRequests DEF SInv
<1>4. HeldOnce'
    BY <1>3, SenderConstantsOK DEF SInv, HeldOnce, Different
<1>5. NumbersGrow'
    BY DEF SInv, NumbersGrow, Growing
<1>6. QED
    BY <1>1, <1>2, <1>4, <1>5 DEF SInv

(* CallSend, what Send returns, handlers that return, and the ends of the  *)
(* destructor.                                                             *)
LEMMA QuietSendActions ==
    ASSUME SInv,
           \/ CallSend \/ SendIdle \/ WriteWaits \/ RefusedReturns
           \/ FailedReturns \/ DrainedReturns \/ DrainEnds \/ DestroySender
           \/ MembersDestroyed
    PROVE  SInv'
<1>1. CASE CallSend
    BY <1>1, QuietSend DEF CallSend, SInv, SenderTypeOK, PositionsKnow, SendPositions
<1>2. CASE SendIdle
    BY <1>2, QuietSend DEF SendIdle, SendReturns, SInv, SenderTypeOK, PositionsKnow, SendPositions
<1>3. CASE WriteWaits
    BY <1>3, QuietSend DEF WriteWaits, SendReturns, SInv, SenderTypeOK, PositionsKnow, SendPositions
<1>4. CASE RefusedReturns
    BY <1>4, QuietSend DEF RefusedReturns, SInv, SenderTypeOK, PositionsKnow, SendPositions
<1>5. CASE FailedReturns
    BY <1>5, QuietSend DEF FailedReturns, SInv, SenderTypeOK, PositionsKnow, SendPositions
<1>6. CASE DrainedReturns
    BY <1>6, QuietSend DEF DrainedReturns, SInv, SenderTypeOK, PositionsKnow, SendPositions
<1>7. CASE DrainEnds
    BY <1>7, QuietSend DEF DrainEnds, SendReturns, SInv, SenderTypeOK, PositionsKnow, SendPositions
<1>8. CASE DestroySender
    BY <1>8, QuietSend DEF DestroySender, SInv, SenderTypeOK, PositionsKnow, SendPositions
<1>9. CASE MembersDestroyed
    BY <1>9, QuietSend DEF MembersDestroyed, SInv, SenderTypeOK, PositionsKnow, SendPositions
<1>10. QED
    BY <1>1, <1>2, <1>3, <1>4, <1>5, <1>6, <1>7, <1>8, <1>9

(* Enqueue puts a new handler, with the next number, at the end.           *)
LEMMA EnqueueKeeps ==
    ASSUME SInv, NEW h \in Handlers, NEW k \in Keys, NEW id \in Ids,
           NewHandler(h), Enqueue(h, k, id)
    PROVE  SInv'
<1> DEFINE r == [handler |-> h, key |-> k, seq |-> nextSeq, id |-> id]
<1>1. r \in Request /\ r.handler = h /\ r.seq = nextSeq
    BY DEF SInv, SenderTypeOK, Request
<1>2. /\ queue' = Append(queue, r) /\ nextSeq' = nextSeq + 1
      /\ UNCHANGED <<sphase, writer, writing, sent, spc, sstatus, fate>>
    BY DEF Enqueue
<1> HIDE DEF r
<1>3. /\ queue' \in Seq(Request) /\ Len(queue) \in Nat
      /\ Len(queue') = Len(queue) + 1 /\ queue'[Len(queue) + 1] = r
      /\ \A j \in 1 .. Len(queue) : queue'[j] = queue[j]
    BY <1>1, <1>2, QueuedAreRequests, AppendFacts DEF SInv
<1>4. fate[h] = << >> /\ h # writing /\ \A j \in 1 .. Len(queue) : queue[j].handler # h
    <2>1. h \notin HandlersQueued /\ h \notin {writing} \ {NoHandler} /\ h # NoHandler
        BY SenderConstantsOK DEF NewHandler, Held
    <2>2. \A j \in 1 .. Len(queue) : queue[j].handler \in HandlersQueued
        BY QueuedAreRequests DEF SInv, HandlersQueued, ToSet
    <2>3. QED
        BY <2>1, <2>2 DEF NewHandler
<1>5. SenderTypeOK'
    BY <1>2, <1>3 DEF SInv, SenderTypeOK
<1>6. CalledOnce' /\ PositionsKnow'
    BY <1>2 DEF SInv, CalledOnce, PositionsKnow
<1>7. HeldOnce'
    <2>1. Different(queue')
        BY <1>1, <1>3, <1>4 DEF SInv, HeldOnce, Different
    <2>2. \A i \in 1 .. Len(queue') :
            fate[queue'[i].handler] = << >> /\ queue'[i].handler # writing
        BY <1>1, <1>3, <1>4 DEF SInv, HeldOnce
    <2>3. QED
        BY <1>2, <2>1, <2>2 DEF SInv, HeldOnce
<1>8. NumbersGrow'
    <2>1. /\ nextSeq \in Nat /\ \A j \in 1 .. Len(queue) : queue[j].seq \in Nat
          /\ \A j \in 1 .. Len(sent) : sent[j].seq \in Nat
          /\ writer # NoWriter => writer.seq \in Nat
        BY NumbersAreNumbers DEF SInv
    <2>2. Growing(queue')
        <3>1. /\ \A i, j \in 1 .. Len(queue) : i < j => queue[i].seq < queue[j].seq
              /\ \A j \in 1 .. Len(queue) : queue[j].seq < nextSeq
            BY DEF SInv, NumbersGrow, Growing
        <3>2. ASSUME NEW i \in 1 .. Len(queue'), NEW j \in 1 .. Len(queue'), i < j
              PROVE  queue'[i].seq < queue'[j].seq
            <4>1. i \in 1 .. Len(queue) /\ queue'[i] = queue[i]
                BY <1>3, <3>2
            <4>2. CASE j \in 1 .. Len(queue)
                BY <1>3, <3>1, <3>2, <4>1, <4>2
            <4>3. CASE j = Len(queue) + 1
                BY <1>1, <1>3, <3>1, <4>1, <4>3
            <4>4. QED
                BY <1>3, <4>2, <4>3
        <3>3. QED
            BY <3>2 DEF Growing
    <2>3. \A j \in 1 .. Len(queue') : queue'[j].seq < nextSeq'
        BY <1>1, <1>2, <1>3, <2>1 DEF SInv, NumbersGrow
    <2>4. \A i \in 1 .. Len(sent), j \in 1 .. Len(queue') : sent[i].seq < queue'[j].seq
        BY <1>1, <1>3 DEF SInv, NumbersGrow
    <2>5. writer # NoWriter =>
            writer.seq < nextSeq' /\ \A j \in 1 .. Len(queue') : writer.seq < queue'[j].seq
        BY <1>1, <1>2, <1>3, <2>1 DEF SInv, NumbersGrow
    <2>6. \A i \in 1 .. Len(sent) : sent[i].seq < nextSeq'
        BY <1>2, <2>1 DEF SInv, NumbersGrow
    <2>7. QED
        BY <1>2, <2>2, <2>3, <2>4, <2>5, <2>6 DEF SInv, NumbersGrow
<1>9. QED
    BY <1>5, <1>6, <1>7, <1>8 DEF SInv

(* A queue that loses some requests keeps what SInv says about it.         *)
LEMMA ShorterQueue ==
    ASSUME SInv, queue' \in Seq(Request), Growing(queue'), Different(queue'),
           \A j \in 1 .. Len(queue') : \E n \in 1 .. Len(queue) : queue'[j] = queue[n],
           UNCHANGED <<nextSeq, sent>>,
           writer' = writer
    PROVE  NumbersGrow'
BY DEF SInv, NumbersGrow

(* Remove takes one queued request out.                                    *)
LEMMA RemoveQueuedKeeps ==
    ASSUME SInv, NEW k \in Keys, RemoveQueued(k)
    PROVE  SInv'
<1>1. PICK i \in 1 .. Len(queue) : /\ queue' = RemoveAt(queue, i)
                                   /\ fate' = Fated(queue[i].handler, "removed")
    BY QueuedAreRequests DEF SInv, RemoveQueued
<1>2. UNCHANGED <<sphase, nextSeq, writer, writing, sent, spc, sstatus>>
    BY DEF RemoveQueued
<1>3. /\ queue \in Seq(Request) /\ queue' \in Seq(Request)
      /\ Growing(queue') /\ Different(queue')
      /\ \A j \in 1 .. Len(queue') : /\ queue[i].handler # queue'[j].handler
                                     /\ \E n \in 1 .. Len(queue) : queue'[j] = queue[n]
    <2>1. queue \in Seq(Request) /\ Growing(queue) /\ Different(queue)
        BY QueuedAreRequests DEF SInv, HeldOnce, NumbersGrow
    <2>2. queue' \in Seq(Request)
        BY <1>1, <2>1, RemoveAtFacts
    <2>3. QED
        BY <1>1, <2>1, <2>2, RemoveKeeps
<1>4. /\ fate' \in [Handlers -> Seq(SendFates)] /\ CalledOnce'
      /\ \A g \in Handlers \ {queue[i].handler} : fate'[g] = fate[g]
    <2>1. queue[i].handler \in Handlers /\ fate[queue[i].handler] = << >>
        BY QueuedAreRequests DEF SInv, HeldOnce
    <2>2. "removed" \in SendFates
        BY DEF SendFates
    <2>3. QED
        BY <1>1, <2>1, <2>2, FirstFated DEF SInv, SenderTypeOK
<1>5. SenderTypeOK' /\ PositionsKnow'
    BY <1>2, <1>3, <1>4 DEF SInv, SenderTypeOK, PositionsKnow
<1>6. HeldOnce'
    <2>1. \A j \in 1 .. Len(queue') : fate'[queue'[j].handler] = << >>
                                      /\ queue'[j].handler # writing
        BY <1>3, <1>4, QueuedAreRequests, ZenonT(30) DEF SInv, HeldOnce
    <2>2. writing # NoHandler => writing \in Handlers /\ writing # queue[i].handler
        BY DEF SInv, SenderTypeOK, HeldOnce
    <2>3. QED
        BY <1>2, <1>3, <1>4, <2>1, <2>2 DEF SInv, HeldOnce
<1>7. NumbersGrow'
    BY <1>2, <1>3, ShorterQueue
<1>8. QED
    BY <1>4, <1>5, <1>6, <1>7 DEF SInv

(* What Send and the destructor get when they take the first request.      *)
LEMMA FirstOfQueue ==
    ASSUME SInv, queue # << >>, queue' = Tail(queue)
    PROVE  /\ 1 \in 1 .. Len(queue) /\ Head(queue) = queue[1] /\ queue[1] \in Request
           /\ queue' \in Seq(Request) /\ Growing(queue') /\ Different(queue')
           /\ \A j \in 1 .. Len(queue') :
                /\ queue[1].seq < queue'[j].seq
                /\ queue[1].handler # queue'[j].handler
                /\ \E n \in 1 .. Len(queue) : queue'[j] = queue[n]
<1>1. queue \in Seq(Request) /\ Growing(queue) /\ Different(queue)
    BY QueuedAreRequests DEF SInv, HeldOnce, NumbersGrow
<1>2. /\ Head(queue) = queue[1] /\ queue[1] \in Request /\ Tail(queue) \in Seq(Request)
      /\ Len(queue) \in Nat /\ Len(queue) >= 1
    BY <1>1, TailFacts
<1>3. QED
    BY <1>1, <1>2, TailKeeps

(* Send begins to write the first request.                                 *)
LEMMA TakeRequestKeeps ==
    ASSUME SInv, TakeRequest
    PROVE  SInv'
<1> DEFINE w == [seq |-> queue[1].seq, key |-> queue[1].key, id |-> queue[1].id]
<1>1. /\ spc = "sending" /\ writer = NoWriter /\ queue # << >>
      /\ queue' = Tail(queue)
      /\ UNCHANGED <<sphase, nextSeq, sent, spc, sstatus, fate>>
    BY DEF TakeRequest
<1>2. /\ 1 \in 1 .. Len(queue) /\ Head(queue) = queue[1] /\ queue[1] \in Request
      /\ queue' \in Seq(Request) /\ Growing(queue') /\ Different(queue')
      /\ \A j \in 1 .. Len(queue') :
            /\ queue[1].seq < queue'[j].seq
            /\ queue[1].handler # queue'[j].handler
            /\ \E n \in 1 .. Len(queue) : queue'[j] = queue[n]
    BY <1>1, FirstOfQueue
<1>3. writer' = w /\ writing' = queue[1].handler
    BY <1>2 DEF TakeRequest
<1>4. w \in [seq : Nat, key : Keys, id : Ids] /\ w.seq = queue[1].seq /\ w # NoWriter
    BY <1>2, SenderConstantsOK DEF Request
<1> HIDE DEF w
<1>5. SenderTypeOK'
    BY <1>1, <1>2, <1>3, <1>4 DEF SInv, SenderTypeOK, Request
<1>6. writing' # NoHandler
    BY <1>2, <1>3, SenderConstantsOK DEF Request
<1>7. CalledOnce' /\ PositionsKnow'
    BY <1>1, <1>3, <1>4, <1>6 DEF SInv, CalledOnce, PositionsKnow
<1>8. HeldOnce'
    <2>1. \A j \in 1 .. Len(queue') : fate'[queue'[j].handler] = << >>
                                      /\ queue'[j].handler # writing'
        BY <1>1, <1>2, <1>3 DEF SInv, HeldOnce
    <2>2. fate'[writing'] = << >>
        BY <1>1, <1>2, <1>3 DEF SInv, HeldOnce
    <2>3. spc' \notin {"refused", "failed"}
        BY <1>1
    <2>4. QED
        BY <1>2, <2>1, <2>2, <2>3 DEF HeldOnce
<1>9. NumbersGrow'
    BY <1>1, <1>2, <1>3, <1>4 DEF SInv, NumbersGrow
<1>10. QED
    BY <1>5, <1>7, <1>8, <1>9 DEF SInv

(* The request being written is put on the wire.                           *)
LEMMA SentGrows ==
    ASSUME SInv, writer # NoWriter, writing \in Handlers,
           sent' = Append(sent, [handler |-> writing, seq |-> writer.seq,
                                 id |-> writer.id]),
           writer' = NoWriter, UNCHANGED <<queue, nextSeq>>
    PROVE  /\ sent' \in Seq([handler : Handlers, seq : Nat, id : Ids])
           /\ NumbersGrow'
<1> DEFINE T == [handler : Handlers, seq : Nat, id : Ids]
           e == [handler |-> writing, seq |-> writer.seq, id |-> writer.id]
<1>1. e \in T /\ e.seq = writer.seq /\ sent \in Seq(T)
    BY DEF SInv, SenderTypeOK
<1>2. sent' = Append(sent, e)
    OBVIOUS
<1> HIDE DEF e, T
<1>3. /\ sent' \in Seq(T) /\ Len(sent) \in Nat /\ Len(sent') = Len(sent) + 1
      /\ sent'[Len(sent) + 1] = e /\ \A j \in 1 .. Len(sent) : sent'[j] = sent[j]
    BY <1>1, <1>2, AppendFacts
<1>4. Growing(sent')
    <2>1. \A j \in 1 .. Len(sent) : sent[j].seq < writer.seq
        BY DEF SInv, NumbersGrow
    <2>2. QED
        BY <1>1, <1>3, <2>1, SMTT(30) DEF SInv, NumbersGrow, Growing
<1>5. \A i \in 1 .. Len(sent'), j \in 1 .. Len(queue') : sent'[i].seq < queue'[j].seq
    BY <1>1, <1>3 DEF SInv, NumbersGrow
<1>6. \A i \in 1 .. Len(sent') : sent'[i].seq < nextSeq'
    BY <1>1, <1>3 DEF SInv, NumbersGrow
<1>7. QED
    BY <1>3, <1>4, <1>5, <1>6 DEF SInv, NumbersGrow, Growing, T

(* The last byte is written, and the receiver accepts the handler or not.  *)
LEMMA WriteDoneKeeps ==
    ASSUME SInv, NEW accepted \in BOOLEAN, WriteDone(accepted)
    PROVE  SInv'
<1>1. /\ spc = "sending" /\ writer # NoWriter /\ writer' = NoWriter
      /\ UNCHANGED <<sphase, queue, nextSeq, sstatus>>
    BY DEF WriteDone
<1>2. writing # NoHandler /\ writing \in Handlers /\ fate[writing] = << >>
    BY <1>1 DEF SInv, PositionsKnow, SenderTypeOK, HeldOnce
<1>3. /\ sent' \in Seq([handler : Handlers, seq : Nat, id : Ids])
      /\ NumbersGrow'
    BY <1>1, <1>2, SentGrows DEF WriteDone
<1>4. CASE accepted
    <2>1. writing' = NoHandler /\ UNCHANGED <<spc, fate>>
        BY <1>4 DEF WriteDone
    <2>2. SenderTypeOK' /\ CalledOnce' /\ PositionsKnow'
        BY <1>1, <1>3, <2>1 DEF SInv, SenderTypeOK, CalledOnce, PositionsKnow
    <2>3. HeldOnce'
        BY <1>1, <2>1, QueuedAreRequests, SenderConstantsOK DEF SInv, HeldOnce, Different
    <2>4. QED
        BY <1>3, <2>2, <2>3 DEF SInv
<1>5. CASE ~accepted
    <2>1. fate' = Fated(writing, "failed") /\ spc' = "refused" /\ UNCHANGED writing
        BY <1>5 DEF WriteDone
    <2>2. /\ fate' \in [Handlers -> Seq(SendFates)] /\ CalledOnce'
          /\ fate'[writing] # << >>
          /\ \A g \in Handlers \ {writing} : fate'[g] = fate[g]
        BY <1>2, <2>1, FirstFated DEF SInv, SenderTypeOK, SendFates
    <2>3. SenderTypeOK' /\ PositionsKnow'
        BY <1>1, <1>3, <2>1, <2>2 DEF SInv, SenderTypeOK, PositionsKnow, SendPositions
    <2>4. HeldOnce'
        BY <1>1, <2>1, <2>2, QueuedAreRequests DEF SInv, HeldOnce, Different
    <2>5. QED
        BY <1>3, <2>2, <2>3, <2>4 DEF SInv
<1>6. QED
    BY <1>4, <1>5

(* The write failed, and the handler of the request being written runs.    *)
LEMMA WriteFailsKeeps ==
    ASSUME SInv, WriteFails
    PROVE  SInv'
<1>1. /\ spc = "sending" /\ writer # NoWriter /\ fate' = Fated(writing, "failed")
      /\ spc' = "failed"
      /\ UNCHANGED <<sphase, queue, nextSeq, writer, writing, sent, sstatus>>
    BY DEF WriteFails
<1>2. writing # NoHandler /\ writing \in Handlers /\ fate[writing] = << >>
    BY <1>1 DEF SInv, PositionsKnow, SenderTypeOK, HeldOnce
<1>3. /\ fate' \in [Handlers -> Seq(SendFates)] /\ CalledOnce'
      /\ fate'[writing] # << >>
      /\ \A g \in Handlers \ {writing} : fate'[g] = fate[g]
    BY <1>1, <1>2, FirstFated DEF SInv, SenderTypeOK, SendFates
<1>4. SenderTypeOK' /\ PositionsKnow'
    BY <1>1, <1>3 DEF SInv, SenderTypeOK, PositionsKnow, SendPositions
<1>5. HeldOnce'
    BY <1>1, <1>3, QueuedAreRequests DEF SInv, HeldOnce, Different
<1>6. NumbersGrow'
    BY <1>1 DEF SInv, NumbersGrow, Growing
<1>7. QED
    BY <1>3, <1>4, <1>5, <1>6 DEF SInv

(* One turn of the loops that empty the queue.                             *)
LEMMA DrainOneKeeps ==
    ASSUME SInv, DrainOne
    PROVE  SInv'
<1>1. /\ spc = "draining" /\ queue # << >> /\ queue' = Tail(queue)
      /\ spc' = "drained"
      /\ UNCHANGED <<sphase, nextSeq, writer, writing, sent, sstatus>>
    BY DEF DrainOne
<1>2. /\ 1 \in 1 .. Len(queue) /\ Head(queue) = queue[1] /\ queue[1] \in Request
      /\ queue' \in Seq(Request) /\ Growing(queue') /\ Different(queue')
      /\ \A j \in 1 .. Len(queue') :
            /\ queue[1].handler # queue'[j].handler
            /\ \E n \in 1 .. Len(queue) : queue'[j] = queue[n]
    BY <1>1, FirstOfQueue
<1>3. fate' = Fated(queue[1].handler, "failed")
    BY <1>2 DEF DrainOne
<1>4. /\ fate' \in [Handlers -> Seq(SendFates)] /\ CalledOnce'
      /\ \A g \in Handlers \ {queue[1].handler} : fate'[g] = fate[g]
    <2>1. queue[1].handler \in Handlers /\ fate[queue[1].handler] = << >>
        BY <1>2 DEF SInv, HeldOnce, Request
    <2>2. QED
        BY <1>3, <2>1, FirstFated DEF SInv, SenderTypeOK, SendFates
<1>5. SenderTypeOK' /\ PositionsKnow'
    BY <1>1, <1>2, <1>4 DEF SInv, SenderTypeOK, PositionsKnow, SendPositions
<1>6. HeldOnce'
    <2>1. \A j \in 1 .. Len(queue') : fate'[queue'[j].handler] = << >>
                                      /\ queue'[j].handler # writing
        <3>1. ASSUME NEW j \in 1 .. Len(queue')
              PROVE  /\ fate'[queue'[j].handler] = << >>
                     /\ queue'[j].handler # writing
            <4>1. PICK n \in 1 .. Len(queue) : queue'[j] = queue[n]
                BY <1>2
            <4>2. /\ queue[n].handler \in Handlers \ {queue[1].handler}
                  /\ fate[queue[n].handler] = << >> /\ queue[n].handler # writing
                BY <1>2, <4>1, QueuedAreRequests DEF SInv, HeldOnce
            <4>3. QED
                BY <1>4, <4>1, <4>2
        <3>2. QED
            BY <3>1
    <2>2. writing # NoHandler => writing \in Handlers /\ writing # queue[1].handler
        BY <1>2 DEF SInv, SenderTypeOK, HeldOnce
    <2>3. QED
        BY <1>1, <1>2, <1>4, <2>1, <2>2 DEF SInv, HeldOnce
<1>7. NumbersGrow'
    BY <1>1, <1>2, ShorterQueue
<1>8. QED
    BY <1>4, <1>5, <1>6, <1>7 DEF SInv

(* Every step of the sender preserves SInv.                                *)
LEMMA SenderNextInv == SInv /\ [SenderNext]_sndVars => SInv'
<1> SUFFICES ASSUME SInv, [SenderNext]_sndVars PROVE SInv'
    OBVIOUS
<1>1. CASE SendLoop
    BY <1>1, QuietSendActions, TakeRequestKeeps, WriteDoneKeeps,
       WriteFailsKeeps, DrainOneKeeps DEF SendLoop
<1>2. CASE HandlerReturn
    BY <1>2, QuietSendActions DEF HandlerReturn
<1>3. CASE SenderCall
    BY <1>3, QuietSendActions, EnqueueKeeps, RemoveQueuedKeeps DEF SenderCall
<1>4. CASE UNCHANGED sndVars
    BY <1>4 DEF sndVars, SInv, SenderTypeOK, CalledOnce, HeldOnce,
                NumbersGrow, PositionsKnow, Growing, Different
<1>5. QED
    BY <1>1, <1>2, <1>3, <1>4 DEF SenderNext

-----------------------------------------------------------------------------
(* The invariant holds in every reachable state of the sender.             *)
THEOREM SenderInvariance == SenderSpec => []SInv
BY SenderInitInv, SenderNextInv, PTL DEF SenderSpec

(* Every variable keeps its type, and a request is being written exactly   *)
(* while its handler is set, unless a write has failed.                    *)
THEOREM SenderTypeCorrect == SenderSpec => []SenderTypeOK
<1>1. SInv => SenderTypeOK
    BY DEF SInv
<1>2. QED
    BY <1>1, SenderInvariance, PTL

(* A handler the sender still holds was not handed to the receiver: its    *)
(* request is not among those written, unless the receiver just refused it *)
(* (receiver_->Enqueue, then Error).  Callers pass a new handler with each *)
(* request.                                                                *)
Unwritten ==
    /\ \A i \in 1 .. Len(queue) : ~ Written(queue[i].handler)
    /\ writing # NoHandler /\ spc # "refused" => ~ Written(writing)

(* Steps that write nothing and queue nothing new.                         *)
LEMMA UnwrittenStays ==
    ASSUME Unwritten, UNCHANGED sent,
           \A j \in 1 .. Len(queue') : \E i \in 1 .. Len(queue) : queue'[j] = queue[i],
           writing' # NoHandler /\ spc' # "refused" =>
               \/ writing' = writing /\ spc # "refused"
               \/ \E i \in 1 .. Len(queue) : writing' = queue[i].handler
    PROVE  Unwritten'
BY DEF Unwritten, Written

LEMMA EnqueueUnwritten ==
    ASSUME SInv, Unwritten, NEW h \in Handlers, NEW k \in Keys, NEW id \in Ids,
           NewHandler(h), Enqueue(h, k, id)
    PROVE  Unwritten'
<1> DEFINE r == [handler |-> h, key |-> k, seq |-> nextSeq, id |-> id]
<1>1. queue \in Seq(Request) /\ r \in Request /\ queue' = Append(queue, r)
    BY DEF Enqueue, SInv, SenderTypeOK, Request
<1>2. UNCHANGED <<sent, writing, spc>> /\ r.handler = h /\ ~ Written(h)
    BY DEF Enqueue, NewHandler
<1> HIDE DEF r
<1>3. /\ Len(queue) \in Nat /\ Len(queue') = Len(queue) + 1 /\ queue'[Len(queue) + 1] = r
      /\ \A j \in 1 .. Len(queue) : queue'[j] = queue[j]
    BY <1>1, AppendFacts
<1>4. \A j \in 1 .. Len(queue') : j \in 1 .. Len(queue) \/ j = Len(queue) + 1
    BY <1>3
<1>5. \A j \in 1 .. Len(queue') : ~ Written(queue'[j].handler)
    BY <1>2, <1>3, <1>4 DEF Unwritten
<1>6. QED
    BY <1>2, <1>5 DEF Unwritten, Written

LEMMA TailUnwritten ==
    ASSUME SInv, Unwritten, TakeRequest \/ DrainOne
    PROVE  Unwritten'
<1>1. /\ queue # << >> /\ queue' = Tail(queue) /\ UNCHANGED sent
      /\ writing' = Head(queue).handler \/ (UNCHANGED writing /\ spc = "draining")
    BY DEF TakeRequest, DrainOne
<1>2. /\ Head(queue) = queue[1] /\ Len(queue) \in Nat /\ Len(queue) >= 1
      /\ \A j \in 1 .. Len(queue') : j + 1 \in 1 .. Len(queue) /\ queue'[j] = queue[j + 1]
    BY <1>1, TailFacts DEF SInv, SenderTypeOK
<1>3. \A j \in 1 .. Len(queue') : \E i \in 1 .. Len(queue) : queue'[j] = queue[i]
    BY <1>2
<1>4. 1 \in 1 .. Len(queue)
    BY <1>2
<1>5. QED
    BY <1>1, <1>2, <1>3, <1>4, UnwrittenStays

LEMMA RemovalUnwritten ==
    ASSUME SInv, Unwritten, NEW k \in Keys, RemoveQueued(k)
    PROVE  Unwritten'
<1>1. PICK i \in 1 .. Len(queue) : queue' = RemoveAt(queue, i)
    BY QueuedAreRequests DEF RemoveQueued, SInv
<1>2. /\ Len(queue) \in Nat /\ Len(queue') = Len(queue) - 1
      /\ \A j \in 1 .. Len(queue') : queue'[j] = IF j < i THEN queue[j] ELSE queue[j + 1]
    BY <1>1, RemoveAtFacts DEF SInv, SenderTypeOK
<1>3. \A j \in 1 .. Len(queue') :
         j \in 1 .. Len(queue) /\ j + 1 \in 1 .. Len(queue)
    BY <1>2
<1>4. \A j \in 1 .. Len(queue') : \E n \in 1 .. Len(queue) : queue'[j] = queue[n]
    BY <1>2, <1>3
<1>5. UNCHANGED <<sent, writing, spc>>
    BY DEF RemoveQueued
<1>6. QED
    BY <1>4, <1>5, UnwrittenStays

(* The handler that goes to the receiver is not queued a second time.      *)
LEMMA WriteDoneUnwritten ==
    ASSUME SInv, Unwritten, NEW accepted \in BOOLEAN, WriteDone(accepted)
    PROVE  Unwritten'
<1> DEFINE e == [handler |-> writing, seq |-> writer.seq, id |-> writer.id]
<1>1. sent' = Append(sent, e) /\ UNCHANGED queue
    BY DEF WriteDone
<1>2. writing' = NoHandler \/ spc' = "refused"
    BY DEF WriteDone
<1>3. writing \in Handlers /\ writer # NoWriter
    BY DEF WriteDone, SInv, SenderTypeOK, PositionsKnow
<1>4. \A h : Written(h)' => Written(h) \/ h = writing
  <2> DEFINE W == [handler : Handlers, seq : Nat, id : Ids]
  <2>1. sent \in Seq(W) /\ e \in W /\ e.handler = writing
      BY <1>3 DEF SInv, SenderTypeOK
  <2> HIDE DEF W, e
  <2>2. /\ sent' \in Seq(W) /\ Len(sent) \in Nat /\ Len(sent') = Len(sent) + 1
        /\ sent'[Len(sent) + 1] = e /\ \A j \in 1 .. Len(sent) : sent'[j] = sent[j]
      BY <1>1, <2>1, AppendFacts
  <2>3. DOMAIN sent = 1 .. Len(sent) /\ DOMAIN sent' = 1 .. Len(sent')
      BY <2>1, <2>2, LenProperties
  <2>4. \A j \in DOMAIN sent' : j \in DOMAIN sent \/ j = Len(sent) + 1
      BY <2>2, <2>3
  <2>5. ASSUME NEW h, Written(h)', h # writing
        PROVE  Written(h)
    <3>1. PICK j \in DOMAIN sent' : sent'[j].handler = h
        BY <2>5 DEF Written, ToSet
    <3>2. j \in DOMAIN sent /\ sent'[j] = sent[j]
        BY <2>1, <2>2, <2>3, <2>4, <2>5, <3>1
    <3>3. QED
        BY <3>1, <3>2 DEF Written, ToSet
  <2>6. QED
      BY <2>5
<1>5. \A i \in 1 .. Len(queue) : queue[i].handler # writing
    BY DEF SInv, HeldOnce
<1>6. QED
    BY <1>1, <1>2, <1>4, <1>5 DEF Unwritten

LEMMA UnwrittenStep == SInv /\ Unwritten /\ [SenderNext]_sndVars => Unwritten'
<1> SUFFICES ASSUME SInv, Unwritten, [SenderNext]_sndVars PROVE Unwritten'
    OBVIOUS
<1>1. ASSUME UNCHANGED <<sent, queue, writing>>, spc = "refused" => spc' = "refused"
      PROVE  Unwritten'
    BY <1>1 DEF Unwritten, Written
<1>2. ASSUME UNCHANGED <<sent, queue>>, writing' = NoHandler
      PROVE  Unwritten'
    BY <1>2 DEF Unwritten, Written
<1>3. CASE \/ SendIdle \/ WriteWaits \/ WriteFails \/ DrainEnds \/ DrainedReturns
           \/ CallSend \/ DestroySender \/ UNCHANGED sndVars
    BY <1>1, <1>3 DEF SendIdle, WriteWaits, WriteFails, DrainEnds, DrainedReturns, CallSend,
       DestroySender, SendReturns, sndVars
<1>4. CASE RefusedReturns \/ FailedReturns \/ MembersDestroyed
    BY <1>2, <1>4 DEF RefusedReturns, FailedReturns, MembersDestroyed
<1>5. QED
    BY <1>3, <1>4, EnqueueUnwritten, TailUnwritten, RemovalUnwritten, WriteDoneUnwritten
    DEF SenderNext, SendLoop, HandlerReturn, SenderCall

(* What SenderCallsOnce says of a handler whose fate changes.              *)
OnlyCall(h) ==
    /\ fate[h] = << >> /\ Len(fate'[h]) = 1
    /\ ~ Written(h)
    /\ Written(h)' => spc' = "refused"

LEMMA OneFated ==
    ASSUME SInv, NEW g \in Handlers, NEW what \in SendFates, fate' = Fated(g, what),
           fate[g] = << >>, ~ Written(g), Written(g)' => spc' = "refused",
           NEW h \in Handlers, fate'[h] # fate[h]
    PROVE  OnlyCall(h)
<1>1. /\ fate' \in [Handlers -> Seq(SendFates)] /\ CalledOnce' /\ fate'[g] # << >>
      /\ \A f \in Handlers \ {g} : fate'[f] = fate[f]
    BY FirstFated DEF SInv, SenderTypeOK
<1>2. h = g
    BY <1>1
<1>3. Len(fate'[g]) \in Nat /\ Len(fate'[g]) # 0 /\ Len(fate'[g]) <= 1
    BY <1>1, LenProperties, EmptySeq DEF CalledOnce
<1>4. Len(fate'[g]) = 1
  <2> DEFINE n == Len(fate'[g])
  <2>1. n \in Nat /\ n # 0 /\ n <= 1
      BY <1>3
  <2> HIDE DEF n
  <2>2. n = 1
      BY <2>1
  <2>3. QED
      BY <2>2 DEF n
<1>5. QED
    BY <1>2, <1>4 DEF OnlyCall

(* A handler is called or removed once, by a step before its request is    *)
(* written or by the one in which the receiver refuses it; what the        *)
(* receiver has accepted the sender neither calls nor removes.             *)
THEOREM SenderCallsAtMostOnce == SenderSpec => SenderCallsOnce
<1>1. ASSUME SInv, Unwritten, SenderNext, NEW h \in Handlers, fate'[h] # fate[h]
      PROVE  OnlyCall(h)
  <2>1. CASE \E k \in Keys : RemoveQueued(k)
    <3>1. PICK i \in 1 .. Len(queue) :
             fate' = Fated(queue[i].handler, "removed") /\ UNCHANGED sent
        BY <1>1, <2>1, QueuedAreRequests DEF RemoveQueued, SInv
    <3>2. /\ queue[i].handler \in Handlers /\ fate[queue[i].handler] = << >>
          /\ ~ Written(queue[i].handler)
        BY <1>1, QueuedAreRequests DEF SInv, HeldOnce, Unwritten
    <3>3. QED
        BY <1>1, <3>1, <3>2, OneFated DEF SendFates, Written
  <2>2. CASE DrainOne
    <3>1. /\ fate' = Fated(queue[1].handler, "failed") /\ UNCHANGED sent
          /\ 1 \in 1 .. Len(queue)
        BY <1>1, <2>2, TailFacts DEF DrainOne, SInv, SenderTypeOK
    <3>2. /\ queue[1].handler \in Handlers /\ fate[queue[1].handler] = << >>
          /\ ~ Written(queue[1].handler)
        BY <1>1, <3>1, QueuedAreRequests DEF SInv, HeldOnce, Unwritten
    <3>3. QED
        BY <1>1, <3>1, <3>2, OneFated DEF SendFates, Written
  <2>3. CASE WriteFails \/ \E accepted \in BOOLEAN : WriteDone(accepted)
    <3>1. /\ fate' = Fated(writing, "failed") /\ spc = "sending" /\ writer # NoWriter
          /\ UNCHANGED sent \/ spc' = "refused"
        BY <1>1, <2>3 DEF WriteFails, WriteDone
    <3>2. writing \in Handlers /\ fate[writing] = << >> /\ ~ Written(writing)
        BY <1>1, <3>1 DEF SInv, SenderTypeOK, PositionsKnow, HeldOnce, Unwritten
    <3>3. QED
        BY <1>1, <3>1, <3>2, OneFated DEF SendFates, Written
  <2>4. QED
      BY <1>1, <2>1, <2>2, <2>3
      DEF SenderNext, SendLoop, HandlerReturn, SenderCall, SendIdle, TakeRequest, WriteWaits,
          DrainEnds, MembersDestroyed, RefusedReturns, FailedReturns, DrainedReturns, Enqueue,
          CallSend, DestroySender
<1>2. SenderAlone => Unwritten
  <2>1. SenderAlone => Len(queue) = 0 /\ writing = NoHandler
      BY DEF SenderAlone, SenderInit
  <2>2. QED
      BY <2>1 DEF Unwritten
<1>3. SenderSpec => []Unwritten
    BY <1>2, UnwrittenStep, SenderInvariance, PTL DEF SenderSpec
<1>4. SInv /\ Unwritten /\ [SenderNext]_sndVars =>
        [\A h \in Handlers : fate'[h] # fate[h] => OnlyCall(h)]_sndVars
    BY <1>1
<1>5. QED
    BY <1>3, <1>4, SenderInvariance, PTL DEF SenderSpec, SenderCallsOnce, OnlyCall

-----------------------------------------------------------------------------
(* Two growing lines of numbers, one below the other, make a growing line. *)
Rising(a) == \A i, j \in 1 .. Len(a) : i < j => a[i] < a[j]
Below(a, n) == \A i \in 1 .. Len(a) : a[i] < n

LEMMA RisingJoined ==
    ASSUME NEW a \in Seq(Nat), NEW b \in Seq(Nat), Rising(a), Rising(b),
           \A i \in 1 .. Len(a), j \in 1 .. Len(b) : a[i] < b[j]
    PROVE  /\ a \o b \in Seq(Nat) /\ Rising(a \o b)
           /\ \A n \in Nat : Below(a, n) /\ Below(b, n) => Below(a \o b, n)
<1> DEFINE c == a \o b
<1>1. /\ c \in Seq(Nat) /\ Len(c) = Len(a) + Len(b)
      /\ \A i \in 1 .. Len(a) + Len(b) :
            c[i] = IF i <= Len(a) THEN a[i] ELSE b[i - Len(a)]
    BY ConcatProperties, Zenon
<1>2. /\ Len(a) \in Nat /\ Len(b) \in Nat
      /\ \A i \in 1 .. Len(a) : a[i] \in Nat
      /\ \A i \in 1 .. Len(b) : b[i] \in Nat
    BY LenProperties, ElementOfSeq
<1> HIDE DEF c
<1>3. ASSUME NEW i \in 1 .. Len(c), NEW j \in 1 .. Len(c), i < j
      PROVE  c[i] < c[j]
    <2>1. CASE j <= Len(a)
        <3>1. i \in 1 .. Len(a) /\ j \in 1 .. Len(a) /\ i <= Len(a)
            BY <1>1, <1>2, <1>3, <2>1
        <3>2. c[i] = a[i] /\ c[j] = a[j]
            BY <1>1, <1>2, <2>1, <3>1
        <3>3. QED
            BY <1>3, <3>1, <3>2 DEF Rising
    <2>2. CASE i <= Len(a) /\ ~(j <= Len(a))
        <3>1. j - Len(a) \in 1 .. Len(b) /\ i \in 1 .. Len(a)
            BY <1>1, <1>2, <2>2
        <3>2. c[i] = a[i] /\ c[j] = b[j - Len(a)]
            BY <1>1, <1>2, <2>2
        <3>3. QED
            BY <3>1, <3>2
    <2>3. CASE ~(i <= Len(a)) /\ ~(j <= Len(a))
        <3>1. /\ i - Len(a) \in 1 .. Len(b) /\ j - Len(a) \in 1 .. Len(b)
              /\ i - Len(a) < j - Len(a)
            BY <1>1, <1>2, <1>3, <2>3, SMTT(30)
        <3>2. c[i] = b[i - Len(a)] /\ c[j] = b[j - Len(a)]
            BY <1>1, <1>2, <2>3
        <3>3. QED
            BY <3>1, <3>2 DEF Rising
    <2>4. QED
        BY <1>1, <1>2, <1>3, <2>1, <2>2, <2>3
<1>4. ASSUME NEW n \in Nat, Below(a, n), Below(b, n), NEW i \in 1 .. Len(c)
      PROVE  c[i] < n
    <2>1. CASE i <= Len(a)
        <3>1. i \in 1 .. Len(a) /\ c[i] = a[i]
            BY <1>1, <1>2, <2>1
        <3>2. QED
            BY <1>4, <3>1 DEF Below
    <2>2. CASE ~(i <= Len(a))
        <3>1. i - Len(a) \in 1 .. Len(b) /\ c[i] = b[i - Len(a)]
            BY <1>1, <1>2, <2>2
        <3>2. QED
            BY <1>4, <3>1 DEF Below
    <2>3. QED
        BY <2>1, <2>2
<1>5. Rising(c) /\ \A n \in Nat : Below(a, n) /\ Below(b, n) => Below(c, n)
    BY <1>3, <1>4 DEF Rising, Below
<1>6. QED
    BY <1>1, <1>5 DEF c

(* Requests go out in the order of their submission.                       *)
THEOREM SentStaysInOrder == SenderSpec => []SentInOrder
<1>1. ASSUME SInv PROVE SentInOrder
    <2> DEFINE a == [i \in DOMAIN sent |-> sent[i].seq]
               b == IF writer = NoWriter THEN << >> ELSE <<writer.seq>>
               c == [i \in DOMAIN queue |-> queue[i].seq]
               line == a \o b \o c
    <2>1. /\ nextSeq \in Nat /\ Len(sent) \in Nat /\ Len(queue) \in Nat
          /\ DOMAIN sent = 1 .. Len(sent) /\ DOMAIN queue = 1 .. Len(queue)
          /\ \A j \in 1 .. Len(queue) : queue[j].seq \in Nat
          /\ \A j \in 1 .. Len(sent) : sent[j].seq \in Nat
          /\ writer # NoWriter => writer.seq \in Nat
        BY <1>1, NumbersAreNumbers, QueuedAreRequests, LenProperties
        DEF SInv, SenderTypeOK
    <2>2. /\ a \in Seq(Nat) /\ Len(a) = Len(sent)
          /\ \A i \in 1 .. Len(a) : a[i] = sent[i].seq
        BY <2>1
    <2>3. /\ c \in Seq(Nat) /\ Len(c) = Len(queue)
          /\ \A i \in 1 .. Len(c) : c[i] = queue[i].seq
        BY <2>1
    <2>4. /\ b \in Seq(Nat)
          /\ \A i \in 1 .. Len(b) : i = 1 /\ writer # NoWriter /\ b[i] = writer.seq
        BY <2>1
    <2> HIDE DEF a, b, c
    <2>5. Rising(a) /\ Rising(b) /\ Rising(c)
        BY <1>1, <2>2, <2>3, <2>4 DEF Rising, SInv, NumbersGrow, Growing
    <2>6. Below(a, nextSeq) /\ Below(b, nextSeq) /\ Below(c, nextSeq)
        BY <1>1, <2>2, <2>3, <2>4 DEF Below, SInv, NumbersGrow
    <2>7. \A i \in 1 .. Len(a), j \in 1 .. Len(b) : a[i] < b[j]
        BY <1>1, <2>2, <2>4 DEF SInv, NumbersGrow
    <2>8. /\ a \o b \in Seq(Nat) /\ Rising(a \o b) /\ Below(a \o b, nextSeq)
        BY <2>1, <2>2, <2>4, <2>5, <2>6, <2>7, RisingJoined
    <2>9. \A j \in 1 .. Len(c) : Below(a \o b, c[j])
        <3>1. SUFFICES ASSUME NEW j \in 1 .. Len(c) PROVE Below(a \o b, c[j])
            OBVIOUS
        <3>2. c[j] \in Nat /\ Below(a, c[j]) /\ Below(b, c[j])
            BY <1>1, <2>1, <2>2, <2>3, <2>4 DEF Below, SInv, NumbersGrow
        <3>3. QED
            BY <2>2, <2>4, <2>5, <2>7, <3>2, RisingJoined
    <2>10. line \in Seq(Nat) /\ Rising(line) /\ Below(line, nextSeq)
        BY <2>1, <2>3, <2>5, <2>6, <2>8, <2>9, RisingJoined DEF Below
    <2>11. DOMAIN line = 1 .. Len(line)
        BY <2>10, LenProperties
    <2>12. QED
        BY <2>10, <2>11 DEF SentInOrder, Rising, Below, a, b, c
<1>2. QED
    BY <1>1, SenderInvariance, PTL

-----------------------------------------------------------------------------
(* When the first request is taken, every other one stays queued.          *)
LEMMA QueuedStay ==
    ASSUME SInv, NEW n \in 1 .. Len(queue), queue # << >>, queue' = Tail(queue)
    PROVE  n = 1 \/ \E j \in 1 .. Len(queue') : queue'[j] = queue[n]
<1>1. /\ Len(queue) \in Nat /\ Len(queue') = Len(queue) - 1
      /\ \A j \in 1 .. Len(queue') : queue'[j] = queue[j + 1]
    BY QueuedAreRequests, TailFacts DEF SInv
<1>2. CASE n # 1
    <2>1. n - 1 \in 1 .. Len(queue') /\ (n - 1) + 1 = n
        BY <1>1, <1>2
    <2>2. queue'[n - 1] = queue[n]
        BY <1>1, <2>1
    <2>3. QED
        BY <2>1, <2>2
<1>3. QED
    BY <1>2

(* A handler that is neither called back, nor removed, nor handed to the   *)
(* receiver with its request stays with the sender while it lives.         *)
THEOREM SenderDropsNone == SenderSpec => SenderKeepsHandlers
<1> DEFINE Gone(h) == \/ fate'[h] # << >>
                      \/ \E i \in DOMAIN sent' : sent'[i].handler = h
                      \/ sphase' = "closed"
<1>1. ASSUME SInv, SenderNext, NEW h \in Held, h \notin Held'
      PROVE  Gone(h)
    <2>1. /\ queue \in Seq(Request) /\ Len(queue) \in Nat
          /\ \A i \in 1 .. Len(queue) : /\ queue[i].handler \in Handlers
                                        /\ fate[queue[i].handler] = << >>
          /\ fate \in [Handlers -> Seq(SendFates)] /\ CalledOnce
          /\ writing \in Handlers \cup {NoHandler}
        BY <1>1, QueuedAreRequests DEF SInv, HeldOnce, SenderTypeOK
    <2>2. ASSUME queue' \in Seq(Request), NEW j \in 1 .. Len(queue')
          PROVE  queue'[j].handler \in Held'
        BY <2>2, LenProperties DEF Held, HandlersQueued, ToSet
    <2>3. CASE h = writing /\ h # NoHandler
        <3>1. writing' # writing
            BY <1>1, <2>3 DEF Held
        <3>2. CASE TakeRequest
            BY <1>1, <2>3, <3>2 DEF TakeRequest, SInv, PositionsKnow
        <3>3. CASE \E accepted \in BOOLEAN : WriteDone(accepted)
            <4> DEFINE T == [handler : Handlers, seq : Nat, id : Ids]
                       e == [handler |-> writing, seq |-> writer.seq, id |-> writer.id]
            <4>1. sent' = Append(sent, e) /\ writer # NoWriter
                BY <3>3 DEF WriteDone
            <4>2. sent \in Seq(T) /\ e \in T /\ e.handler = h
                BY <1>1, <2>1, <2>3, <4>1 DEF SInv, SenderTypeOK
            <4> HIDE DEF T, e
            <4>3. /\ sent' \in Seq(T) /\ Len(sent) \in Nat
                  /\ Len(sent') = Len(sent) + 1 /\ sent'[Len(sent) + 1] = e
                BY <4>1, <4>2, AppendFacts
            <4>4. Len(sent) + 1 \in DOMAIN sent'
                BY <4>3, LenProperties
            <4>5. QED
                BY <4>2, <4>3, <4>4
        <3>4. CASE RefusedReturns \/ FailedReturns
            BY <1>1, <2>3, <3>4
            DEF RefusedReturns, FailedReturns, SInv, HeldOnce
        <3>5. CASE MembersDestroyed
            BY <3>5 DEF MembersDestroyed
        <3>6. QED
            BY <1>1, <3>1, <3>2, <3>3, <3>4, <3>5
            DEF SenderNext, SendLoop, HandlerReturn, SenderCall, SendIdle,
                WriteWaits, WriteFails, DrainOne, DrainEnds, DrainedReturns,
                Enqueue, RemoveQueued, CallSend, DestroySender
    <2>4. CASE \E n \in 1 .. Len(queue) : h = queue[n].handler
        <3>1. PICK n \in 1 .. Len(queue) : h = queue[n].handler
            BY <2>4
        <3>2. ASSUME queue' \in Seq(Request),
                     \E j \in 1 .. Len(queue') : queue'[j] = queue[n]
              PROVE  FALSE
            BY <1>1, <2>2, <3>1, <3>2
        <3>3. CASE \E g \in Handlers, k \in Keys, id \in Ids : Enqueue(g, k, id)
            <4>1. PICK g \in Handlers, k \in Keys, id \in Ids : Enqueue(g, k, id)
                BY <3>3
            <4> DEFINE r == [handler |-> g, key |-> k, seq |-> nextSeq, id |-> id]
            <4>2. r \in Request /\ queue' = Append(queue, r)
                BY <1>1, <4>1 DEF Enqueue, SInv, SenderTypeOK, Request
            <4> HIDE DEF r
            <4>3. /\ queue' \in Seq(Request) /\ n \in 1 .. Len(queue')
                  /\ queue'[n] = queue[n]
                BY <2>1, <4>2, AppendFacts
            <4>4. QED
                BY <3>2, <4>3
        <3>4. CASE \E k \in Keys : RemoveQueued(k)
            <4>1. PICK k \in Keys, i \in 1 .. Len(queue) :
                    /\ queue' = RemoveAt(queue, i)
                    /\ fate' = Fated(queue[i].handler, "removed")
                BY <1>1, <3>4, QueuedAreRequests DEF RemoveQueued, SInv
            <4>2. queue' \in Seq(Request)
                BY <2>1, <4>1, RemoveAtFacts
            <4>3. n = i
                <5>1. Growing(queue) /\ Different(queue)
                    BY <1>1 DEF SInv, HeldOnce, NumbersGrow
                <5>2. \A m \in 1 .. Len(queue) :
                        m # i => \E j \in 1 .. Len(RemoveAt(queue, i)) :
                                    RemoveAt(queue, i)[j] = queue[m]
                    BY <2>1, <5>1, RemoveKeeps
                <5>3. QED
                    BY <3>2, <4>1, <4>2, <5>2
            <4>4. QED
                BY <2>1, <3>1, <4>1, <4>3, FirstFated DEF SendFates
        <3>5. CASE TakeRequest
            <4>1. /\ queue # << >> /\ queue' = Tail(queue)
                  /\ writing' = queue[1].handler /\ queue' \in Seq(Request)
                BY <1>1, <3>5, FirstOfQueue DEF TakeRequest
            <4>2. n = 1
                BY <1>1, <3>2, <4>1, QueuedStay
            <4>3. QED
                BY <1>1, <2>1, <3>1, <4>1, <4>2, SenderConstantsOK DEF Held
        <3>6. CASE DrainOne
            <4>1. /\ queue # << >> /\ queue' = Tail(queue)
                  /\ fate' = Fated(queue[1].handler, "failed")
                  /\ queue' \in Seq(Request)
                BY <1>1, <3>6, FirstOfQueue DEF DrainOne
            <4>2. n = 1
                BY <1>1, <3>2, <4>1, QueuedStay
            <4>3. QED
                BY <2>1, <3>1, <4>1, <4>2, FirstFated DEF SendFates
        <3>7. CASE queue' = queue
            BY <2>1, <3>2, <3>7
        <3>8. QED
            BY <1>1, <3>3, <3>4, <3>5, <3>6, <3>7
            DEF SenderNext, SendLoop, HandlerReturn, SenderCall, SendIdle,
                WriteDone, WriteWaits, WriteFails, DrainEnds, MembersDestroyed,
                RefusedReturns, FailedReturns, DrainedReturns, CallSend,
                DestroySender
    <2>5. QED
        BY <2>1, <2>3, <2>4, LenProperties DEF Held, HandlersQueued, ToSet
<1>2. SInv /\ [SenderNext]_sndVars =>
        [\A h \in Held : h \notin Held' => Gone(h)]_sndVars
    BY <1>1
<1>3. QED
    BY <1>2, SenderInvariance, PTL DEF SenderSpec, SenderKeepsHandlers

(* What Send returns is true: after kIdle and kError it holds nothing.     *)
THEOREM SendReturnsTruly == SenderSpec => SendReturnIsTrue
<1>1. ASSUME SInv, SenderNext, spc # "out", spc' = "out", sphase' = "open"
      PROVE  /\ sstatus' \in {"kIdle", "kError"} => Held' = {}
             /\ sstatus' = "kIoWait" => writer' # NoWriter
    <2>1. queue' = << >> => HandlersQueued' = {}
        BY DEF HandlersQueued, ToSet
    <2>2. CASE SendIdle
        BY <1>1, <2>1, <2>2
        DEF SendIdle, SendReturns, Held, SInv, PositionsKnow
    <2>3. CASE WriteWaits
        BY <2>3 DEF WriteWaits, SendReturns
    <2>4. CASE DrainEnds
        BY <1>1, <2>1, <2>4
        DEF DrainEnds, SendReturns, Held, SInv, PositionsKnow
    <2>5. QED
        BY <1>1, <2>2, <2>3, <2>4
        DEF SenderNext, SendLoop, HandlerReturn, SenderCall, TakeRequest,
            WriteDone, WriteFails, DrainOne, MembersDestroyed, RefusedReturns,
            FailedReturns, DrainedReturns, Enqueue, RemoveQueued, CallSend,
            DestroySender
<1>2. QED
    BY <1>1, SenderInvariance, PTL DEF SenderSpec, SendReturnIsTrue
============================================================================
