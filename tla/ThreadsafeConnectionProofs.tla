---------------------- MODULE ThreadsafeConnectionProofs ----------------------
(* Theorems about ThreadsafeConnection and the setup it begins with, for    *)
(* any threads, calls, frames and addresses.                                *)
EXTENDS ThreadsafeConnection, SequenceTheorems, TLAPS

-----------------------------------------------------------------------------
(* The setup.  What is held at each step of doNewConnection.               *)
TlsObjects == IF tls THEN {Context, Session} ELSE {}

HeldAt ==
    /\ step = "start" => held = {}
    /\ step \in {"resolve", "address"} => held = TlsObjects
    /\ step = "socket" => held = TlsObjects \cup {Socket(socketFd)}
    /\ step = "greeting" => held = TlsObjects \cup {Socket(fd), Reader}

(* fd_ is set once, to the socket of the address that accepted.            *)
FdAt ==
    /\ step \in {"start", "resolve", "address", "socket"} => fd = 0
    /\ step = "socket" => socketFd \in Addresses /\ left \in Addresses
    /\ step \in {"handshake", "receiver", "greeting", "open"} =>
          fd = socketFd /\ fd \in Addresses

SetupInv == SetupTypeOK /\ OnlyKnownLeaks /\ HeldAt /\ FdAt

(* The things that can be held differ.                                     *)
LEMMA ResourcesDiffer ==
    /\ Context # Session /\ Context # Reader /\ Session # Reader
    /\ \A a : Socket(a) \notin {Context, Session, Reader}
    /\ {Context, Session, Reader} \subseteq Resources
    /\ \A a \in Addresses : Socket(a) \in Resources
BY DEF Context, Session, Reader, Socket, Resources

LEMMA SetupInitially == ASSUME SetupInit PROVE SetupInv
BY AddressesAssumption
   DEF SetupInit, SetupInv, SetupTypeOK, OnlyKnownLeaks, HeldAt, FdAt, Steps, Failures

(* Each step of the setup, and the peer's, keeps the invariant.            *)
LEMMA SetupSteps ==
    ASSUME SetupInv, SetupStep \/ PeerActs \/ Release
    PROVE  SetupInv'
<1> USE ResourcesDiffer, AddressesAssumption
<1> USE DEF SetupInv, SetupTypeOK, OnlyKnownLeaks, HeldAt, FdAt, TlsObjects, Steps, Failures
<1>1. CASE ConstructWrapper
    BY <1>1 DEF ConstructWrapper
<1>2. CASE Resolve
    BY <1>2 DEF Resolve, Fail, DestroyWrapper, Addresses
<1>3. CASE SkipAddress
    BY <1>3 DEF SkipAddress
<1>4. CASE OpenSocket
    BY <1>4 DEF OpenSocket, Addresses
<1>5. CASE DropSocket
    BY <1>5 DEF DropSocket, Addresses
<1>6. CASE KeepSocket
    BY <1>6 DEF KeepSocket
<1>7. CASE NoAddressLeft
    BY <1>7 DEF NoAddressLeft, Fail, DestroyWrapper
<1>8. CASE ConnectSSL
    BY <1>8 DEF ConnectSSL, Fail, DestroyWrapper
<1>9. CASE StartReader
    BY <1>9 DEF StartReader
<1>10. CASE SkipStray
    BY <1>10 DEF SkipStray
<1>11. CASE ReadGreeting
    BY <1>11 DEF ReadGreeting
<1>12. CASE NoGreeting
    BY <1>12 DEF NoGreeting, Fail, DestroyWrapper
<1>13. CASE PeerActs
    BY <1>13 DEF PeerActs
<1>14. CASE Release
    BY <1>14 DEF Release, DestroyWrapper
<1>15. QED
    BY <1>1, <1>2, <1>3, <1>4, <1>5, <1>6, <1>7, <1>8, <1>9, <1>10, <1>11, <1>12,
       <1>13, <1>14 DEF SetupStep

LEMMA SetupUntouched ==
    ASSUME SetupInv, UNCHANGED setupVars
    PROVE  SetupInv'
BY DEF SetupInv, SetupTypeOK, OnlyKnownLeaks, HeldAt, FdAt, TlsObjects, setupVars

-----------------------------------------------------------------------------
(* The stacks.  Under the top there are only calls in a callback; a frame   *)
(* of an iterator is alone, and takes no lock.                              *)
WellStacked(s) ==
    /\ \A i \in 1 .. Len(s) - 1 : s[i].at = "callback" /\ s[i].call # "nextFrame"
    /\ s # << >> /\ s[Len(s)].call = "nextFrame" =>
          Len(s) = 1 /\ s[1].at \in {"inside", "waiting", "leave"}

OfIterator(s) == s # << >> /\ s[Len(s)].call = "nextFrame"

Locks(s) == IF s = << >> \/ OfIterator(s) THEN 0
            ELSE IF s[Len(s)].at = "lock" THEN Len(s) - 1 ELSE Len(s)

LEMMA TopOfStack ==
    ASSUME NEW s \in Seq(Frame), s # << >>
    PROVE  /\ Len(s) \in Nat /\ Len(s) >= 1 /\ s[Len(s)] \in Frame
           /\ \A i \in 1 .. Len(s) : s[i] \in Frame
OBVIOUS

LEMMA InitialSegment ==
    ASSUME NEW T, NEW s \in Seq(T), NEW n \in Nat, n <= Len(s)
    PROVE  /\ SubSeq(s, 1, n) \in Seq(T) /\ Len(SubSeq(s, 1, n)) = n
           /\ \A i \in 1 .. n : SubSeq(s, 1, n)[i] = s[i]
<1>1. Len(s) \in Nat /\ \A i \in 1 .. Len(s) : s[i] \in T
    BY LenProperties, ElementOfSeq
<1>2. \A i \in 1 .. n : s[i] \in T
    BY <1>1
<1>3. QED
    BY <1>2, SubSeqProperties

(* The call on top goes on to another place.                               *)
Moved(s, p) == [s EXCEPT ![Len(s)].at = p]

LEMMA MovedFacts ==
    ASSUME NEW s \in Seq(Frame), s # << >>, NEW p \in Places
    PROVE  /\ Moved(s, p) \in Seq(Frame) /\ Len(Moved(s, p)) = Len(s)
           /\ Moved(s, p) # << >>
           /\ \A i \in 1 .. Len(s) - 1 : Moved(s, p)[i] = s[i]
           /\ Moved(s, p)[Len(s)].call = s[Len(s)].call
           /\ Moved(s, p)[Len(s)].at = p
<1> DEFINE e == [s[Len(s)] EXCEPT !.at = p]
<1>1. /\ Len(s) \in Nat /\ Len(s) >= 1 /\ s[Len(s)] \in Frame
    BY TopOfStack
<1>2. e \in Frame /\ e.call = s[Len(s)].call /\ e.at = p
    BY <1>1 DEF Frame
<1>3. Moved(s, p) = [s EXCEPT ![Len(s)] = e]
    BY DEF Moved
<1> HIDE DEF e
<1>4. /\ Moved(s, p) \in Seq(Frame) /\ Len(Moved(s, p)) = Len(s)
      /\ \A j \in 1 .. Len(s) : Moved(s, p)[j] = IF j = Len(s) THEN e ELSE s[j]
    BY <1>1, <1>2, <1>3, ExceptSeq
<1>5. QED
    BY <1>1, <1>2, <1>4

(* Getting the lock is one lock more; every other move is none.            *)
LEMMA MoveKeeps ==
    ASSUME NEW s \in Seq(Frame), s # << >>, WellStacked(s), NEW p \in Places \ {"lock"},
           s[Len(s)].call = "nextFrame" => p \in {"waiting", "leave"}
    PROVE  /\ WellStacked(Moved(s, p))
           /\ OfIterator(Moved(s, p)) <=> OfIterator(s)
           /\ Locks(Moved(s, p)) = IF s[Len(s)].at = "lock" THEN Locks(s) + 1 ELSE Locks(s)
<1>1. /\ Len(s) \in Nat /\ Len(s) >= 1
    BY TopOfStack
<1> DEFINE r == Moved(s, p)
<1>2. /\ r \in Seq(Frame) /\ Len(r) = Len(s) /\ r # << >>
      /\ \A i \in 1 .. Len(s) - 1 : r[i] = s[i]
      /\ r[Len(s)].call = s[Len(s)].call /\ r[Len(s)].at = p
    BY MovedFacts
<1> HIDE DEF r
<1>3. WellStacked(r)
    BY <1>1, <1>2 DEF WellStacked
<1>4. OfIterator(r) <=> OfIterator(s)
    BY <1>2 DEF OfIterator
<1>5. CASE OfIterator(s)
    <2>1. s[Len(s)].at # "lock"
        BY <1>1, <1>5 DEF WellStacked, OfIterator
    <2>2. QED
        BY <1>3, <1>4, <1>5, <2>1 DEF Locks, r
<1>6. CASE ~OfIterator(s)
    <2>1. Locks(r) = Len(s)
        <3>1. r # << >> /\ ~OfIterator(r) /\ r[Len(r)].at # "lock" /\ Len(r) = Len(s)
            BY <1>2, <1>4, <1>6
        <3>2. QED
            BY <3>1 DEF Locks
    <2>2. Locks(s) = IF s[Len(s)].at = "lock" THEN Len(s) - 1 ELSE Len(s)
        BY <1>6 DEF Locks
    <2>3. Locks(r) = IF s[Len(s)].at = "lock" THEN Locks(s) + 1 ELSE Locks(s)
        BY <1>1, <2>1, <2>2
    <2>4. QED
        BY <1>3, <1>4, <2>3 DEF r
<1>7. QED
    BY <1>5, <1>6

(* A call from the outside, or from a callback, holds no lock yet.         *)
LEMMA CallKeeps ==
    ASSUME NEW s \in Seq(Frame), WellStacked(s),
           s = << >> \/ s[Len(s)].at = "callback",
           NEW e \in Frame, e.call # "nextFrame", e.at = "lock"
    PROVE  /\ Append(s, e) \in Seq(Frame) /\ WellStacked(Append(s, e))
           /\ ~OfIterator(Append(s, e)) /\ ~OfIterator(s)
           /\ Locks(Append(s, e)) = Locks(s)
<1> DEFINE r == Append(s, e)
<1>1. /\ r \in Seq(Frame) /\ Len(s) \in Nat /\ Len(r) = Len(s) + 1 /\ r # << >>
      /\ r[Len(s) + 1] = e /\ \A j \in 1 .. Len(s) : r[j] = s[j]
    OBVIOUS
<1> HIDE DEF r
<1>2. s # << >> => Len(s) >= 1
    BY TopOfStack
<1>3. ~OfIterator(s)
    BY <1>2 DEF WellStacked, OfIterator
<1>4. ~OfIterator(r)
    BY <1>1 DEF OfIterator
<1>5. WellStacked(r)
    <2>1. ASSUME NEW i \in 1 .. Len(r) - 1
          PROVE  r[i].at = "callback" /\ r[i].call # "nextFrame"
        <3>1. i \in 1 .. Len(s) /\ r[i] = s[i] /\ s # << >>
            <4>1. i \in 1 .. Len(s)
                BY <1>1
            <4>2. QED
                BY <1>1, <4>1
        <3>2. CASE i = Len(s)
            BY <1>3, <3>1, <3>2 DEF OfIterator
        <3>3. CASE i # Len(s)
            <4>1. i \in 1 .. Len(s) - 1
                BY <1>1, <3>1, <3>3
            <4>2. QED
                BY <3>1, <4>1 DEF WellStacked
        <3>4. QED
            BY <3>2, <3>3
    <2>2. QED
        BY <1>4, <2>1 DEF WellStacked, OfIterator
<1>6. Locks(r) = Len(s)
    <2>1. Locks(r) = Len(r) - 1
        BY <1>1, <1>4 DEF Locks
    <2>2. QED
        BY <1>1, <2>1
<1>7. Locks(s) = Len(s)
    <2>1. CASE s = << >>
        BY <2>1 DEF Locks
    <2>2. CASE s # << >>
        BY <1>3, <2>2 DEF Locks
    <2>3. QED
        BY <2>1, <2>2
<1>8. QED
    BY <1>1, <1>3, <1>4, <1>5, <1>6, <1>7 DEF r

(* A call that returns gives back its one lock; the call under it, if any, *)
(* still has its own.                                                      *)
LEMMA ReturnKeeps ==
    ASSUME NEW s \in Seq(Frame), s # << >>, WellStacked(s), s[Len(s)].at = "leave"
    PROVE  LET r == SubSeq(s, 1, Len(s) - 1)
           IN /\ r \in Seq(Frame) /\ WellStacked(r) /\ ~OfIterator(r)
              /\ OfIterator(s) => r = << >> /\ Locks(r) = Locks(s)
              /\ ~OfIterator(s) => Locks(s) >= 1 /\ Locks(r) = Locks(s) - 1
<1> DEFINE r == SubSeq(s, 1, Len(s) - 1)
<1>1. /\ Len(s) \in Nat /\ Len(s) >= 1 /\ \A i \in 1 .. Len(s) : s[i] \in Frame
    BY TopOfStack
<1>2. /\ r \in Seq(Frame) /\ Len(r) = Len(s) - 1
      /\ \A i \in 1 .. Len(s) - 1 : r[i] = s[i]
    <2>1. Len(s) - 1 \in Nat /\ Len(s) - 1 <= Len(s)
        BY <1>1
    <2>2. QED
        BY <2>1, InitialSegment
<1> HIDE DEF r
<1>3. \A i \in 1 .. Len(r) : r[i].at = "callback" /\ r[i].call # "nextFrame"
    BY <1>2 DEF WellStacked
<1>4. r # << >> => Len(r) \in 1 .. Len(r)
    BY <1>1, <1>2
<1>5. ~OfIterator(r)
    BY <1>3, <1>4 DEF OfIterator
<1>6. WellStacked(r)
    <2>1. \A i \in 1 .. Len(r) - 1 : i \in 1 .. Len(r)
        BY <1>1, <1>2
    <2>2. QED
        BY <1>3, <1>5, <2>1 DEF WellStacked, OfIterator
<1>7. Locks(r) = Len(s) - 1
    <2>1. CASE r = << >>
        BY <1>1, <1>2, <2>1 DEF Locks
    <2>2. CASE r # << >>
        BY <1>2, <1>3, <1>4, <1>5, <2>2 DEF Locks
    <2>3. QED
        BY <2>1, <2>2
<1>8. CASE OfIterator(s)
    <2>1. Len(s) = 1
        BY <1>8 DEF WellStacked, OfIterator
    <2>2. r = << >>
        BY <1>2, <2>1
    <2>3. Locks(s) = 0
        BY <1>8 DEF Locks
    <2>4. QED
        BY <1>2, <1>5, <1>6, <1>7, <1>8, <2>1, <2>2, <2>3 DEF r
<1>9. CASE ~OfIterator(s)
    <2>1. Locks(s) = Len(s)
        BY <1>9 DEF Locks
    <2>2. QED
        BY <1>1, <1>2, <1>5, <1>6, <1>7, <1>9, <2>1 DEF r
<1>10. QED
    BY <1>8, <1>9

-----------------------------------------------------------------------------
(* The mutex is locked once for each call its owner has entered, and while  *)
(* an iterator fetches a frame no other thread is in a call.                *)
Alone ==
    IteratorsAlone =>
        \A t, u \in Threads : t # u /\ OfIterator(stack[t]) => stack[u] = << >>

LocksInv ==
    /\ stack \in [Threads -> Seq(Frame)]
    /\ owner \in Threads \cup {NoThread} /\ depth \in Nat
    /\ (owner = NoThread) <=> (depth = 0)
    /\ \A t \in Threads : WellStacked(stack[t])
    /\ \A t \in Threads : Locks(stack[t]) = IF owner = t THEN depth ELSE 0
    /\ Alone

(* What a step that changes the stack of one thread has to show.            *)
LEMMA OneStackChanges ==
    ASSUME LocksInv, NEW t \in Threads, NEW r \in Seq(Frame),
           stack' = [stack EXCEPT ![t] = r], WellStacked(r),
           owner' \in Threads \cup {NoThread}, depth' \in Nat,
           (owner' = NoThread) <=> (depth' = 0),
           Locks(r) = IF owner' = t THEN depth' ELSE 0,
           \A u \in Threads \ {t} : /\ owner' # u
                                    /\ owner # u,
           IteratorsAlone /\ OfIterator(r) => \A u \in Threads \ {t} : stack[u] = << >>,
           IteratorsAlone /\ r # << >> => \A u \in Threads \ {t} : ~OfIterator(stack[u])
    PROVE  LocksInv'
<1>1. /\ stack' \in [Threads -> Seq(Frame)] /\ stack'[t] = r
      /\ \A u \in Threads \ {t} : stack'[u] = stack[u]
    BY DEF LocksInv
<1>2. \A u \in Threads : WellStacked(stack'[u])
    BY <1>1 DEF LocksInv
<1>3. \A u \in Threads : Locks(stack'[u]) = IF owner' = u THEN depth' ELSE 0
    BY <1>1 DEF LocksInv
<1>4. Alone'
    BY <1>1 DEF Alone, LocksInv
<1>5. QED
    BY <1>1, <1>2, <1>3, <1>4 DEF LocksInv

(* Nobody but the thread on whose stack it is touches the mutex.  A step of *)
(* a thread that leaves the mutex alone:                                    *)
LEMMA MutexUntouched ==
    ASSUME LocksInv, NEW t \in Threads, NEW r \in Seq(Frame),
           stack' = [stack EXCEPT ![t] = r], WellStacked(r), UNCHANGED <<owner, depth>>,
           Locks(r) = Locks(stack[t]),
           IteratorsAlone /\ OfIterator(r) => \A u \in Threads \ {t} : stack[u] = << >>,
           IteratorsAlone /\ r # << >> => \A u \in Threads \ {t} : ~OfIterator(stack[u])
    PROVE  LocksInv'
<1>1. /\ stack' \in [Threads -> Seq(Frame)] /\ stack'[t] = r
      /\ \A u \in Threads \ {t} : stack'[u] = stack[u]
    BY DEF LocksInv
<1>2. \A u \in Threads : WellStacked(stack'[u])
    BY <1>1 DEF LocksInv
<1>3. \A u \in Threads : Locks(stack'[u]) = IF owner' = u THEN depth' ELSE 0
    BY <1>1 DEF LocksInv
<1>4. Alone'
    BY <1>1 DEF Alone, LocksInv
<1>5. QED
    BY <1>1, <1>2, <1>3, <1>4 DEF LocksInv

(* A call moves on, from any place but the lock.                            *)
LEMMA GotoKeeps ==
    ASSUME LocksInv, NEW t \in Threads, NEW p \in Places \ {"lock"}, Goto(t, p),
           ~Idle(t), Top(t).at # "lock", UNCHANGED <<owner, depth>>,
           Top(t).call = "nextFrame" => p \in {"waiting", "leave"}
    PROVE  LocksInv'
<1> DEFINE s == stack[t]
<1>1. s \in Seq(Frame) /\ s # << >> /\ WellStacked(s)
    BY DEF LocksInv, Idle
<1>2. stack' = [stack EXCEPT ![t] = Moved(s, p)]
    BY DEF Goto, Moved
<1>3. Moved(s, p) \in Seq(Frame)
    BY <1>1, MovedFacts
<1>4. /\ WellStacked(Moved(s, p))
      /\ OfIterator(Moved(s, p)) <=> OfIterator(s)
      /\ Locks(Moved(s, p)) = Locks(s)
    BY <1>1, MoveKeeps DEF Top
<1>5. /\ IteratorsAlone /\ OfIterator(s) => \A u \in Threads \ {t} : stack[u] = << >>
      /\ IteratorsAlone => \A u \in Threads \ {t} : ~OfIterator(stack[u])
    BY <1>1 DEF LocksInv, Alone
<1> HIDE DEF s
<1>6. Locks(Moved(s, p)) = Locks(stack[t])
    BY <1>4 DEF s
<1>7. QED
    BY <1>2, <1>3, <1>4, <1>5, <1>6, MutexUntouched

(* The lock is taken.                                                       *)
LEMMA LockKeeps ==
    ASSUME LocksInv, NEW t \in Threads, Lock(t), NoThread \notin Threads
    PROVE  LocksInv'
<1> DEFINE s == stack[t]
           r == Moved(s, "inside")
<1>1. s \in Seq(Frame) /\ s # << >> /\ WellStacked(s) /\ s[Len(s)].at = "lock"
    BY DEF LocksInv, Lock, At, Idle, Top
<1>2. s[Len(s)].call # "nextFrame"
    BY <1>1, TopOfStack DEF WellStacked
<1>3. stack' = [stack EXCEPT ![t] = r] /\ "inside" \in Places \ {"lock"}
    BY DEF Lock, Goto, Moved, Places
<1>4. r \in Seq(Frame)
    BY <1>1, <1>3, MovedFacts
<1>5. /\ WellStacked(r) /\ ~OfIterator(r) /\ Locks(r) = Locks(s) + 1
    <2>1. /\ WellStacked(r)
          /\ OfIterator(r) <=> OfIterator(s)
          /\ Locks(r) = IF s[Len(s)].at = "lock" THEN Locks(s) + 1 ELSE Locks(s)
        BY <1>1, <1>2, <1>3, MoveKeeps
    <2>2. QED
        BY <1>1, <1>2, <2>1 DEF OfIterator
<1> HIDE DEF r
<1>6. /\ owner \in {NoThread, t} /\ owner' = t /\ depth' = depth + 1 /\ depth \in Nat
      /\ Locks(s) = depth
    BY DEF Lock, LocksInv
<1>7. /\ owner' \in Threads \cup {NoThread} /\ depth' \in Nat
      /\ (owner' = NoThread) <=> (depth' = 0)
      /\ Locks(r) = IF owner' = t THEN depth' ELSE 0
    BY <1>5, <1>6
<1>8. \A u \in Threads \ {t} : owner' # u /\ owner # u
    BY <1>6
<1>9. IteratorsAlone => \A u \in Threads \ {t} : ~OfIterator(stack[u])
    BY <1>1 DEF LocksInv, Alone
<1>10. QED
    BY <1>3, <1>4, <1>5, <1>7, <1>8, <1>9, OneStackChanges

(* The lock is given back.                                                  *)
LEMMA LeaveKeeps ==
    ASSUME LocksInv, NEW t \in Threads, Leave(t), NoThread \notin Threads
    PROVE  LocksInv'
<1> DEFINE s == stack[t]
           r == SubSeq(s, 1, Len(s) - 1)
<1>1. s \in Seq(Frame) /\ s # << >> /\ WellStacked(s) /\ s[Len(s)].at = "leave"
    BY DEF LocksInv, Leave, At, Idle, Top
<1>2. stack' = [stack EXCEPT ![t] = r]
    BY DEF Leave, Pop
<1>3. /\ r \in Seq(Frame) /\ WellStacked(r) /\ ~OfIterator(r)
      /\ OfIterator(s) => r = << >> /\ Locks(r) = Locks(s)
      /\ ~OfIterator(s) => Locks(s) >= 1 /\ Locks(r) = Locks(s) - 1
    BY <1>1, ReturnKeeps
<1> HIDE DEF r
<1>4. IteratorsAlone => \A u \in Threads \ {t} : ~OfIterator(stack[u])
    BY <1>1 DEF LocksInv, Alone
<1>5. In(t, {"nextFrame"}) <=> OfIterator(s)
    BY <1>1 DEF In, Top, OfIterator
<1>6. CASE OfIterator(s)
    <2>1. UNCHANGED <<owner, depth>>
        BY <1>5, <1>6 DEF Leave
    <2>2. QED
        BY <1>2, <1>3, <1>4, <1>6, <2>1, MutexUntouched
<1>7. CASE ~OfIterator(s)
    <2>1. /\ depth' = depth - 1 /\ owner' = IF depth = 1 THEN NoThread ELSE owner
        BY <1>5, <1>7 DEF Leave
    <2>2. depth \in Nat /\ Locks(s) = IF owner = t THEN depth ELSE 0
        BY DEF LocksInv
    <2>3. owner = t /\ Locks(s) = depth /\ depth >= 1
        BY <1>3, <1>7, <2>2
    <2>4. /\ owner' \in Threads \cup {NoThread} /\ depth' \in Nat
          /\ (owner' = NoThread) <=> (depth' = 0)
          /\ Locks(r) = IF owner' = t THEN depth' ELSE 0
        BY <1>3, <1>7, <2>1, <2>2, <2>3
    <2>5. \A u \in Threads \ {t} : owner' # u /\ owner # u
        BY <2>1, <2>3
    <2>6. QED
        BY <1>2, <1>3, <1>4, <2>4, <2>5, OneStackChanges
<1>8. QED
    BY <1>6, <1>7

(* A call begins.                                                           *)
LEMMA CallKeepsLocks ==
    ASSUME LocksInv, NEW t \in Threads, NEW c \in Used, Call(t, c)
    PROVE  LocksInv'
<1> DEFINE s == stack[t]
           e == [call |-> c, at |-> "lock"]
<1>1. s \in Seq(Frame) /\ WellStacked(s) /\ (s = << >> \/ s[Len(s)].at = "callback")
    BY DEF LocksInv, Call, At, Idle, Top
<1>2. c # "nextFrame"
    BY DEF Call, Offers, Kinds, Submits, Reads, Writes, DeviceCalls
<1>3. e \in Frame /\ e.call # "nextFrame" /\ e.at = "lock"
    BY <1>2 DEF Frame, Places
<1>4. stack' = [stack EXCEPT ![t] = Append(s, e)]
    BY DEF Call, Push
<1> HIDE DEF e
<1>5. /\ Append(s, e) \in Seq(Frame) /\ WellStacked(Append(s, e))
      /\ ~OfIterator(Append(s, e)) /\ Locks(Append(s, e)) = Locks(s)
    BY <1>1, <1>3, CallKeeps
<1>6. UNCHANGED <<owner, depth>>
    BY DEF Call
<1>7. IteratorsAlone => \A u \in Threads \ {t} : ~OfIterator(stack[u])
    BY DEF Call, Others, Fetching, Idle, Top, OfIterator
<1>8. QED
    BY <1>4, <1>5, <1>6, <1>7, MutexUntouched

(* An iterator fetches a frame.                                             *)
LEMMA FrameKeepsLocks ==
    ASSUME LocksInv, NEW t \in Threads, NextFrame(t)
    PROVE  LocksInv'
<1> DEFINE e == [call |-> "nextFrame", at |-> "inside"]
           r == Append(stack[t], e)
<1>1. stack[t] = << >> /\ stack' = [stack EXCEPT ![t] = r]
    BY DEF NextFrame, Idle, Push
<1>2. e \in Frame /\ e.call = "nextFrame" /\ e.at = "inside"
    BY DEF Frame, Places
<1> HIDE DEF e
<1>3. r \in Seq(Frame) /\ Len(r) = 1 /\ r[1] = e /\ r # << >>
    BY <1>1, <1>2
<1> HIDE DEF r
<1>4. WellStacked(r) /\ OfIterator(r)
    BY <1>2, <1>3 DEF WellStacked, OfIterator
<1>5. Locks(r) = Locks(stack[t])
    BY <1>1, <1>4 DEF Locks
<1>6. UNCHANGED <<owner, depth>>
    BY DEF NextFrame, Unlocked
<1>7. IteratorsAlone => \A u \in Threads \ {t} : stack[u] = << >> /\ ~OfIterator(stack[u])
    BY DEF NextFrame, Others, Idle, OfIterator
<1>8. QED
    BY <1>1, <1>3, <1>4, <1>5, <1>6, <1>7, MutexUntouched

-----------------------------------------------------------------------------
(* The inductive invariant.                                                 *)
CountsOK ==
    /\ kind \in Kinds /\ waiting \in Nat /\ calls \in 0 .. MaxCalls
    /\ frames \in [Threads -> 0 .. MaxFrames]

ThreadsInv == SetupInv /\ LocksInv /\ CountsOK

LEMMA ThreadsInitially == ASSUME Init PROVE ThreadsInv
<1>1. SetupInv
    BY SetupInitially DEF Init
<1>2. LocksInv
    BY ThreadsAssumption DEF Init, LocksInv, Alone, WellStacked, Locks, OfIterator
<1>3. CountsOK
    BY ThreadsAssumption DEF Init, CountsOK
<1>4. QED
    BY <1>1, <1>2, <1>3 DEF ThreadsInv

(* A step inside a call, action by action.                                  *)
LEMMA ThreadStepKeeps ==
    ASSUME ThreadsInv, NEW t \in Threads, ThreadStep(t)
    PROVE  LocksInv' /\ CountsOK' /\ UNCHANGED setupVars
<1> USE DEF ThreadsInv
<1>0. {"inside", "callback", "leave", "waiting"} \subseteq Places \ {"lock"}
    BY DEF Places
<1>1. CASE Lock(t)
    BY <1>1, LockKeeps, ThreadsAssumption DEF Lock, CountsOK
<1>2. CASE Submit(t)
    <2>1. /\ ~Idle(t) /\ Top(t).at # "lock" /\ Top(t).call # "nextFrame"
          /\ UNCHANGED <<owner, depth>> /\ (Goto(t, "leave") \/ Goto(t, "callback"))
        BY <1>2 DEF Submit, Inside, At, In, Submits, Reads, Writes, DeviceCalls, Unlocked
    <2>2. LocksInv'
        BY <1>0, <2>1, GotoKeeps
    <2>3. QED
        BY <1>2, <2>2 DEF Submit, Unlocked, CountsOK
<1>3. CASE RunCallsBack(t)
    <2>1. /\ ~Idle(t) /\ Top(t).at # "lock" /\ Top(t).call # "nextFrame"
          /\ UNCHANGED <<owner, depth>> /\ Goto(t, "callback")
        BY <1>3 DEF RunCallsBack, Inside, At, In, Unlocked
    <2>2. LocksInv'
        BY <1>0, <2>1, GotoKeeps
    <2>3. QED
        BY <1>3, <2>2 DEF RunCallsBack, Unlocked, CountsOK
<1>4. CASE CallbackReturns(t)
    <2>1. /\ ~Idle(t) /\ Top(t).at = "callback" /\ UNCHANGED <<owner, depth>>
          /\ Goto(t, "inside") \/ Goto(t, "leave")
        BY <1>4 DEF CallbackReturns, At, Unlocked
    <2>2. Top(t).call # "nextFrame"
        BY <2>1, TopOfStack DEF LocksInv, WellStacked, Top, Idle
    <2>3. LocksInv'
        BY <1>0, <2>1, <2>2, GotoKeeps
    <2>4. QED
        BY <1>4, <2>3 DEF CallbackReturns, Unlocked, CountsOK
<1>5. CASE RunReturns(t)
    <2>1. /\ ~Idle(t) /\ Top(t).at # "lock" /\ UNCHANGED <<owner, depth>> /\ Goto(t, "leave")
        BY <1>5 DEF RunReturns, Inside, At, Unlocked
    <2>2. LocksInv'
        BY <1>0, <2>1, GotoKeeps
    <2>3. QED
        BY <1>5, <2>2 DEF RunReturns, Unlocked, CountsOK
<1>6. CASE RemoveHandler(t)
    <2>1. /\ ~Idle(t) /\ Top(t).at # "lock" /\ UNCHANGED <<owner, depth>> /\ Goto(t, "leave")
        BY <1>6 DEF RemoveHandler, Inside, At, Unlocked
    <2>2. LocksInv'
        BY <1>0, <2>1, GotoKeeps
    <2>3. QED
        BY <1>6, <2>2 DEF RemoveHandler, Unlocked, CountsOK
<1>7. CASE SetClientClusterVersion(t)
    <2>1. /\ ~Idle(t) /\ Top(t).at # "lock" /\ UNCHANGED <<owner, depth>> /\ Goto(t, "leave")
        BY <1>7 DEF SetClientClusterVersion, Inside, At, Unlocked
    <2>2. LocksInv'
        BY <1>0, <2>1, GotoKeeps
    <2>3. QED
        BY <1>7, <2>2 DEF SetClientClusterVersion, Unlocked, CountsOK
<1>8. CASE Operation(t)
    <2>1. /\ ~Idle(t) /\ Top(t).at # "lock" /\ UNCHANGED <<owner, depth>> /\ Goto(t, "waiting")
        BY <1>8 DEF Operation, Inside, At, Unlocked
    <2>2. LocksInv'
        BY <1>0, <2>1, GotoKeeps
    <2>3. QED
        BY <1>8, <2>2 DEF Operation, Unlocked, CountsOK
<1>9. CASE OperationEnds(t)
    <2>1. /\ ~Idle(t) /\ Top(t).at # "lock" /\ UNCHANGED <<owner, depth>> /\ Goto(t, "leave")
        BY <1>9 DEF OperationEnds, At, Unlocked
    <2>2. LocksInv'
        BY <1>0, <2>1, GotoKeeps
    <2>3. QED
        BY <1>9, <2>2 DEF OperationEnds, Unlocked, CountsOK
<1>10. CASE Leave(t)
    BY <1>10, LeaveKeeps, ThreadsAssumption DEF Leave, CountsOK
<1>11. QED
    BY <1>1, <1>2, <1>3, <1>4, <1>5, <1>6, <1>7, <1>8, <1>9, <1>10 DEF ThreadStep

LEMMA ThreadsStep == ASSUME ThreadsInv, [Next]_vars PROVE ThreadsInv'
<1>1. CASE (SetupStep \/ PeerActs) /\ UNCHANGED threadVars
    <2>1. SetupInv'
        BY <1>1, SetupSteps DEF ThreadsInv
    <2>2. LocksInv' /\ CountsOK'
        BY <1>1 DEF ThreadsInv, LocksInv, Alone, CountsOK, threadVars
    <2>3. QED
        BY <2>1, <2>2 DEF ThreadsInv
<1>2. ASSUME NEW t \in Threads, ThreadStep(t)
      PROVE  ThreadsInv'
    BY <1>2, ThreadStepKeeps, SetupUntouched DEF ThreadsInv
<1>3. ASSUME NEW t \in Threads, NextFrame(t)
      PROVE  ThreadsInv'
    <2>1. LocksInv'
        BY <1>3, FrameKeepsLocks DEF ThreadsInv
    <2>2. CountsOK' /\ UNCHANGED setupVars
        <3>1. frames[t] \in 0 .. MaxFrames /\ frames[t] > 0 /\ MaxFrames \in Nat
            BY <1>3, ThreadsAssumption DEF NextFrame, ThreadsInv, CountsOK
        <3>2. frames[t] - 1 \in 0 .. MaxFrames
            BY <3>1
        <3>3. QED
            BY <1>3, <3>2 DEF NextFrame, Unlocked, ThreadsInv, CountsOK
    <2>3. QED
        BY <2>1, <2>2, SetupUntouched DEF ThreadsInv
<1>4. ASSUME NEW t \in Threads, NEW c \in Used, Call(t, c)
      PROVE  ThreadsInv'
    <2>1. LocksInv'
        BY <1>4, CallKeepsLocks DEF ThreadsInv
    <2>2. CountsOK' /\ UNCHANGED setupVars
        BY <1>4, ThreadsAssumption DEF Call, ThreadsInv, CountsOK
    <2>3. QED
        BY <2>1, <2>2, SetupUntouched DEF ThreadsInv
<1>5. CASE Destroy
    <2>1. SetupInv'
        BY <1>5, SetupSteps DEF ThreadsInv, Destroy
    <2>2. LocksInv' /\ CountsOK'
        BY <1>5, ThreadsAssumption DEF Destroy, ThreadsInv, LocksInv, Alone, CountsOK
    <2>3. QED
        BY <2>1, <2>2 DEF ThreadsInv
<1>6. CASE UNCHANGED vars
    <2>1. SetupInv'
        BY <1>6, SetupUntouched DEF ThreadsInv, vars
    <2>2. LocksInv' /\ CountsOK'
        BY <1>6 DEF ThreadsInv, LocksInv, Alone, CountsOK, vars, threadVars
    <2>3. QED
        BY <2>1, <2>2 DEF ThreadsInv
<1>7. QED
    BY <1>1, <1>2, <1>3, <1>4, <1>5, <1>6 DEF Next

-----------------------------------------------------------------------------
(* In every reachable state the setup holds what its step says, and the     *)
(* mutex is locked as the threads' stacks say (the guards of                *)
(* ThreadsafeNonblockingKineticConnection).                                 *)
THEOREM ThreadsInvariance == Spec => []ThreadsInv
<1>1. Init => ThreadsInv
    BY ThreadsInitially
<1>2. ThreadsInv /\ [Next]_vars => ThreadsInv'
    BY ThreadsStep
<1>3. QED
    BY <1>1, <1>2, PTL DEF Spec

(* The locks of a thread, as the specification counts them.                 *)
LEMMA HeldIsLocks == \A t \in Threads : Held(t) = Locks(stack[t])
BY DEF Held, Locks, Idle, Fetching, At, Top, OfIterator

(* The types, and the mutex: locked as often as its owner's calls say       *)
(* (the lock_guards of threadsafe_nonblocking_kinetic_connection.cc).       *)
THEOREM ThreadsTypeCorrect == Spec => []ThreadsTypeOK
<1>1. ThreadsInv => ThreadsTypeOK
    BY HeldIsLocks DEF ThreadsInv, SetupInv, LocksInv, CountsOK, ThreadsTypeOK
<1>2. QED
    BY <1>1, ThreadsInvariance, PTL

(* SocketWrapper, the factory and the receiver's constructor leak nothing   *)
(* but the context and the reader of the two known cases.                   *)
THEOREM NothingElseLeaks == Spec => []OnlyKnownLeaks
<1>1. ThreadsInv => OnlyKnownLeaks
    BY DEF ThreadsInv, SetupInv
<1>2. QED
    BY <1>1, ThreadsInvariance, PTL

(* The locks do what they are for, for any number of threads and nested     *)
(* calls, as long as iterators fetch their frames alone.                    *)
THEOREM OneThreadInside == ASSUME IteratorsAlone PROVE Spec => []OneInside
<1>1. ThreadsInv => OneInside
    <2>1. SUFFICES ASSUME ThreadsInv, NEW t \in Threads, NEW u \in Threads,
                          IsInside(t), IsInside(u), t # u
                   PROVE  FALSE
        BY DEF OneInside
    <2>2. ~OfIterator(stack[t]) /\ ~OfIterator(stack[u])
        BY <2>1 DEF IsInside, Idle, ThreadsInv, LocksInv, Alone
    <2>3. Locks(stack[t]) > 0 /\ Locks(stack[u]) > 0
        BY <2>1, <2>2, HeldIsLocks DEF IsInside, Fetching, Idle, Top, OfIterator
    <2>4. owner = t /\ owner = u
        <3>1. /\ Locks(stack[t]) = IF owner = t THEN depth ELSE 0
              /\ Locks(stack[u]) = IF owner = u THEN depth ELSE 0
            BY <2>1 DEF ThreadsInv, LocksInv
        <3>2. QED
            BY <2>3, <3>1
    <2>5. QED
        BY <2>1, <2>4
<1>2. QED
    BY <1>1, ThreadsInvariance, PTL
=============================================================================
