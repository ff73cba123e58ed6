----------------------- MODULE KeyRangeIteratorProofs -----------------------
(* Theorems about KeyRangeIterator: what an iteration sees of a range that *)
(* other clients change, for any keys, ranges and frame sizes.             *)
EXTENDS KeyRangeIterator, SequenceTheorems, TLAPS

(* A frame is an ascending sequence of keys of its range, below which no   *)
(* key of the range is left out.                                           *)
LEMMA FrameFacts ==
    ASSUME ask \in Asks, NEW f, NEW inc, NEW s \in Frames(f, inc)
    PROVE  /\ s \in Seq(Keys) /\ Len(s) \in Nat /\ Ascending(s)
           /\ \A i \in 1 .. Len(s) : s[i] \in Keys /\ s[i] \in InRange(f, inc)
           /\ \A k \in InRange(f, inc) :
                s # << >> /\ (k > s[Len(s)] \/ \E i \in 1 .. Len(s) : s[i] = k)
           /\ s # << >> => Len(s) >= 1
<1>1. PICK n \in 0 .. ask.size : s \in [1 .. n -> Keys]
    BY DEF Frames
<1>2. ask.size \in Nat
    BY IteratorConstantsOK DEF Asks
<1>3. n \in Nat
    BY <1>1, <1>2
<1>4. s \in Seq(Keys)
    BY <1>1, <1>3
<1>5. Len(s) \in Nat /\ (s # << >> => Len(s) >= 1)
    BY <1>4
<1>6. \A i \in 1 .. Len(s) : s[i] \in Keys
    BY <1>4, ElementOfSeq
<1>7. QED
    BY <1>4, <1>5, <1>6 DEF Frames

(* Standing on a further key.                                              *)
LEMMA SeenGrows ==
    ASSUME NEW s \in Seq(Keys), NEW k \in Keys, Ascending(s), Asked(k),
           \A i \in 1 .. Len(s) : Asked(s[i]) /\ s[i] < k
    PROVE  /\ Append(s, k) \in Seq(Keys) /\ Ascending(Append(s, k))
           /\ Len(Append(s, k)) = Len(s) + 1 /\ Len(s) \in Nat
           /\ Append(s, k)[Len(s) + 1] = k
           /\ \A i \in 1 .. Len(Append(s, k)) :
                Asked(Append(s, k)[i]) /\ Append(s, k)[i] <= k
           /\ \A i \in 1 .. Len(s) : Append(s, k)[i] = s[i]
<1> DEFINE t == Append(s, k)
<1>1. /\ t \in Seq(Keys) /\ Len(s) \in Nat /\ Len(t) = Len(s) + 1
      /\ t[Len(s) + 1] = k /\ \A i \in 1 .. Len(s) : t[i] = s[i]
    OBVIOUS
<1>2. k \in Int /\ \A i \in 1 .. Len(s) : s[i] \in Int
    BY IteratorConstantsOK, ElementOfSeq
<1> HIDE DEF t
<1>3. ASSUME NEW i \in 1 .. Len(t), NEW j \in 1 .. Len(t), i < j
      PROVE  t[i] < t[j]
    <2>1. i \in 1 .. Len(s) /\ t[i] = s[i]
        BY <1>1, <1>3
    <2>2. CASE j \in 1 .. Len(s)
        BY <1>1, <1>3, <2>1, <2>2 DEF Ascending
    <2>3. CASE j = Len(s) + 1
        BY <1>1, <2>1, <2>3
    <2>4. QED
        BY <1>1, <2>2, <2>3
<1>4. ASSUME NEW i \in 1 .. Len(t)
      PROVE  Asked(t[i]) /\ t[i] <= k
    <2>1. CASE i \in 1 .. Len(s)
        BY <1>1, <1>2, <2>1
    <2>2. CASE i = Len(s) + 1
        BY <1>1, <1>2, <2>2
    <2>3. QED
        BY <1>1, <2>1, <2>2
<1>5. Ascending(t)
    BY <1>3 DEF Ascending
<1>6. QED
    BY <1>1, <1>4, <1>5 DEF t

-----------------------------------------------------------------------------
(* The inductive invariant.                                                *)

(* Where an iterator is that has not thrown: before its first frame, at    *)
(* the end, or on a key of its frame, which is the last one seen.          *)
Standing ==
    /\ frame \in Seq(Keys) /\ Ascending(frame)
    /\ \A i \in 1 .. Len(frame) : Asked(frame[i])
    /\ threw => pos = -1
    /\ pos = -1 /\ ~threw => /\ seen = << >> /\ ~eol
                             /\ first = ask.first /\ firstInc = ask.firstInc
    /\ pos # -1 /\ eol => frame = << >>
    /\ pos # -1 /\ ~eol => /\ pos \in 0 .. Len(frame) - 1 /\ Len(seen) >= 1
                           /\ \A i \in 1 .. Len(seen) : seen[i] <= frame[pos + 1]

(* Every key that has been stored all the time has been seen, is still to  *)
(* come in the frame, or lies beyond it.                                   *)
NoneSkipped ==
    pos # -1 /\ ~eol =>
        \A k \in stable : Asked(k) =>
            \/ k > frame[Len(frame)]
            \/ \E i \in 1 .. Len(seen) : seen[i] = k
            \/ \E i \in pos + 2 .. Len(frame) : frame[i] = k

IterInv == IteratorTypeOK /\ SeenAscend /\ StableKeysSeen /\ Standing /\ NoneSkipped

(* The members as the constructor finds them.                              *)
LEMMA IterInitInv == Init => IterInv
<1> SUFFICES ASSUME Init PROVE IterInv
    OBVIOUS
<1>1. frame = << >> /\ seen = << >> /\ Len(frame) = 0 /\ Len(seen) = 0
    BY DEF Init
<1>2. IteratorTypeOK
    <2>1. ask.first \in Keys /\ ask.firstInc \in BOOLEAN
        BY DEF Init, Asks
    <2>2. << >> \in Seq(Keys)
        OBVIOUS
    <2>3. stored \subseteq Keys /\ stable \subseteq stored /\ ask \in Asks
        BY DEF Init
    <2>4. /\ pos = -1 /\ pos \in Int /\ pos >= -1
          /\ eol \in BOOLEAN /\ threw \in BOOLEAN
        <3>1. pos = -1
            BY DEF Init
        <3>2. eol \in BOOLEAN /\ threw \in BOOLEAN
            BY DEF Init
        <3>3. QED
            BY <3>1, <3>2
    <2>5. first \in Keys /\ firstInc \in BOOLEAN
        BY <2>1 DEF Init
    <2>6. QED
        BY <1>1, <2>2, <2>3, <2>4, <2>5 DEF IteratorTypeOK
<1>3. SeenAscend /\ StableKeysSeen /\ NoneSkipped
    BY <1>1 DEF Init, SeenAscend, StableKeysSeen, NoneSkipped, Ascending
<1>4. Standing
    BY <1>1 DEF Init, Standing, Ascending
<1>5. QED
    BY <1>2, <1>3, <1>4 DEF IterInv

(* A frame fetched from a boundary that lies above what was seen, and      *)
(* below what was not.                                                     *)
LEMMA FetchKeeps ==
    ASSUME IterInv, NEW f \in Keys, NEW inc \in BOOLEAN, ~eol, ~threw, Fetch(f, inc),
           \A k \in Keys : AtLeast(k, f, inc) => AtLeast(k, ask.first, ask.firstInc),
           \A k \in Keys : AtLeast(k, f, inc) =>
                \A i \in 1 .. Len(seen) : seen[i] < k,
           \A k \in stable : Asked(k) =>
                AtLeast(k, f, inc) \/ \E i \in 1 .. Len(seen) : seen[i] = k
    PROVE  IterInv'
<1>1. /\ stored \subseteq Keys /\ stable \subseteq stored /\ ask \in Asks
      /\ frame \in Seq(Keys) /\ seen \in Seq(Keys) /\ Len(seen) \in Nat
      /\ Ascending(seen) /\ \A i \in 1 .. Len(seen) : Asked(seen[i])
      /\ UNCHANGED <<stored, ask, stable>>
    BY LenProperties DEF IterInv, IteratorTypeOK, SeenAscend, Fetch
<1>2. \A k \in InRange(f, inc) : k \in Keys /\ Asked(k)
    BY <1>1 DEF InRange, Asked
<1>3. ASSUME NEW s \in Frames(f, inc)
      PROVE  /\ s \in Seq(Keys) /\ Len(s) \in Nat /\ Ascending(s)
             /\ \A i \in 1 .. Len(s) : s[i] \in Keys /\ s[i] \in InRange(f, inc) /\ Asked(s[i])
             /\ \A k \in InRange(f, inc) :
                    s # << >> /\ (k > s[Len(s)] \/ \E i \in 1 .. Len(s) : s[i] = k)
             /\ s # << >> => Len(s) >= 1
    BY <1>1, <1>2, FrameFacts
<1>4. CASE pos' = -1
    <2>1. CASE threw' = TRUE
        <3>1. /\ frame' \in {frame} \cup Frames(f, inc) /\ eol' = eol /\ seen' = seen
              /\ first' = f /\ firstInc' = inc
            BY <1>4, <2>1 DEF Fetch
        <3>2. IteratorTypeOK'
            BY <1>1, <1>3, <1>4, <2>1, <3>1 DEF IterInv, IteratorTypeOK
        <3>3. SeenAscend' /\ StableKeysSeen' /\ NoneSkipped'
            BY <1>1, <1>4, <3>1
            DEF IterInv, SeenAscend, StableKeysSeen, NoneSkipped, Asked
        <3>4. Standing'
            <4>1. CASE frame' = frame
                BY <1>1, <1>4, <2>1, <4>1 DEF IterInv, Standing, Asked
            <4>2. CASE frame' \in Frames(f, inc)
                BY <1>1, <1>3, <1>4, <2>1, <4>2 DEF Standing, Asked
            <4>3. QED
                BY <3>1, <4>1, <4>2
        <3>5. QED
            BY <3>2, <3>3, <3>4 DEF IterInv
    <2>2. QED
        BY <1>4, <2>1 DEF Fetch
<1>5. CASE pos' # -1
    <2>1. /\ frame' \in Frames(f, inc) /\ pos' = 0 /\ eol' = (frame' = << >>)
          /\ seen' = IF frame' = << >> THEN seen ELSE Append(seen, frame'[1])
          /\ threw' = threw /\ first' = f /\ firstInc' = inc
        BY <1>5 DEF Fetch
    <2> DEFINE s == frame'
    <2>2. /\ s \in Seq(Keys) /\ Len(s) \in Nat /\ Ascending(s)
          /\ \A i \in 1 .. Len(s) : s[i] \in Keys /\ s[i] \in InRange(f, inc) /\ Asked(s[i])
          /\ \A k \in InRange(f, inc) :
                s # << >> /\ (k > s[Len(s)] \/ \E i \in 1 .. Len(s) : s[i] = k)
          /\ s # << >> => Len(s) >= 1
        BY <1>3, <2>1
    <2>3. \A k \in stable : Asked(k) =>
                k \in InRange(f, inc) \/ \E i \in 1 .. Len(seen) : seen[i] = k
        BY <1>1 DEF InRange, Asked
    <2>4. ~threw
        BY <2>1
    <2>5. CASE s = << >>
        <3>1. seen' = seen /\ eol'
            BY <2>1, <2>5
        <3>2. IteratorTypeOK'
            BY <1>1, <2>1, <2>2, <3>1 DEF IterInv, IteratorTypeOK
        <3>3. SeenAscend' /\ NoneSkipped'
            BY <1>1, <3>1 DEF SeenAscend, NoneSkipped, Asked
        <3>4. StableKeysSeen'
            BY <1>1, <2>2, <2>3, <2>5, <3>1 DEF StableKeysSeen, Asked
        <3>5. Standing'
            BY <1>1, <2>1, <2>2, <2>4, <2>5, <3>1 DEF Standing, Asked
        <3>6. QED
            BY <3>2, <3>3, <3>4, <3>5 DEF IterInv
    <2>6. CASE s # << >>
        <3>1. seen' = Append(seen, s[1]) /\ ~eol' /\ 1 \in 1 .. Len(s)
            <4>1. Len(s) >= 1 /\ Len(s) \in Nat
                BY <2>2, <2>6
            <4>2. ~eol'
                BY <2>1, <2>6, Zenon
            <4>3. seen' = Append(seen, s[1])
                BY <2>1, <2>6, Zenon
            <4>4. QED
                BY <4>1, <4>2, <4>3
        <3>2. \A i \in 1 .. Len(seen) : seen[i] < s[1]
            BY <2>2, <3>1 DEF InRange
        <3>3. /\ seen' \in Seq(Keys) /\ Ascending(seen') /\ Len(seen') = Len(seen) + 1
              /\ seen'[Len(seen) + 1] = s[1]
              /\ \A i \in 1 .. Len(seen') : Asked(seen'[i]) /\ seen'[i] <= s[1]
              /\ \A i \in 1 .. Len(seen) : seen'[i] = seen[i]
            BY <1>1, <2>2, <3>1, <3>2, SeenGrows
        <3>4. IteratorTypeOK'
            BY <1>1, <2>1, <2>2, <3>1, <3>3 DEF IterInv, IteratorTypeOK
        <3>5. SeenAscend' /\ StableKeysSeen'
            BY <1>1, <3>1, <3>3 DEF SeenAscend, StableKeysSeen, Asked
        <3>6. Standing'
            BY <1>1, <2>1, <2>2, <2>4, <3>1, <3>3 DEF Standing, Asked
        <3>7. NoneSkipped'
            <4>1. ASSUME NEW k \in stable, Asked(k)
                  PROVE  \/ k > s[Len(s)]
                         \/ \E i \in 1 .. Len(seen') : seen'[i] = k
                         \/ \E i \in 2 .. Len(s) : s[i] = k
                <5>1. CASE \E i \in 1 .. Len(seen) : seen[i] = k
                    BY <1>1, <3>3, <5>1
                <5>2. CASE \E i \in 1 .. Len(s) : s[i] = k
                    <6>1. PICK i \in 1 .. Len(s) : s[i] = k
                        BY <5>2
                    <6>2. CASE i = 1
                        <7>1. Len(seen) + 1 \in 1 .. Len(seen') /\ seen'[Len(seen) + 1] = k
                            BY <1>1, <3>3, <6>1, <6>2
                        <7>2. QED
                            BY <7>1
                    <6>3. CASE i # 1
                        <7>1. i \in 2 .. Len(s)
                            BY <2>2, <6>3
                        <7>2. QED
                            BY <6>1, <7>1
                    <6>4. QED
                        BY <6>2, <6>3
                <5>3. QED
                    BY <2>2, <2>3, <4>1, <5>1, <5>2
            <4>2. QED
                BY <1>1, <2>1, <4>1 DEF NoneSkipped, Asked
        <3>8. QED
            BY <3>4, <3>5, <3>6, <3>7 DEF IterInv
    <2>7. QED
        BY <2>5, <2>6
<1>6. QED
    BY <1>4, <1>5

(* The constructor fetches the first frame.                                *)
LEMMA ConstructKeeps ==
    ASSUME IterInv, Construct
    PROVE  IterInv'
<1>1. /\ Fetch(first, firstInc) /\ ~threw /\ ~eol /\ seen = << >> /\ Len(seen) = 0
      /\ first = ask.first /\ firstInc = ask.firstInc
      /\ first \in Keys /\ firstInc \in BOOLEAN
    BY DEF IterInv, Standing, IteratorTypeOK, Construct, NextFrame
<1>2. \A k \in stable : Asked(k) => AtLeast(k, first, firstInc)
    BY <1>1 DEF Asked
<1>3. QED
    BY <1>1, <1>2, FetchKeeps

(* operator++ at the end of a frame, and within one.                       *)
LEMMA AdvanceKeeps ==
    ASSUME IterInv, Advance
    PROVE  IterInv'
<1>1. /\ stored \subseteq Keys /\ stable \subseteq stored /\ ask \in Asks
      /\ frame \in Seq(Keys) /\ seen \in Seq(Keys)
      /\ Len(seen) \in Nat /\ Len(frame) \in Nat
      /\ Ascending(seen) /\ \A i \in 1 .. Len(seen) : Asked(seen[i])
      /\ Ascending(frame) /\ \A i \in 1 .. Len(frame) : Asked(frame[i])
      /\ pos \in Int /\ pos >= -1 /\ pos # -1 /\ ~threw
    BY LenProperties DEF IterInv, IteratorTypeOK, SeenAscend, Standing, Advance
<1>2. /\ \A i \in 1 .. Len(frame) : frame[i] \in Keys /\ frame[i] \in Int
      /\ \A i \in 1 .. Len(seen) : seen[i] \in Int
      /\ \A k \in stable : k \in Int
    BY <1>1, IteratorConstantsOK, ElementOfSeq
<1>3. CASE pos + 1 = Len(frame)
    <2> DEFINE f == frame[Len(frame)]
    <2>1. Len(frame) \in 1 .. Len(frame) /\ ~eol
        <3>1. Len(frame) >= 1
            BY <1>1, <1>3
        <3>2. frame # << >>
            BY <3>1
        <3>3. QED
            BY <1>1, <3>1, <3>2 DEF IterInv, Standing
    <2>2. f \in Keys /\ f \in Int /\ Asked(f) /\ FALSE \in BOOLEAN
        BY <1>1, <1>2, <2>1
    <2>3. Fetch(f, FALSE)
        BY <1>1, <1>3 DEF Advance, NextFrame
    <2>4. \A i \in 1 .. Len(seen) : seen[i] <= f
        BY <1>1, <1>3, <2>1 DEF IterInv, Standing
    <2>5. ask.first \in Int
        BY <1>1, IteratorConstantsOK DEF Asks
    <2> HIDE DEF f
    <2>6. \A k \in Keys : AtLeast(k, f, FALSE) =>
            /\ AtLeast(k, ask.first, ask.firstInc)
            /\ \A i \in 1 .. Len(seen) : seen[i] < k
        <3>1. ASSUME NEW k \in Keys, AtLeast(k, f, FALSE)
              PROVE  /\ AtLeast(k, ask.first, ask.firstInc)
                     /\ \A i \in 1 .. Len(seen) : seen[i] < k
            <4>1. k \in Int /\ f < k
                BY <3>1, IteratorConstantsOK DEF AtLeast
            <4>2. \A i \in 1 .. Len(seen) : seen[i] < k
                BY <1>2, <2>2, <2>4, <4>1
            <4>3. ask.first < k
                BY <2>2, <2>5, <4>1 DEF Asked, AtLeast
            <4>4. QED
                BY <4>2, <4>3 DEF AtLeast
        <3>2. QED
            BY <3>1
    <2>7. ASSUME NEW k \in stable, Asked(k)
          PROVE  AtLeast(k, f, FALSE) \/ \E i \in 1 .. Len(seen) : seen[i] = k
        <3>1. \/ k > frame[Len(frame)]
              \/ \E i \in 1 .. Len(seen) : seen[i] = k
              \/ \E i \in pos + 2 .. Len(frame) : frame[i] = k
            BY <1>1, <2>1, <2>7 DEF IterInv, NoneSkipped
        <3>2. pos + 2 .. Len(frame) = {}
            BY <1>1, <1>3
        <3>3. k > frame[Len(frame)] => f < k
            BY <1>2, <2>2 DEF f
        <3>4. QED
            BY <3>1, <3>2, <3>3 DEF AtLeast
    <2>8. QED
        BY <1>1, <2>1, <2>2, <2>3, <2>6, <2>7, FetchKeeps
<1>4. CASE pos + 1 # Len(frame)
    <2>1. /\ pos' = pos + 1
          /\ seen' = IF eol THEN seen ELSE Append(seen, frame[pos + 2])
          /\ UNCHANGED <<stored, ask, first, firstInc, frame, eol, threw, stable>>
        BY <1>4 DEF Advance
    <2>2. CASE eol
        <3>1. seen' = seen /\ frame = << >> /\ pos' # -1
            BY <1>1, <2>1, <2>2 DEF IterInv, Standing
        <3>2. IteratorTypeOK' /\ SeenAscend' /\ StableKeysSeen' /\ NoneSkipped'
            BY <1>1, <2>1, <2>2, <3>1
            DEF IterInv, IteratorTypeOK, SeenAscend, StableKeysSeen, NoneSkipped, Asked
        <3>3. Standing'
            BY <1>1, <2>1, <2>2, <3>1 DEF Standing, Asked
        <3>4. QED
            BY <3>2, <3>3 DEF IterInv
    <2>3. CASE ~eol
        <3> DEFINE k == frame[pos + 2]
        <3>1. /\ pos \in 0 .. Len(frame) - 1 /\ Len(seen) >= 1
              /\ \A i \in 1 .. Len(seen) : seen[i] <= frame[pos + 1]
            BY <1>1, <2>3 DEF IterInv, Standing
        <3>2. pos + 2 \in 1 .. Len(frame) /\ pos + 1 \in 1 .. Len(frame)
            BY <1>1, <1>4, <3>1
        <3>3. k \in Keys /\ Asked(k) /\ frame[pos + 1] < k
            BY <1>1, <1>2, <3>2 DEF Ascending
        <3>4. \A i \in 1 .. Len(seen) : seen[i] < k
            BY <1>2, <3>1, <3>2, <3>3
        <3> HIDE DEF k
        <3>5. /\ Append(seen, k) \in Seq(Keys) /\ Ascending(Append(seen, k))
              /\ Len(Append(seen, k)) = Len(seen) + 1
              /\ Append(seen, k)[Len(seen) + 1] = k
              /\ \A i \in 1 .. Len(Append(seen, k)) :
                    Asked(Append(seen, k)[i]) /\ Append(seen, k)[i] <= k
              /\ \A i \in 1 .. Len(seen) : Append(seen, k)[i] = seen[i]
            BY <1>1, <3>3, <3>4, SeenGrows
        <3>6. seen' = Append(seen, k)
            BY <2>1, <2>3 DEF k
        <3>7. IteratorTypeOK'
            BY <1>1, <2>1, <2>3, <3>1, <3>2, <3>5, <3>6 DEF IterInv, IteratorTypeOK
        <3>8. SeenAscend' /\ StableKeysSeen'
            BY <1>1, <2>1, <2>3, <3>5, <3>6 DEF SeenAscend, StableKeysSeen, Asked
        <3>9. Standing'
            <4>1. pos' \in 0 .. Len(frame) - 1 /\ pos' # -1 /\ frame[pos' + 1] = k
                BY <1>1, <2>1, <3>1, <3>2 DEF k
            <4>2. QED
                BY <1>1, <2>1, <2>3, <3>5, <3>6, <4>1 DEF Standing, Asked
        <3>10. NoneSkipped'
            <4>1. ASSUME NEW l \in stable, Asked(l)
                  PROVE  \/ l > frame[Len(frame)]
                         \/ \E i \in 1 .. Len(seen') : seen'[i] = l
                         \/ \E i \in pos' + 2 .. Len(frame) : frame[i] = l
                <5>1. CASE \E i \in 1 .. Len(seen) : seen[i] = l
                    BY <1>1, <3>5, <3>6, <5>1
                <5>2. CASE l = k
                    <6>1. Len(seen) + 1 \in 1 .. Len(seen') /\ seen'[Len(seen) + 1] = l
                        BY <1>1, <3>5, <3>6, <5>2
                    <6>2. QED
                        BY <6>1
                <5>3. CASE l # k /\ \E i \in pos + 2 .. Len(frame) : frame[i] = l
                    <6>1. PICK i \in pos + 2 .. Len(frame) : frame[i] = l
                        BY <5>3
                    <6>2. i # pos + 2
                        BY <5>3, <6>1 DEF k
                    <6>3. i \in pos' + 2 .. Len(frame)
                        BY <1>1, <2>1, <6>2
                    <6>4. QED
                        BY <6>1, <6>3
                <5>4. QED
                    BY <1>1, <2>3, <4>1, <5>1, <5>2, <5>3 DEF IterInv, NoneSkipped
            <4>2. QED
                BY <1>1, <2>1, <4>1 DEF NoneSkipped, Asked
        <3>11. QED
            BY <3>7, <3>8, <3>9, <3>10 DEF IterInv
    <2>4. QED
        BY <2>2, <2>3
<1>5. QED
    BY <1>3, <1>4

(* Other clients change what is stored; a stable key only stops being one. *)
LEMMA OthersKeep ==
    ASSUME IterInv, NEW k \in Keys, OthersPut(k) \/ OthersDelete(k)
    PROVE  IterInv'
<1>1. /\ UNCHANGED <<ask, first, firstInc, frame, pos, eol, threw, seen>>
      /\ stored' \subseteq Keys /\ stable' \subseteq stored' /\ stable' \subseteq stable
    BY DEF IterInv, IteratorTypeOK, OthersPut, OthersDelete
<1>2. IteratorTypeOK' /\ SeenAscend' /\ Standing'
    BY <1>1 DEF IterInv, IteratorTypeOK, SeenAscend, Standing, Asked
<1>3. StableKeysSeen' /\ NoneSkipped'
    BY <1>1 DEF IterInv, StableKeysSeen, NoneSkipped, Asked
<1>4. QED
    BY <1>2, <1>3 DEF IterInv

(* Every step preserves IterInv.                                           *)
LEMMA IterNextInv == IterInv /\ [Next]_vars => IterInv'
<1> SUFFICES ASSUME IterInv, [Next]_vars PROVE IterInv'
    OBVIOUS
<1>1. CASE UNCHANGED vars
    BY <1>1 DEF vars, IterInv, IteratorTypeOK, SeenAscend, StableKeysSeen,
                Standing, NoneSkipped, Asked
<1>2. QED
    BY <1>1, ConstructKeeps, AdvanceKeeps, OthersKeep DEF Next

-----------------------------------------------------------------------------
(* The invariant holds in every reachable state of an iteration.           *)
THEOREM IteratorInvariance == Spec => []IterInv
BY IterInitInv, IterNextInv, PTL DEF Spec

(* Reading an iterator never reads outside its frame.                      *)
THEOREM IteratorTypeCorrect == Spec => []IteratorTypeOK
<1>1. IterInv => IteratorTypeOK
    BY DEF IterInv
<1>2. QED
    BY <1>1, IteratorInvariance, PTL

(* The iterator stands on keys of the range only, each once, in order.     *)
THEOREM KeysInOrder == Spec => []SeenAscend
<1>1. IterInv => SeenAscend
    BY DEF IterInv
<1>2. QED
    BY <1>1, IteratorInvariance, PTL

(* At KeyRangeEnd() every key that was stored all the time has been seen.  *)
THEOREM NoStableKeySkipped == Spec => []StableKeysSeen
<1>1. IterInv => StableKeysSeen
    BY DEF IterInv
<1>2. QED
    BY <1>1, IteratorInvariance, PTL
=============================================================================
