-------------------------- MODULE KeyRangeIterator --------------------------
(***************************************************************************)
(* kinetic::KeyRangeIterator (src/main/key_range_iterator.cc): a forward   *)
(* iterator over the keys of a range, which it fetches from the drive in   *)
(* frames, while other clients put and delete keys.  The application       *)
(* constructs it, increments it until it equals KeyRangeEnd(), and may     *)
(* increment it further.                                                   *)
(***************************************************************************)
EXTENDS Integers, Sequences

CONSTANTS
    Keys,        \* the keys a drive may store, as numbers in their order
    FrameSizes,  \* the frame sizes an application may ask for
    MaxPast      \* bound: how far past the end the iterator is incremented

ASSUME IteratorConstantsOK ==
    /\ Keys \subseteq Int
    /\ FrameSizes \subseteq Nat \ {0}
    /\ MaxPast \in Nat

VARIABLES
    stored,    \* external: the keys on the drive
    ask,       \* first, last, whether each is included, framesz_: the
               \* constructor's arguments, of which the first two will move
    first,     \* first_
    firstInc,  \* first_inc_
    frame,     \* *keys_
    pos,       \* relpos_
    eol,       \* eol_
    threw,     \* ghost: GetKeyRange has failed
    seen,      \* ghost: the keys the iterator has stood on
    stable     \* ghost: the keys stored since the construction began

vars == <<stored, ask, first, firstInc, frame, pos, eol, threw, seen, stable>>

Asks == [first : Keys, firstInc : BOOLEAN, last : Keys, lastInc : BOOLEAN,
         size : FrameSizes]

AtLeast(k, f, inc) == f < k \/ (inc /\ f = k)
AtMost(k, l, inc)  == k < l \/ (inc /\ l = k)

Asked(k) == AtLeast(k, ask.first, ask.firstInc) /\ AtMost(k, ask.last, ask.lastInc)

Ascending(s) == \A i, j \in 1 .. Len(s) : i < j => s[i] < s[j]

(* What a drive may answer to GetKeyRange: the lowest keys of the range,   *)
(* in order, at most as many as asked for, but some if there are any.      *)
InRange(f, inc) == {k \in stored : AtLeast(k, f, inc)
                                   /\ AtMost(k, ask.last, ask.lastInc)}

Frames(f, inc) ==
    {s \in UNION {[1 .. n -> Keys] : n \in 0 .. ask.size} :
        /\ Ascending(s)
        /\ \A i \in 1 .. Len(s) : s[i] \in InRange(f, inc)
        /\ \A k \in InRange(f, inc) :
            s # << >> /\ (k > s[Len(s)] \/ \E i \in 1 .. Len(s) : s[i] = k)}

-----------------------------------------------------------------------------
(* The members before the constructor calls next_frame.                    *)
Init ==
    /\ stored \in SUBSET Keys
    /\ ask \in Asks
    /\ first = ask.first
    /\ firstInc = ask.firstInc
    /\ frame = << >>
    /\ pos = -1
    /\ eol = FALSE
    /\ threw = FALSE
    /\ seen = << >>
    /\ stable = stored

\* Seeded fault: a frame that is not full ends the iteration.
FetchShortEnds(f, inc) ==
    /\ first' = f /\ firstInc' = inc
    /\ frame' \in Frames(f, inc)
    /\ pos' = 0
    /\ eol' = (eol \/ Len(frame') < ask.size)
    /\ seen' = IF frame' = << >> THEN seen ELSE Append(seen, frame'[1])
    /\ UNCHANGED <<threw, stored, ask, stable>>

(* GetKeyRange from a boundary on succeeds, or fails, perhaps after its    *)
(* callback has replaced the frame: then first_ has moved, and next_frame  *)
(* throws.                                                                 *)
Fetch(f, inc) ==
    /\ first' = f /\ firstInc' = inc
    /\ \/ /\ frame' \in Frames(f, inc)
          /\ pos' = 0
          /\ eol' = (eol \/ frame' = << >>)
          /\ seen' = IF frame' = << >> THEN seen ELSE Append(seen, frame'[1])
          /\ UNCHANGED threw
       \/ /\ pos' = -1
          /\ threw' = TRUE
          /\ frame' \in {frame} \cup Frames(f, inc)
          /\ UNCHANGED <<eol, seen>>
    /\ UNCHANGED <<stored, ask, stable>>

\* Seeded faults: the boundary stays included; the frame is used again.
NextFrameIncluding ==
    IF pos # -1 THEN Fetch(frame[Len(frame)], firstInc)
                ELSE Fetch(first, firstInc)

NextFrameSame ==
    IF pos # -1 THEN pos' = 0 /\ UNCHANGED <<stored, ask, first, firstInc, frame,
                                             eol, threw, seen, stable>>
                ELSE Fetch(first, firstInc)

NextFrame ==
    IF pos # -1 THEN Fetch(frame[Len(frame)], FALSE)
                ELSE Fetch(first, firstInc)

Construct == pos = -1 /\ ~threw /\ NextFrame

\* Seeded fault: the end of the frame is noticed one increment late.
AdvanceLate ==
    /\ pos # -1 /\ (eol => pos < MaxPast)
    /\ IF ~eol /\ pos = Len(frame)
         THEN NextFrame
         ELSE /\ pos' = pos + 1
              /\ seen' = IF pos + 1 < Len(frame) THEN Append(seen, frame[pos + 2]) ELSE seen
              /\ UNCHANGED <<stored, ask, first, firstInc, frame, eol, threw, stable>>

(* operator++.  At the end the frame is empty, and nothing is fetched.     *)
Advance ==
    /\ pos # -1 /\ (eol => pos < MaxPast)
    /\ IF pos + 1 = Len(frame)
         THEN NextFrame
         ELSE /\ pos' = pos + 1
              /\ seen' = IF eol THEN seen ELSE Append(seen, frame[pos + 2])
              /\ UNCHANGED <<stored, ask, first, firstInc, frame, eol, threw, stable>>

(* Other clients of the drive.                                             *)
OthersPut(k) ==
    /\ stored' = stored \cup {k}
    /\ UNCHANGED <<ask, first, firstInc, frame, pos, eol, threw, seen, stable>>

OthersDelete(k) ==
    /\ stored' = stored \ {k}
    /\ stable' = stable \ {k}
    /\ UNCHANGED <<ask, first, firstInc, frame, pos, eol, threw, seen>>

Next ==
    \/ Construct
    \/ Advance
    \/ \E k \in Keys : OthersPut(k) \/ OthersDelete(k)

(* The application goes on; each GetKeyRange returns.                      *)
Fairness == WF_vars(Construct) /\ WF_vars(Advance)

Spec == Init /\ [][Next]_vars
FairSpec == Spec /\ Fairness

-----------------------------------------------------------------------------
(* Properties.                                                             *)

\* Every variable has its type; an iterator that is neither broken nor at the
\* end stands on a key of its frame, which * and -> read without a check.
IteratorTypeOK ==
    /\ stored \subseteq Keys /\ stable \subseteq stored
    /\ ask \in Asks
    /\ first \in Keys /\ firstInc \in BOOLEAN
    /\ frame \in Seq(Keys) /\ seen \in Seq(Keys)
    /\ pos \in Int /\ pos >= -1 /\ eol \in BOOLEAN /\ threw \in BOOLEAN
    /\ pos # -1 /\ ~eol => pos < Len(frame)

\* The iterator stands on keys of the range only, in ascending order, and on
\* none twice, whatever other clients put and delete between two frames.
SeenAscend ==
    /\ Ascending(seen)
    /\ \A i \in 1 .. Len(seen) : Asked(seen[i])

\* When the iterator equals KeyRangeEnd(), it has stood on every key of the range
\* that was stored all the time.
StableKeysSeen ==
    eol => \A k \in stable : Asked(k) => \E i \in 1 .. Len(seen) : seen[i] = k

\* An iteration ends, or throws, even if other clients go on putting keys.
IterationEnds == <>(eol \/ threw)
=============================================================================
