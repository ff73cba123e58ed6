----------------------------- MODULE AtomicStore -----------------------------
(***************************************************************************)
(* What the client's interface promises to applications that share a       *)
(* drive: every call takes effect once, at one moment after it was made,   *)
(* by what its arguments say and the cluster version its connection had    *)
(* been given when it was made.  Its callback is told what happened then,  *)
(* or a client's error, which leaves open whether the call took effect and *)
(* whether it still will.  A crash loses what was not made persistent.     *)
(***************************************************************************)
EXTENDS KineticApi

VARIABLES
    drive,  \* the drive
    asked,  \* the calls made, with the cluster version of their connection
    done,   \* what came of the calls that have taken effect
    told    \* what their callbacks were told

avars == <<drive, asked, done, told>>

NotYet == [status |-> "notYet"]

-----------------------------------------------------------------------------
(* The state a call leaves and what there is to tell, call by call.        *)
Agrees(entry, mode, version) == mode = "IGNORE_VERSION" \/ entry.version = version

MadePersistent(d, k, mode) ==
    CASE mode = "WRITE_THROUGH" -> Persist(d, {k})
      [] mode = "FLUSH"         -> Persist(d, Keys)
      [] OTHER                  -> d

AfterPut(d, t, c) ==
    IF Agrees(d.store[c.key], c.mode, c.current)
    THEN <<MadePersistent(Store(d, c.key, IF c.version = Null THEN Empty ELSE c.version, t),
                          c.key, c.persist), Told>>
    ELSE <<d, Failure("REMOTE_VERSION_MISMATCH", 0)>>

AfterDelete(d, c) ==
    IF ~ Has(d.store, c.key) /\ c.mode = "REQUIRE_SAME_VERSION"
    THEN <<d, Failure("REMOTE_NOT_FOUND", 0)>>
    ELSE IF Agrees(d.store[c.key], c.mode, c.current)
         THEN <<MadePersistent(Drop(d, c.key), c.key, c.persist), Told>>
         ELSE <<d, Failure("REMOTE_VERSION_MISMATCH", 0)>>

(* The keys a read may return the record of; at most one.                  *)
Found(d, c) ==
    CASE c.op \in {"Get", "GetVersion"} -> {k \in {c.key} : Has(d.store, k)}
      [] c.op = "GetNext"     -> NextKeys(d, c.key)
      [] c.op = "GetPrevious" -> PreviousKeys(d, c.key)

AfterGet(d, c) ==
    IF Found(d, c) = {} THEN <<d, Failure("REMOTE_NOT_FOUND", 0)>>
    ELSE LET k == CHOOSE k \in Found(d, c) : TRUE
             version == [Told EXCEPT !.version = d.store[k].version]
         IN <<d, IF c.op = "GetVersion" THEN version
                 ELSE [version EXCEPT !.key = k, !.value = d.store[k].value]>>

AfterRange(d, c) ==
    LET ks == {k \in Keys : Has(d.store, k) /\ Within(k, c.start, c.startInc, c.end, c.endInc)}
    IN <<d, CASE c.op = "GetKeyRange" -> [Told EXCEPT !.keys = FirstOf(ks, c.reverse, c.max)]
              [] c.op = "MediaScan"   -> [Told EXCEPT !.keys = FirstOf(ks, FALSE, c.max), !.last = c.end]
              [] OTHER                -> [Told EXCEPT !.last = c.end]>>

AfterPinOperation(d, c) ==
    LET pin == IF c.pin = Null THEN Empty ELSE c.pin
        mine == IF c.op \in {"LockDevice", "UnlockDevice"} THEN d.lockPin ELSE d.erasePin
    IN IF pin # mine THEN <<d, Failure("REMOTE_NOT_AUTHORIZED", 0)>>
       ELSE <<CASE c.op = "LockDevice"   -> [d EXCEPT !.locked = TRUE]
                [] c.op = "UnlockDevice" -> [d EXCEPT !.locked = FALSE]
                [] OTHER                 -> Erase(d), Told>>

AfterSetPin(d, c) ==
    LET old == IF c.op = "SetLockPIN" THEN d.lockPin ELSE d.erasePin
        now == IF c.new = Null THEN old ELSE c.new
    IN IF c.new # Null /\ (IF c.current = Null THEN Empty ELSE c.current) # old
       THEN <<d, Failure("REMOTE_NOT_AUTHORIZED", 0)>>
       ELSE <<IF c.op = "SetLockPIN" THEN [d EXCEPT !.lockPin = now]
                                     ELSE [d EXCEPT !.erasePin = now], Told>>

(* A push without a new key keeps the key.                                 *)
AfterPush(d, c) ==
    LET pushes == [i \in DOMAIN c.operations |->
            LET o == c.operations[i]
            IN [from |-> o.key, to |-> IF o.newKey = NoKey THEN o.key ELSE o.newKey,
                force |-> o.force, version |-> o.version]]
        r == PushAll(d, pushes)
    IN <<[d EXCEPT !.peer = r.peer],
         IF \E i \in DOMAIN r.came : r.came[i] \in {"missing", "mismatch"}
         THEN Failure("REMOTE_NESTED_OPERATION_ERRORS", 0)
         ELSE [Told EXCEPT !.statuses = [i \in DOMAIN r.came |-> "OK"]]>>

After(d, t, c) ==
    CASE c.op = "Put"    -> AfterPut(d, t, c)
      [] c.op = "Delete" -> AfterDelete(d, c)
      [] c.op \in {"Get", "GetVersion", "GetNext", "GetPrevious"} -> AfterGet(d, c)
      [] c.op \in {"GetKeyRange", "MediaScan", "MediaOptimize"}   -> AfterRange(d, c)
      [] c.op \in {"InstantErase", "SecureErase", "LockDevice", "UnlockDevice"}
                         -> AfterPinOperation(d, c)
      [] c.op \in {"SetLockPIN", "SetErasePIN"} -> AfterSetPin(d, c)
      [] c.op = "SetACLs"           -> <<[d EXCEPT !.acls = Grants(c.acls)], Told>>
      [] c.op = "SetClusterVersion" -> <<[d EXCEPT !.cluster = c.new], Told>>
      [] c.op = "UpdateFirmware"    -> <<[d EXCEPT !.firmware = t], Told>>
      [] c.op = "Flush"             -> <<Persist(d, Keys), Told>>
      [] c.op = "GetLog" ->
           <<d, [Told EXCEPT !.sections = IF c.types = {Default} THEN Sections ELSE c.types]>>
      [] c.op = "P2PPush" -> AfterPush(d, c)
      [] c.op = "NoOp"    -> <<d, Told>>

(* Nothing happens under another cluster version than the drive's, nor on  *)
(* a locked drive.                                                         *)
Outcome(d, t, a) ==
    IF a.cluster # d.cluster
    THEN <<d, Failure("REMOTE_CLUSTER_VERSION_MISMATCH", d.cluster)>>
    ELSE IF d.locked /\ a.call.op # "UnlockDevice"
         THEN <<d, Failure("REMOTE_OTHER_ERROR", 0)>>
         ELSE After(d, t, a.call)

-----------------------------------------------------------------------------
Init ==
    /\ drive = NewDrive
    /\ asked = [t \in Tickets |-> NotYet]
    /\ done  = [t \in Tickets |-> NotYet]
    /\ told  = [t \in Tickets |-> NotYet]

Ask(t) ==
    /\ asked[t] = NotYet /\ told[t] = NotYet
    /\ \E call \in Calls, cluster \in ClusterVersions :
          asked' = [asked EXCEPT ![t] = [call |-> call, cluster |-> cluster]]
    /\ UNCHANGED <<drive, done, told>>

(* A connection that has failed takes no calls.                            *)
TurnDown(t) ==
    /\ asked[t] = NotYet /\ told[t] = NotYet
    /\ told' = [told EXCEPT ![t] = Failure("CLIENT_SHUTDOWN", 0)]
    /\ UNCHANGED <<drive, asked, done>>

TakeEffect(t) ==
    /\ asked[t] # NotYet /\ done[t] = NotYet
    /\ LET o == Outcome(drive, t, asked[t])
       IN drive' = o[1] /\ done' = [done EXCEPT ![t] = o[2]]
    /\ UNCHANGED <<asked, told>>

Refuse(t) ==
    /\ asked[t] # NotYet /\ done[t] = NotYet
    /\ \E status \in Refusals : done' = [done EXCEPT ![t] = Failure(status, 0)]
    /\ UNCHANGED <<drive, asked, told>>

Tell(t) ==
    /\ done[t] # NotYet /\ told[t] = NotYet
    /\ told' = [told EXCEPT ![t] = done[t]]
    /\ UNCHANGED <<drive, asked, done>>

GiveUp ==
    /\ \E error \in ClientErrors, ts \in SUBSET Tickets :
          /\ \A t \in ts : asked[t] # NotYet /\ told[t] = NotYet
          /\ told' = [t \in Tickets |-> IF t \in ts THEN Failure(error, 0) ELSE told[t]]
    /\ UNCHANGED <<drive, asked, done>>

MakePersistent ==
    /\ \E ks \in SUBSET Keys : drive' = Persist(drive, ks)
    /\ UNCHANGED <<asked, done, told>>

Crash ==
    /\ drive' = [drive EXCEPT !.store = drive.durable]
    /\ UNCHANGED <<asked, done, told>>

Next == \/ \E t \in Tickets : Ask(t) \/ TurnDown(t) \/ TakeEffect(t) \/ Refuse(t) \/ Tell(t)
        \/ GiveUp \/ MakePersistent \/ Crash

Spec == Init /\ [][Next]_avars
=============================================================================
