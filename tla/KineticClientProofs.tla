------------------------- MODULE KineticClientProofs -------------------------
(* Theorems about KineticClient, for any keys, connections, workloads and   *)
(* numbers of calls and faults.                                             *)
EXTENDS KineticClient, SequenceTheorems, FiniteSetTheorems, WellFoundedInduction, TLAPS

-----------------------------------------------------------------------------
(* The drive.  Only the revisions matter: they grow, and what is durable is *)
(* never newer than what is stored.                                         *)
Field == {"store", "durable", "peer", "cluster", "lockPin", "erasePin", "locked",
          "acls", "firmware"}

Revisions(s) == DOMAIN s = Keys /\ \A k \in Keys : s[k].rev \in Nat

Sound(d) ==
    /\ DOMAIN d = Field
    /\ Revisions(d.store) /\ Revisions(d.durable)
    /\ \A k \in Keys : d.durable[k].rev <= d.store[k].rev

(* A command leaves a drive e after d: nothing durable gets older.          *)
Follows(d, e) ==
    Sound(e) /\ \A k \in Keys : d.durable[k].rev <= e.durable[k].rev

LEMMA NewDriveSound == Sound(NewDrive)
BY DEF Sound, Revisions, Field, NewDrive, NoEntries, Nothing

(* What does not touch the records.                                         *)
LEMMA SameRecords ==
    ASSUME NEW d, Sound(d), NEW f \in Field \ {"store", "durable"}, NEW v
    PROVE  Follows(d, [d EXCEPT ![f] = v])
BY DEF Field, Sound, Revisions, Follows

LEMMA StoreFollows ==
    ASSUME NEW d, Sound(d), NEW k, NEW version, NEW value
    PROVE  Follows(d, Store(d, k, version, value))
BY DEF Field, Sound, Revisions, Follows, Store

LEMMA DropFollows ==
    ASSUME NEW d, Sound(d), NEW k
    PROVE  Follows(d, Drop(d, k))
BY DEF Field, Sound, Revisions, Follows, Drop, Nothing

LEMMA EraseFollows ==
    ASSUME NEW d, Sound(d)
    PROVE  Follows(d, Erase(d))
BY DEF Field, Sound, Revisions, Follows, Erase, Nothing

(* Persist also brings its keys up to date.                                 *)
LEMMA PersistFollows ==
    ASSUME NEW d, Sound(d), NEW ks
    PROVE  /\ Follows(d, Persist(d, ks))
           /\ \A k \in ks \cap Keys :
                 Persist(d, ks).durable[k].rev = Persist(d, ks).store[k].rev
BY DEF Field, Sound, Revisions, Follows, Persist

LEMMA FollowsTransitive ==
    ASSUME NEW d, NEW e, NEW f, Sound(d), Follows(d, e), Follows(e, f)
    PROVE  Follows(d, f)
BY DEF Follows, Sound, Revisions

LEMMA SynchronizedFollows ==
    ASSUME NEW d, Sound(d), NEW m
    PROVE  /\ Follows(d, Synchronized(d, m))
           /\ \A k \in Keys :
                 \/ m.synchronization = "FLUSH"
                 \/ m.synchronization = "WRITETHROUGH" /\ k = m.key
                 => Synchronized(d, m).durable[k].rev = Synchronized(d, m).store[k].rev
<1>1. Follows(d, d)
    BY DEF Follows, Sound, Revisions
<1>2. QED
    BY <1>1, PersistFollows DEF Synchronized

-----------------------------------------------------------------------------
(* The commands.  What the drive reads of a command to decide about its     *)
(* persistence is what the call said.                                       *)
Operations == {"NoOp", "Flush", "Get", "GetNext", "GetPrevious", "GetVersion", "Put",
               "Delete", "GetKeyRange", "MediaScan", "MediaOptimize", "InstantErase",
               "SecureErase", "LockDevice", "UnlockDevice", "SetLockPIN", "SetErasePIN",
               "SetACLs", "SetClusterVersion", "UpdateFirmware", "GetLog", "P2PPush"}

ReadTypes  == {"GET", "GETNEXT", "GETPREVIOUS", "GETVERSION"}
RangeTypes == {"GETKEYRANGE", "MEDIASCAN", "MEDIAOPTIMIZE"}
MessageTypes == ReadTypes \cup RangeTypes
                \cup {"PUT", "DELETE", "PINOP", "SECURITY", "SETUP", "FLUSHALLDATA",
                      "GETLOG", "PEER2PEERPUSH", "NOOP"}

Writing(c) == c.op \in {"Put", "Delete"}

(* Whether a call's persist mode, and the synchronization of its command,   *)
(* promise that a key is durable.                                           *)
Promises(c, k) ==
    \/ c.op = "Flush"
    \/ Writing(c) /\ c.persist = "FLUSH"
    \/ Writing(c) /\ c.persist = "WRITE_THROUGH" /\ c.key = k

Carries(m, k) ==
    \/ m.messagetype = "FLUSHALLDATA"
    \/ m.messagetype \in {"PUT", "DELETE"} /\ m.synchronization = "FLUSH"
    \/ m.messagetype \in {"PUT", "DELETE"} /\ m.synchronization = "WRITETHROUGH" /\ m.key = k

LEMMA CallsOfInterface ==
    ASSUME NEW c \in Interface
    PROVE  /\ c.op \in Operations
           /\ Writing(c) => c.persist \in PersistModes \cup {Default}
BY DEF Interface, Operations, Writing

LEMMA PersistenceOfWrites ==
    ASSUME NEW c, c.persist \in PersistModes \cup {Default}
    PROVE  /\ c.persist = "FLUSH" =>
                 GetSynchronizationForPersistMode(Persistence(c)) = "FLUSH"
           /\ c.persist = "WRITE_THROUGH" =>
                 GetSynchronizationForPersistMode(Persistence(c)) = "WRITETHROUGH"
BY DEF Persistence, GetSynchronizationForPersistMode, PersistModes, Default

LEMMA NewCommandFields ==
    ASSUME NEW v, NEW type
    PROVE  LET new == NewCommand(v, type)
           IN /\ new.messagetype = type
              /\ {"messagetype", "synchronization", "key"} \subseteq DOMAIN new
BY DEF NewCommand, Unset

LEMMA PutCommandFields ==
    ASSUME NEW v, NEW t, NEW c
    PROVE  LET m == PutCommand(NewCommand(v, "PUT"), t, c)
           IN /\ m.messagetype = "PUT" /\ m.key = c.key
              /\ m.synchronization = GetSynchronizationForPersistMode(Persistence(c))
BY NewCommandFields DEF PutCommand

LEMMA DeleteCommandFields ==
    ASSUME NEW v, NEW c
    PROVE  LET m == DeleteCommand(NewCommand(v, "DELETE"), c)
           IN /\ m.messagetype = "DELETE" /\ m.key = c.key
              /\ m.synchronization = GetSynchronizationForPersistMode(Persistence(c))
BY NewCommandFields DEF DeleteCommand

LEMMA ArgumentsKeepType ==
    ASSUME NEW n, "messagetype" \in DOMAIN n, NEW c, NEW type
    PROVE  /\ KeyRangeCommand(n, c).messagetype = n.messagetype
           /\ MediaScanCommand(n, c).messagetype = n.messagetype
           /\ MediaOptimizeCommand(n, c).messagetype = n.messagetype
           /\ PinCommand(n, c, type).messagetype = n.messagetype
           /\ SetLockPinCommand(n, c).messagetype = n.messagetype
           /\ SetErasePinCommand(n, c).messagetype = n.messagetype
           /\ AclCommand(n, c).messagetype = n.messagetype
           /\ GetLogCommand(n, c).messagetype = n.messagetype
<1>1. KeyRangeCommand(n, c).messagetype = n.messagetype
    BY DEF KeyRangeCommand, RangeCommand
<1>2. MediaScanCommand(n, c).messagetype = n.messagetype
    BY DEF MediaScanCommand, RangeCommand
<1>3. MediaOptimizeCommand(n, c).messagetype = n.messagetype
    BY DEF MediaOptimizeCommand, RangeCommand
<1>4. PinCommand(n, c, type).messagetype = n.messagetype
    BY DEF PinCommand
<1>5. SetLockPinCommand(n, c).messagetype = n.messagetype
    BY DEF SetLockPinCommand
<1>6. SetErasePinCommand(n, c).messagetype = n.messagetype
    BY DEF SetErasePinCommand
<1>7. AclCommand(n, c).messagetype = n.messagetype
    BY DEF AclCommand
<1>8. GetLogCommand(n, c).messagetype = n.messagetype
    BY DEF GetLogCommand
<1>9. QED
    BY <1>1, <1>2, <1>3, <1>4, <1>5, <1>6, <1>7, <1>8

(* The field of a command that says what kind it is, whatever else is set.  *)
LEMMA TypeStays ==
    ASSUME NEW v, NEW type, NEW c, NEW p, NEW x, NEW y
    PROVE  LET new == NewCommand(v, type)
           IN /\ KeyRangeCommand(new, c).messagetype = type
              /\ MediaScanCommand(new, c).messagetype = type
              /\ MediaOptimizeCommand(new, c).messagetype = type
              /\ PinCommand(new, c, p).messagetype = type
              /\ SetLockPinCommand(new, c).messagetype = type
              /\ SetErasePinCommand(new, c).messagetype = type
              /\ AclCommand(new, c).messagetype = type
              /\ GetLogCommand(new, c).messagetype = type
              /\ [new EXCEPT !.key = x].messagetype = type
              /\ [new EXCEPT !.newclusterversion = x].messagetype = type
              /\ [new EXCEPT !.firmwaredownload = x, !.value = y].messagetype = type
              /\ [new EXCEPT !.operation = x].messagetype = type
BY NewCommandFields, ArgumentsKeepType

LEMMA TypeOfCommand ==
    ASSUME NEW c, NEW t, NEW v, c.op \in Operations \ {"Put", "Delete"}
    PROVE  /\ Command(t, v, c).messagetype \in MessageTypes \ {"PUT", "DELETE"}
           /\ c.op = "Flush" => Command(t, v, c).messagetype = "FLUSHALLDATA"
<1> DEFINE type == Command(t, v, c).messagetype
<1>1. c.op = "Get" => type = "GET"
    BY TypeStays, NewCommandFields DEF Command
<1>2. c.op = "GetNext" => type = "GETNEXT"
    BY TypeStays, NewCommandFields DEF Command
<1>3. c.op = "GetPrevious" => type = "GETPREVIOUS"
    BY TypeStays, NewCommandFields DEF Command
<1>4. c.op = "GetVersion" => type = "GETVERSION"
    BY TypeStays, NewCommandFields DEF Command
<1>5. c.op = "GetKeyRange" => type = "GETKEYRANGE"
    BY TypeStays, NewCommandFields DEF Command
<1>6. c.op = "MediaScan" => type = "MEDIASCAN"
    BY TypeStays, NewCommandFields DEF Command
<1>7. c.op = "MediaOptimize" => type = "MEDIAOPTIMIZE"
    BY TypeStays, NewCommandFields DEF Command
<1>8. c.op = "InstantErase" => type = "PINOP"
    BY TypeStays, NewCommandFields DEF Command
<1>9. c.op = "SecureErase" => type = "PINOP"
    BY TypeStays, NewCommandFields DEF Command
<1>10. c.op = "LockDevice" => type = "PINOP"
    BY TypeStays, NewCommandFields DEF Command
<1>11. c.op = "UnlockDevice" => type = "PINOP"
    BY TypeStays, NewCommandFields DEF Command
<1>12. c.op = "SetLockPIN" => type = "SECURITY"
    BY TypeStays, NewCommandFields DEF Command
<1>13. c.op = "SetErasePIN" => type = "SECURITY"
    BY TypeStays, NewCommandFields DEF Command
<1>14. c.op = "SetACLs" => type = "SECURITY"
    BY TypeStays, NewCommandFields DEF Command
<1>15. c.op = "GetLog" => type = "GETLOG"
    BY TypeStays, NewCommandFields DEF Command
<1>16. c.op = "SetClusterVersion" => type = "SETUP"
    BY TypeStays, NewCommandFields DEF Command
<1>17. c.op = "UpdateFirmware" => type = "SETUP"
    BY TypeStays, NewCommandFields DEF Command
<1>18. c.op = "P2PPush" => type = "PEER2PEERPUSH"
    BY TypeStays, NewCommandFields DEF Command
<1>19. c.op = "NoOp" => type = "NOOP"
    BY TypeStays, NewCommandFields DEF Command
<1>20. c.op = "Flush" => type = "FLUSHALLDATA"
    BY TypeStays, NewCommandFields DEF Command
<1>21. QED
    BY <1>1, <1>2, <1>3, <1>4, <1>5, <1>6, <1>7, <1>8, <1>9, <1>10, <1>11, <1>12, <1>13, <1>14, <1>15, <1>16, <1>17, <1>18, <1>19, <1>20
       DEF Operations, MessageTypes, ReadTypes, RangeTypes

LEMMA CommandOfCall ==
    ASSUME NEW c \in Interface, NEW t, NEW v
    PROVE  /\ Command(t, v, c).messagetype \in MessageTypes
           /\ \A k : Promises(c, k) => Carries(Command(t, v, c), k)
<1>1. CASE c.op = "Put"
  <2>1. Command(t, v, c) = PutCommand(NewCommand(v, "PUT"), t, c)
      BY <1>1 DEF Command
  <2>2. QED
      BY <1>1, <2>1, PutCommandFields, PersistenceOfWrites, CallsOfInterface
         DEF MessageTypes, Promises, Carries, Writing
<1>2. CASE c.op = "Delete"
  <2>1. Command(t, v, c) = DeleteCommand(NewCommand(v, "DELETE"), c)
      BY <1>2 DEF Command
  <2>2. QED
      BY <1>2, <2>1, DeleteCommandFields, PersistenceOfWrites, CallsOfInterface
         DEF MessageTypes, Promises, Carries, Writing
<1>3. CASE c.op \notin {"Put", "Delete"}
    BY <1>3, TypeOfCommand, CallsOfInterface DEF Promises, Carries, Writing
<1>4. QED
    BY <1>1, <1>2, <1>3

-----------------------------------------------------------------------------
(* What the drive does with a command.                                      *)
Obeys(d, m, r) ==
    /\ Follows(d, r[1])
    /\ \A k \in Keys : r[2].code = "SUCCESS" /\ Carries(m, k) =>
          r[1].durable[k].rev = r[1].store[k].rev

LEMMA FollowsItself == ASSUME NEW d, Sound(d) PROVE Follows(d, d)
BY DEF Follows, Sound, Revisions

LEMMA FailureObeys ==
    ASSUME NEW d, Sound(d), NEW m, NEW code, code # "SUCCESS", NEW r,
           r = <<d, Fails(code)>>
    PROVE  Obeys(d, m, r)
BY FollowsItself DEF Obeys, Fails, Reply

LEMMA WriteObeys ==
    ASSUME NEW d, Sound(d), NEW m, m.messagetype \in {"PUT", "DELETE"}, NEW e, Follows(d, e)
    PROVE  Obeys(d, m, <<Synchronized(e, m), Reply>>)
<1>1. Sound(e)
    BY DEF Follows
<1>2. Follows(d, Synchronized(e, m))
    BY <1>1, SynchronizedFollows, FollowsTransitive
<1>3. QED
    BY <1>1, <1>2, SynchronizedFollows DEF Obeys, Carries

(* A push touches the peer's records only.                                  *)
LEMMA PushChanges ==
    ASSUME NEW d, NEW m
    PROVE  \E peer : DrivePush(d, m)[1] = [d EXCEPT !.peer = peer]
<1>1. \E peer, reply : DrivePush(d, m) = <<[d EXCEPT !.peer = peer], reply>>
    BY Zenon DEF DrivePush
<1>2. QED
    BY <1>1

LEMMA DriveObeys ==
    ASSUME NEW d, Sound(d), NEW m, m.messagetype \in MessageTypes
    PROVE  Obeys(d, m, DriveDoes(d, m))
<1>1. CASE m.clusterversion # d.cluster
    BY <1>1, FollowsItself DEF DriveDoes, Obeys, Fails, Reply
<1>2. CASE m.clusterversion = d.cluster /\ d.locked /\ m.pinoptype # "UNLOCK_PINOP"
    BY <1>2, FailureObeys DEF DriveDoes
<1>3. ASSUME m.clusterversion = d.cluster, ~(d.locked /\ m.pinoptype # "UNLOCK_PINOP")
      PROVE  Obeys(d, m, DriveDoes(d, m))
  <2> USE <1>3
  <2>1. CASE m.messagetype = "PUT"
    <3>1. DriveDoes(d, m) = DrivePut(d, m)
        BY <2>1 DEF DriveDoes
    <3>2. CASE Holds(d.store[m.key], m)
        BY <2>1, <3>1, <3>2, StoreFollows, WriteObeys DEF DrivePut
    <3>3. CASE ~Holds(d.store[m.key], m)
        BY <3>1, <3>3, FailureObeys DEF DrivePut
    <3>4. QED
        BY <3>2, <3>3
  <2>2. CASE m.messagetype = "DELETE"
    <3>1. DriveDoes(d, m) = DriveDelete(d, m)
        BY <2>2 DEF DriveDoes
    <3>2. \/ DriveDelete(d, m) = <<Synchronized(Drop(d, m.key), m), Reply>>
          \/ \E code : code # "SUCCESS" /\ DriveDelete(d, m) = <<d, Fails(code)>>
        BY DEF DriveDelete
    <3>3. QED
        BY <2>2, <3>1, <3>2, DropFollows, WriteObeys, FailureObeys
  <2>3. CASE m.messagetype \in ReadTypes
    <3>1. DriveDoes(d, m) = DriveGet(d, m)
        BY <2>3 DEF DriveDoes, ReadTypes
    <3>2. DriveGet(d, m)[1] = d
        BY DEF DriveGet
    <3>3. QED
        BY <2>3, <3>1, <3>2, FollowsItself DEF Obeys, Carries, ReadTypes
  <2>4. CASE m.messagetype \in RangeTypes
    <3>1. DriveDoes(d, m) = DriveRange(d, m)
        BY <2>4 DEF DriveDoes, RangeTypes
    <3>2. DriveRange(d, m)[1] = d
        BY DEF DriveRange
    <3>3. QED
        BY <2>4, <3>1, <3>2, FollowsItself DEF Obeys, Carries, RangeTypes
  <2>5. CASE m.messagetype = "PINOP"
    <3>1. DriveDoes(d, m) = DrivePinOperation(d, m)
        BY <2>5 DEF DriveDoes
    <3>2. DrivePinOperation(d, m)[1] \in
             {d, [d EXCEPT !.locked = TRUE], [d EXCEPT !.locked = FALSE], Erase(d)}
        BY DEF DrivePinOperation
    <3>3. Follows(d, DrivePinOperation(d, m)[1])
        BY <3>2, FollowsItself, EraseFollows, SameRecords DEF Field
    <3>4. QED
        BY <2>5, <3>1, <3>3 DEF Obeys, Carries
  <2>6. CASE m.messagetype \in {"SECURITY", "SETUP", "PEER2PEERPUSH"}
    <3>1. CASE m.messagetype = "SECURITY"
      <4>1. DriveDoes(d, m) = DriveSecurity(d, m)
          BY <3>1 DEF DriveDoes
      <4>2. Follows(d, DriveSecurity(d, m)[1])
          BY FollowsItself DEF DriveSecurity, Field, Sound, Revisions, Follows
      <4>3. QED
          BY <3>1, <4>1, <4>2 DEF Obeys, Carries
    <3>2. CASE m.messagetype = "SETUP"
      <4>1. DriveDoes(d, m) = DriveSetup(d, m)
          BY <3>2 DEF DriveDoes
      <4> DEFINE e == DriveSetup(d, m)[1]
      <4>2. DOMAIN e = DOMAIN d /\ e.store = d.store /\ e.durable = d.durable
          BY DEF DriveSetup, Sound, Field
      <4>3. Follows(d, e)
          BY <4>2 DEF Sound, Revisions, Follows
      <4>4. QED
          BY <3>2, <4>1, <4>3 DEF Obeys, Carries
    <3>3. CASE m.messagetype = "PEER2PEERPUSH"
      <4>1. DriveDoes(d, m) = DrivePush(d, m)
          BY <3>3 DEF DriveDoes
      <4>2. Follows(d, DrivePush(d, m)[1])
        <5>1. PICK peer : DrivePush(d, m)[1] = [d EXCEPT !.peer = peer]
            BY PushChanges
        <5>2. QED
            BY <5>1 DEF Field, Sound, Revisions, Follows
      <4>3. QED
          BY <3>3, <4>1, <4>2 DEF Obeys, Carries
    <3>4. QED
        BY <2>6, <3>1, <3>2, <3>3
  <2>7. CASE m.messagetype = "FLUSHALLDATA"
      BY <2>7, PersistFollows DEF DriveDoes, Obeys
  <2>8. CASE m.messagetype \in {"GETLOG", "NOOP"}
      BY <2>8, FollowsItself DEF DriveDoes, Obeys, Carries
  <2>9. QED
      BY <2>1, <2>2, <2>3, <2>4, <2>5, <2>6, <2>7, <2>8 DEF MessageTypes
<1>4. QED
    BY <1>1, <1>2, <1>3

-----------------------------------------------------------------------------
(* The inductive invariant.  A call in a pipeline has the command of its    *)
(* arguments; what it promises to cover, and what was promised, is durable. *)
Carried(t) ==
    /\ asked[t] # NotYet /\ asked[t].call \in Interface
    /\ command[t] = Command(t, asked[t].cluster, asked[t].call)

Waiting == {p \in [ticket : Tickets, handler : BOOLEAN] : Carried(p.ticket)}

CoversDurable ==
    /\ covers \in [Tickets -> [Keys -> Nat]]
    /\ \A t \in Tickets, k \in Keys : covers[t][k] <= drive.durable[k].rev

RequestsOK ==
    /\ DOMAIN command = Tickets /\ DOMAIN asked = Tickets
    /\ program \in Workloads /\ calls \in Nat
    /\ pipeline \in [Connections -> Seq(Waiting)]
    /\ written \in [Connections -> Nat]
    /\ \A c \in Connections : written[c] <= Len(pipeline[c])

ClientInv ==
    /\ Sound(drive)
    /\ RequestsOK
    /\ CoversDurable
    /\ promised \in [Keys -> Nat] /\ AckedSurvives

-----------------------------------------------------------------------------
(* Sequences of a set's elements.                                           *)
LEMMA SeqOfFunction ==
    ASSUME NEW S, NEW n \in Nat, NEW s \in [1 .. n -> S]
    PROVE  s \in Seq(S) /\ Len(s) = n
OBVIOUS

LEMMA TailStays ==
    ASSUME NEW S, NEW s \in Seq(S), s # << >>
    PROVE  /\ Tail(s) \in Seq(S) /\ Len(Tail(s)) = Len(s) - 1
           /\ \A j \in 1 .. Len(s) - 1 : Tail(s)[j] = s[j + 1]
OBVIOUS

LEMMA PrefixStays ==
    ASSUME NEW S, NEW s \in Seq(S), NEW n \in Nat, n <= Len(s)
    PROVE  /\ SubSeq(s, 1, n) \in Seq(S) /\ Len(SubSeq(s, 1, n)) = n
           /\ \A j \in 1 .. n : SubSeq(s, 1, n)[j] = s[j]
<1>1. Len(s) \in Nat /\ \A j \in 1 .. n : s[j] \in S
    BY LenProperties, ElementOfSeq
<1>2. QED
    BY <1>1, SubSeqProperties

LEMMA RemoveAtStays ==
    ASSUME NEW S, NEW q \in Seq(S), NEW i \in DOMAIN q
    PROVE  /\ RemoveAt(q, i) \in Seq(S) /\ Len(RemoveAt(q, i)) = Len(q) - 1
           /\ \A j \in 1 .. Len(q) - 1 :
                 RemoveAt(q, i)[j] = IF j < i THEN q[j] ELSE q[j + 1]
<1> DEFINE a == SubSeq(q, 1, i - 1)
           b == SubSeq(q, i + 1, Len(q))
           s == RemoveAt(q, i)
<1>1. i \in 1 .. Len(q) /\ Len(q) \in Nat /\ DOMAIN q = 1 .. Len(q)
    OBVIOUS
<1>2. /\ a \in Seq(S) /\ Len(a) = i - 1 /\ \A j \in 1 .. i - 1 : a[j] = q[j]
      /\ b \in Seq(S) /\ Len(b) = Len(q) - i /\ \A j \in 1 .. Len(q) - i : b[j] = q[j + i]
    BY <1>1, SubSeqProperties, SMTT(30)
<1>3. s = a \o b
    BY DEF RemoveAt
<1> HIDE DEF a, b, s
<1>4. s \in Seq(S) /\ Len(s) = Len(q) - 1
  <2>1. s \in Seq(S) /\ Len(s) = Len(a) + Len(b)
      BY <1>2, <1>3, ConcatProperties
  <2>2. QED
      BY <1>1, <1>2, <2>1
<1>5. ASSUME NEW j \in 1 .. Len(q) - 1, j < i
      PROVE  s[j] = q[j]
    BY <1>1, <1>2, <1>3, <1>5, ConcatProperties
<1>6. ASSUME NEW j \in 1 .. Len(q) - 1, ~ (j < i)
      PROVE  s[j] = q[j + 1]
  <2>1. s[j] = b[j - Len(a)]
      BY <1>1, <1>2, <1>3, <1>6, ConcatProperties
  <2>2. j - Len(a) \in 1 .. Len(q) - i /\ (j - Len(a)) + i = j + 1
      BY <1>1, <1>2, <1>6
  <2>3. QED
      BY <1>2, <2>1, <2>2
<1>7. QED
    BY <1>4, <1>5, <1>6 DEF s

(* Forgetting the handlers of the first calls.                              *)
LEMMA WithoutHandlersStays ==
    ASSUME NEW q \in Seq(Waiting), NEW n
    PROVE  /\ WithoutHandlers(q, n) \in Seq(Waiting)
           /\ Len(WithoutHandlers(q, n)) = Len(q)
           /\ \A j \in 1 .. Len(q) :
                 /\ WithoutHandlers(q, n)[j].ticket = q[j].ticket
                 /\ WithoutHandlers(q, n)[j].handler => q[j].handler /\ j > n
<1> DEFINE s == WithoutHandlers(q, n)
<1>1. Len(q) \in Nat /\ DOMAIN q = 1 .. Len(q) /\ \A j \in 1 .. Len(q) : q[j] \in Waiting
    OBVIOUS
<1>2. \A p \in Waiting, b \in BOOLEAN :
         /\ [p EXCEPT !.handler = b] \in Waiting
         /\ [p EXCEPT !.handler = b].ticket = p.ticket
         /\ [p EXCEPT !.handler = b].handler = b
    BY DEF Waiting
<1>3. \A j \in 1 .. Len(q) : s[j] = [q[j] EXCEPT !.handler = q[j].handler /\ j > n]
    BY <1>1 DEF WithoutHandlers
<1>4. \A j \in 1 .. Len(q) : q[j].handler \in BOOLEAN
    BY <1>1 DEF Waiting
<1>5. s \in [1 .. Len(q) -> Waiting]
    BY <1>1, <1>2, <1>3, <1>4 DEF WithoutHandlers
<1>6. \A j \in 1 .. Len(q) :
         s[j].ticket = q[j].ticket /\ (s[j].handler => q[j].handler /\ j > n)
  <2>1. ASSUME NEW j \in 1 .. Len(q), NEW b \in BOOLEAN, b = (q[j].handler /\ j > n)
        PROVE  s[j].ticket = q[j].ticket /\ s[j].handler = b
    <3>1. q[j] \in Waiting /\ s[j] = [q[j] EXCEPT !.handler = b]
        BY <1>1, <1>3, <2>1
    <3> HIDE DEF s
    <3>2. QED
        BY <1>2, <3>1
  <2> HIDE DEF s
  <2>2. \A j \in 1 .. Len(q) : (q[j].handler /\ j > n) \in BOOLEAN
      BY <1>4
  <2>3. QED
      BY <2>1, <2>2
<1> HIDE DEF s
<1>7. s \in Seq(Waiting) /\ Len(s) = Len(q)
    BY <1>1, <1>5, SeqOfFunction
<1>8. s = WithoutHandlers(q, n)
    BY DEF s
<1>9. QED
    BY <1>6, <1>7, <1>8, ZenonT(30)

(* The requests stay what they are when none is submitted and none gets     *)
(* into a pipeline.                                                         *)
LEMMA RequestsStay ==
    ASSUME RequestsOK, UNCHANGED requests, pipeline' \in [Connections -> Seq(Waiting)],
           written' \in [Connections -> Nat],
           \A c \in Connections : written'[c] <= Len(pipeline'[c])
    PROVE  RequestsOK'
BY DEF RequestsOK, Waiting, Carried, requests

LEMMA SubmitKeeps ==
    ASSUME RequestsOK, NEW c \in Connections, Submit(c)
    PROVE  RequestsOK'
<1>1. PICK t \in Tickets : t = calls + 1 /\ program[t] \in Interface
    BY ApiConstantsOK DEF RequestsOK, Submit, Tickets
<1> DEFINE p == [ticket |-> t, handler |-> TRUE]
<1> DEFINE a == [call |-> program[t], cluster |-> clusterVersion[c]]
<1>2. Carried(t)'
  <2>1. asked'[t] = a /\ command'[t] = Command(t, clusterVersion[c], program[t])
      BY <1>1 DEF Submit, RequestsOK
  <2>2. a # NotYet
      BY DEF NotYet
  <2>3. QED
      BY <1>1, <2>1, <2>2 DEF Carried
<1>3. \A u \in Tickets \ {t} : asked'[u] = asked[u] /\ command'[u] = command[u]
    BY <1>1 DEF Submit, RequestsOK
<1>4. \A u \in Tickets : Carried(u) => Carried(u)'
    BY <1>2, <1>3 DEF Carried
<1>5. Waiting \subseteq Waiting' /\ p \in Waiting'
    BY <1>2, <1>4 DEF Waiting
<1>6. pipeline' = [pipeline EXCEPT ![c] = Append(@, p)]
    BY <1>1 DEF Submit
<1> HIDE DEF p
<1>7. \A d \in Connections : pipeline'[d] \in Seq(Waiting')
    BY <1>5, <1>6, SeqMonotonic, AppendProperties DEF RequestsOK
<1>8. pipeline' \in [Connections -> Seq(Waiting')]
    BY <1>6, <1>7 DEF RequestsOK
<1>9. /\ written' = written
      /\ \A d \in Connections : pipeline[d] \in Seq(Waiting) /\ Len(pipeline[d]) \in Nat
    BY DEF Submit, RequestsOK
<1>10. \A d \in Connections : written'[d] <= Len(pipeline'[d])
    BY <1>5, <1>6, <1>9, AppendProperties, SeqMonotonic DEF RequestsOK
<1>11. QED
    BY <1>1, <1>8, <1>9, <1>10 DEF Submit, RequestsOK

(* Every other step takes entries of the pipelines away, or their handlers. *)
LEMMA PipelineStays ==
    ASSUME RequestsOK, UNCHANGED requests, NEW c \in Connections,
           NEW s \in Seq(Waiting), NEW n \in Nat, n <= Len(s),
           pipeline' = [pipeline EXCEPT ![c] = s], written' = [written EXCEPT ![c] = n]
    PROVE  RequestsOK'
BY RequestsStay DEF RequestsOK

LEMMA PipelinesKeep ==
    ASSUME RequestsOK, NEW c \in Connections,
           \/ \E i \in DOMAIN pipeline[c] : RemoveHandler(c, i)
           \/ SendWrites(c) \/ Callback(c) \/ DamagedResponse(c)
           \/ SendFails(c) \/ ReceiveFails(c) \/ Destroy(c)
    PROVE  RequestsOK'
<1> DEFINE q == pipeline[c]
           w == written[c]
           s == WithoutHandlers(q, w)
<1>1. /\ q \in Seq(Waiting) /\ Len(q) \in Nat /\ DOMAIN q = 1 .. Len(q)
      /\ \A i \in 1 .. Len(q) : q[i] \in Waiting
      /\ w \in Nat /\ w <= Len(q) /\ written = [written EXCEPT ![c] = w]
    BY DEF RequestsOK
<1>2. s \in Seq(Waiting) /\ Len(s) = Len(q)
    BY <1>1, WithoutHandlersStays
<1> HIDE DEF s
<1>3. ASSUME NEW i \in DOMAIN q, RemoveHandler(c, i)
      PROVE  RequestsOK'
  <2>1. UNCHANGED requests /\ UNCHANGED written
      BY <1>3 DEF RemoveHandler
  <2>2. CASE i <= w
    <3> DEFINE r == [q EXCEPT ![i] = [@ EXCEPT !.handler = FALSE]]
    <3>1. \A p \in Waiting : [p EXCEPT !.handler = FALSE] \in Waiting
        BY DEF Waiting
    <3>2. r \in [1 .. Len(q) -> Waiting]
        BY <1>1, <3>1
    <3>3. r \in Seq(Waiting) /\ Len(r) = Len(q)
        BY <1>1, <3>2, SeqOfFunction
    <3>4. pipeline' = [pipeline EXCEPT ![c] = r]
        BY <1>3, <2>2 DEF RemoveHandler
    <3>5. QED
        BY <1>1, <2>1, <3>3, <3>4, PipelineStays
  <2>3. CASE ~ (i <= w)
    <3>1. RemoveAt(q, i) \in Seq(Waiting) /\ Len(RemoveAt(q, i)) = Len(q) - 1
        BY <1>1, RemoveAtStays
    <3>2. w <= Len(q) - 1
        BY <1>1, <2>3
    <3>3. pipeline' = [pipeline EXCEPT ![c] = RemoveAt(q, i)]
        BY <1>3, <2>3 DEF RemoveHandler
    <3>4. QED
        BY <1>1, <2>1, <3>1, <3>2, <3>3, PipelineStays
  <2>4. QED
      BY <2>2, <2>3
<1>4. CASE SendWrites(c)
  <2>1. /\ UNCHANGED requests /\ w + 1 <= Len(q) /\ w + 1 \in Nat
        /\ written' = [written EXCEPT ![c] = w + 1]
      BY <1>1, <1>4 DEF SendWrites
  <2>2. pipeline' = [pipeline EXCEPT ![c] = q]
      BY <1>4 DEF SendWrites, RequestsOK
  <2>3. QED
      BY <1>1, <2>1, <2>2, PipelineStays
<1>5. ASSUME w > 0
      PROVE  w - 1 \in Nat /\ w - 1 <= Len(q) - 1 /\ q # << >> /\ s # << >>
    BY <1>1, <1>2, <1>5
<1>6. CASE Callback(c)
  <2>1. /\ UNCHANGED requests /\ w > 0 /\ written' = [written EXCEPT ![c] = w - 1]
        /\ pipeline' = [pipeline EXCEPT ![c] = Tail(q)]
      BY <1>6 DEF Callback
  <2>2. Tail(q) \in Seq(Waiting) /\ Len(Tail(q)) = Len(q) - 1
      BY <1>1, <1>5, <2>1, TailStays
  <2>3. QED
      BY <1>5, <2>1, <2>2, PipelineStays
<1>7. CASE DamagedResponse(c)
  <2>1. /\ UNCHANGED requests /\ w > 0 /\ written' = [written EXCEPT ![c] = w - 1]
        /\ pipeline' = [pipeline EXCEPT ![c] = Tail(s)]
      BY <1>7 DEF DamagedResponse, s
  <2>2. Tail(s) \in Seq(Waiting) /\ Len(Tail(s)) = Len(q) - 1
      BY <1>2, <1>5, <2>1, TailStays
  <2>3. QED
      BY <1>5, <2>1, <2>2, PipelineStays
<1>8. CASE SendFails(c)
  <2>1. /\ UNCHANGED requests /\ UNCHANGED written
        /\ pipeline' = [pipeline EXCEPT ![c] = SubSeq(q, 1, w)]
      BY <1>8 DEF SendFails
  <2>2. SubSeq(q, 1, w) \in Seq(Waiting) /\ Len(SubSeq(q, 1, w)) = w
      BY <1>1, PrefixStays
  <2>3. w <= w
      BY <1>1
  <2>4. QED
      BY <1>1, <2>1, <2>2, <2>3, PipelineStays
<1>9. CASE ReceiveFails(c)
  <2>1. /\ UNCHANGED requests /\ UNCHANGED written
        /\ pipeline' = [pipeline EXCEPT ![c] = s]
      BY <1>9 DEF ReceiveFails, s
  <2>2. QED
      BY <1>1, <1>2, <2>1, PipelineStays
<1>10. CASE Destroy(c)
  <2>1. /\ UNCHANGED requests /\ UNCHANGED written
        /\ pipeline' = [pipeline EXCEPT ![c] = SubSeq(s, 1, w)]
      BY <1>10 DEF Destroy, s
  <2>2. SubSeq(s, 1, w) \in Seq(Waiting) /\ Len(SubSeq(s, 1, w)) = w
      BY <1>1, <1>2, PrefixStays
  <2>3. w <= w
      BY <1>1
  <2>4. QED
      BY <1>1, <2>1, <2>2, <2>3, PipelineStays
<1>11. QED
    BY <1>3, <1>4, <1>6, <1>7, <1>8, <1>9, <1>10

-----------------------------------------------------------------------------
(* What is promised stays durable.                                          *)

(* As long as nothing durable gets older, and nothing more is covered.      *)
LEMMA CoversStay ==
    ASSUME Sound(drive), CoversDurable, Follows(drive, drive'), UNCHANGED covers
    PROVE  CoversDurable'
BY DEF CoversDurable, Follows, Sound, Revisions

LEMMA PromisesStay ==
    ASSUME promised \in [Keys -> Nat], AckedSurvives, Sound(drive), Follows(drive, drive'),
           UNCHANGED promised
    PROVE  promised' \in [Keys -> Nat] /\ AckedSurvives'
BY DEF AckedSurvives, Follows, Sound, Revisions

LEMMA WaitingCalls ==
    ASSUME RequestsOK, NEW c \in Connections, NEW i \in DOMAIN pipeline[c]
    PROVE  pipeline[c][i].ticket \in Tickets /\ Carried(pipeline[c][i].ticket)
<1>1. pipeline[c] \in Seq(Waiting)
    BY DEF RequestsOK
<1>2. pipeline[c][i] \in Waiting
    BY <1>1, LenProperties, ElementOfSeq
<1>3. QED
    BY <1>2 DEF Waiting

(* The drive executes a command.                                            *)
LEMMA ExecutionKeeps ==
    ASSUME ClientInv, NEW c \in Connections, DriveExecutes(c)
    PROVE  ClientInv'
<1>1. PICK i \in Unanswered(c) :
         LET t == pipeline[c][i].ticket
             r == DriveDoes(drive, command[t])
         IN \/ /\ drive' = r[1]
               /\ covers' = [covers EXCEPT ![t] =
                    IF r[2].code = "SUCCESS" THEN Covered(r[1], asked[t].call) ELSE @]
            \/ UNCHANGED <<drive, covers>>
    BY DEF DriveExecutes
<1>2. UNCHANGED <<requests, pipeline, written, promised>>
    BY DEF DriveExecutes
<1>3. RequestsOK'
    BY <1>2, RequestsStay DEF ClientInv, RequestsOK
<1>4. PICK t \in Tickets : t = pipeline[c][i].ticket /\ Carried(t)
    BY <1>1, WaitingCalls DEF ClientInv, Unanswered
<1> DEFINE r == DriveDoes(drive, command[t])
<1>5. /\ command[t].messagetype \in MessageTypes
      /\ \A k : Promises(asked[t].call, k) => Carries(command[t], k)
    BY <1>4, CommandOfCall DEF Carried
<1>6. Obeys(drive, command[t], r)
    BY <1>5, DriveObeys DEF ClientInv
<1> HIDE DEF r
<1>7. CASE UNCHANGED <<drive, covers>>
    BY <1>2, <1>3, <1>7 DEF ClientInv, CoversDurable, AckedSurvives
<1>8. CASE /\ drive' = r[1]
           /\ covers' = [covers EXCEPT ![t] =
                IF r[2].code = "SUCCESS" THEN Covered(r[1], asked[t].call) ELSE @]
  <2>1. Sound(drive) /\ Follows(drive, drive') /\ Sound(drive')
      BY <1>6, <1>8 DEF Obeys, Follows, ClientInv
  <2>2. promised' \in [Keys -> Nat] /\ AckedSurvives'
      BY <1>2, <2>1, PromisesStay DEF ClientInv
  <2>3. r[2].code = "SUCCESS" =>
           /\ Covered(drive', asked[t].call) \in [Keys -> Nat]
           /\ \A k \in Keys : Covered(drive', asked[t].call)[k] <= drive'.durable[k].rev
    <3>1. \A k \in Keys : drive'.store[k].rev \in Nat /\ drive'.durable[k].rev \in Nat
        BY <2>1 DEF Sound, Revisions
    <3>2. r[2].code = "SUCCESS" => \A k \in Keys :
             Promises(asked[t].call, k) => drive'.durable[k].rev = drive'.store[k].rev
        BY <1>5, <1>6, <1>8 DEF Obeys
    <3>3. QED
        BY <3>1, <3>2 DEF Covered, Promises, Writing
  <2>4. CoversDurable'
      BY <1>8, <2>1, <2>3, SMTT(30) DEF CoversDurable, ClientInv, Follows, Sound, Revisions
  <2>5. QED
      BY <1>3, <2>1, <2>2, <2>4 DEF ClientInv
<1>9. QED
    BY <1>1, <1>4, <1>7, <1>8 DEF r

(* A callback is told, and what its call covers is promised.                *)
LEMMA CallbackPromises ==
    ASSUME ClientInv, NEW c \in Connections, Callback(c)
    PROVE  promised' \in [Keys -> Nat] /\ AckedSurvives'
<1>1. UNCHANGED drive
    BY DEF Callback
<1>2. Head(pipeline[c]).ticket \in Tickets
  <2>1. pipeline[c] \in Seq(Waiting) /\ Len(pipeline[c]) \in Nat /\ Len(pipeline[c]) > 0
      BY DEF Callback, ClientInv, RequestsOK
  <2>2. Head(pipeline[c]) = pipeline[c][1] /\ 1 \in DOMAIN pipeline[c]
      BY <2>1
  <2>3. QED
      BY <2>2, WaitingCalls DEF ClientInv
<1>3. PICK t \in Tickets :
        \/ UNCHANGED promised
        \/ \E told_ok \in BOOLEAN : promised' = [k \in Keys |->
              IF told_ok /\ covers[t][k] > promised[k] THEN covers[t][k] ELSE promised[k]]
    BY <1>2, Zenon DEF Callback
<1>4. QED
    BY <1>1, <1>3 DEF ClientInv, CoversDurable, AckedSurvives

LEMMA ClientInitially == ASSUME Init PROVE ClientInv
<1>1. << >> \in Seq(Waiting)
    BY EmptySeq
<1>2. Sound(drive)
    BY NewDriveSound DEF Init
<1>3. \A k \in Keys : drive.durable[k].rev = 0
    BY DEF Init, NewDrive, NoEntries, Nothing
<1>4. QED
    BY <1>1, <1>2, <1>3 DEF Init, ClientInv, RequestsOK, CoversDurable, AckedSurvives

LEMMA ClientStep == ASSUME ClientInv, [Next]_vars PROVE ClientInv'
<1> USE DEF ClientInv
<1>1. Sound(drive)' /\ Follows(drive, drive') /\ UNCHANGED <<covers, promised>> /\ RequestsOK'
         => ClientInv'
    BY CoversStay, PromisesStay
<1>2. UNCHANGED <<drive, covers, promised>> /\ RequestsOK' => ClientInv'
    BY DEF CoversDurable, AckedSurvives
<1>3. UNCHANGED <<requests, pipeline, written>> => RequestsOK'
    BY RequestsStay DEF RequestsOK
<1>4. ASSUME NEW c \in Connections, Connect(c)
      PROVE  ClientInv'
    BY <1>2, <1>3, <1>4 DEF Connect, ghosts
<1>5. ASSUME NEW c \in Connections, Submit(c)
      PROVE  ClientInv'
    BY <1>2, <1>5, SubmitKeeps DEF Submit, ghosts
<1>6. ASSUME NEW c \in Connections, SubmitTooLate(c)
      PROVE  ClientInv'
  <2>1. RequestsOK'
      BY <1>6 DEF SubmitTooLate, RequestsOK, Waiting, Carried
  <2>2. QED
      BY <1>2, <1>6, <2>1 DEF SubmitTooLate, ghosts
<1>7. ASSUME NEW c \in Connections, DriveExecutes(c)
      PROVE  ClientInv'
    BY <1>7, ExecutionKeeps
<1>8. ASSUME NEW c \in Connections, Callback(c)
      PROVE  ClientInv'
  <2>1. RequestsOK'
      BY <1>8, PipelinesKeep
  <2>2. UNCHANGED <<drive, covers>>
      BY <1>8 DEF Callback
  <2>3. QED
      BY <1>8, <2>1, <2>2, CallbackPromises DEF CoversDurable
<1>9. ASSUME NEW c \in Connections, DamagedResponse(c)
      PROVE  ClientInv'
    BY <1>2, <1>9, PipelinesKeep DEF DamagedResponse, ghosts
<1>10. ASSUME NEW c \in Connections,
              SendWrites(c) \/ SendFails(c) \/ ReceiveFails(c) \/ Destroy(c)
       PROVE  ClientInv'
    BY <1>2, <1>10, PipelinesKeep DEF SendWrites, SendFails, ReceiveFails, Destroy, ghosts
<1>11. ASSUME NEW c \in Connections, NEW version, SetClientClusterVersion(c, version)
       PROVE  ClientInv'
    BY <1>2, <1>3, <1>11 DEF SetClientClusterVersion, ghosts
<1>12. ASSUME NEW c \in Connections, NEW i \in DOMAIN pipeline[c], RemoveHandler(c, i)
       PROVE  ClientInv'
    BY <1>2, <1>12, PipelinesKeep DEF RemoveHandler, ghosts
<1>13. ASSUME NEW k \in Keys, DriveWritesBack(k)
       PROVE  ClientInv'
  <2>1. Follows(drive, drive')
      BY <1>13, PersistFollows DEF DriveWritesBack
  <2>2. QED
      BY <1>1, <1>3, <1>13, <2>1 DEF DriveWritesBack, ghosts, Follows
<1>14. CASE DriveCrashes
  <2>1. Follows(drive, drive')
      BY <1>14 DEF DriveCrashes, Follows, Sound, Revisions, Field
  <2>2. QED
      BY <1>1, <1>3, <1>14, <2>1 DEF DriveCrashes, ghosts, Follows
<1>15. CASE UNCHANGED vars
    BY <1>2, <1>3, <1>15 DEF vars, requests
<1>16. QED
    BY <1>4, <1>5, <1>6, <1>7, <1>8, <1>9, <1>10, <1>11, <1>12, <1>13, <1>14, <1>15
       DEF Next

-----------------------------------------------------------------------------
(* What every command and callback keeps: a call in a pipeline has the      *)
(* command of its own arguments and of the cluster version its connection   *)
(* had when it was made, and everything covered is durable.                 *)
THEOREM ClientInvariance == Spec => []ClientInv
<1>1. Init => ClientInv
    BY ClientInitially
<1>2. ClientInv /\ [Next]_vars => ClientInv'
    BY ClientStep
<1>3. QED
    BY <1>1, <1>2, PTL DEF Spec

(* No crash of the drive loses what a callback was told is persistent       *)
(* (GetSynchronizationForPersistMode and the commands of Put, Delete and    *)
(* Flush), whatever is called, by whom, and whatever fails.                 *)
THEOREM AcknowledgedSurvives == Spec => []AckedSurvives
<1>1. ClientInv => AckedSurvives
    BY DEF ClientInv
<1>2. QED
    BY <1>1, ClientInvariance, PTL

-----------------------------------------------------------------------------
(* What is told, and when.  Nothing that was not made yet is answered or    *)
(* told, and no call is in two pipelines.                                   *)
Ahead ==
    /\ DOMAIN told = Tickets /\ DOMAIN response = Tickets
    /\ \A t \in Tickets : t > calls => told[t] = NotYet /\ response[t] = NotYet

Queued ==
    \A c \in Connections : \A i \in DOMAIN pipeline[c] :
        /\ pipeline[c][i].ticket <= calls
        /\ pipeline[c][i].handler => told[pipeline[c][i].ticket] = NotYet

InOrder ==
    \A c \in Connections : \A i, j \in DOMAIN pipeline[c] : i < j =>
        /\ pipeline[c][i].ticket < pipeline[c][j].ticket
        /\ response[pipeline[c][j].ticket] # NotYet => response[pipeline[c][i].ticket] # NotYet

Apart ==
    \A c, d \in Connections : c # d =>
        \A i \in DOMAIN pipeline[c], j \in DOMAIN pipeline[d] :
            pipeline[c][i].ticket # pipeline[d][j].ticket

TellInv == Ahead /\ Queued /\ InOrder /\ Apart

(* A pipeline that lost entries or handlers, and nothing else.              *)
Thinned(s, q) ==
    \E f \in [DOMAIN s -> DOMAIN q] : \A i \in DOMAIN s :
        /\ s[i].ticket = q[f[i]].ticket /\ (s[i].handler => q[f[i]].handler)
        /\ \A j \in DOMAIN s : i < j => f[i] < f[j]

LEMMA PipelineOf ==
    ASSUME RequestsOK, NEW c \in Connections
    PROVE  /\ pipeline[c] \in Seq(Waiting) /\ Len(pipeline[c]) \in Nat
           /\ DOMAIN pipeline[c] = 1 .. Len(pipeline[c])
           /\ \A i \in DOMAIN pipeline[c] :
                 /\ pipeline[c][i] \in Waiting
                 /\ pipeline[c][i].ticket \in Tickets /\ pipeline[c][i].ticket \in Nat
                 /\ pipeline[c][i].handler \in BOOLEAN
<1>1. pipeline[c] \in Seq(Waiting)
    BY DEF RequestsOK
<1>2. /\ Len(pipeline[c]) \in Nat /\ DOMAIN pipeline[c] = 1 .. Len(pipeline[c])
      /\ \A i \in DOMAIN pipeline[c] : pipeline[c][i] \in Waiting
    BY <1>1
<1>3. Tickets \subseteq Nat
    BY ApiConstantsOK DEF Tickets
<1>4. QED
    BY <1>1, <1>2, <1>3 DEF Waiting

(* Two entries of a pipeline are different calls.                           *)
LEMMA TicketsDiffer ==
    ASSUME RequestsOK, InOrder, NEW c \in Connections,
           NEW i \in DOMAIN pipeline[c], NEW j \in DOMAIN pipeline[c],
           pipeline[c][i].ticket = pipeline[c][j].ticket
    PROVE  i = j
<1>1. /\ i \in Nat /\ j \in Nat
      /\ pipeline[c][i].ticket \in Nat /\ pipeline[c][j].ticket \in Nat
    BY PipelineOf
<1>2. ~ (i < j) /\ ~ (j < i)
    BY <1>1 DEF InOrder
<1>3. QED
    BY <1>1, <1>2

(* One connection tells some of its handlers, and forgets them.             *)
LEMMA ThinnedKeeps ==
    ASSUME RequestsOK, TellInv, NEW c \in Connections, NEW s, Thinned(s, pipeline[c]),
           pipeline' = [pipeline EXCEPT ![c] = s], UNCHANGED <<calls, response>>,
           DOMAIN told' = Tickets,
           \A t \in Tickets : told'[t] # told[t] =>
              /\ \E i \in DOMAIN pipeline[c] : pipeline[c][i].ticket = t
              /\ \A i \in DOMAIN s : s[i].ticket = t => ~ s[i].handler
    PROVE  TellInv'
<1> DEFINE q == pipeline[c]
<1>1. PICK f \in [DOMAIN s -> DOMAIN q] : \A i \in DOMAIN s :
         /\ s[i].ticket = q[f[i]].ticket /\ (s[i].handler => q[f[i]].handler)
         /\ \A j \in DOMAIN s : i < j => f[i] < f[j]
    BY DEF Thinned
<1>2. /\ pipeline'[c] = s
      /\ \A d \in Connections : d # c => pipeline'[d] = pipeline[d]
    BY DEF RequestsOK
<1>3. /\ \A i \in DOMAIN q : q[i].ticket \in Tickets /\ q[i].ticket \in Nat
      /\ \A d \in Connections : \A i \in DOMAIN pipeline[d] : pipeline[d][i].ticket \in Tickets
    BY PipelineOf
<1>4. calls \in Nat /\ Tickets \subseteq Nat
    BY ApiConstantsOK DEF RequestsOK, Tickets
<1>5. Ahead'
  <2>1. ASSUME NEW t \in Tickets, t > calls
        PROVE  told'[t] = NotYet
    <3>1. ~ \E i \in DOMAIN q : q[i].ticket = t
        BY <1>3, <1>4, <2>1 DEF TellInv, Queued
    <3>2. QED
        BY <2>1, <3>1 DEF TellInv, Ahead
  <2>2. QED
      BY <2>1 DEF TellInv, Ahead
<1>6. Queued'
  <2>1. ASSUME NEW i \in DOMAIN s
        PROVE  s[i].ticket <= calls /\ (s[i].handler => told'[s[i].ticket] = NotYet)
      BY <1>1, <1>3 DEF TellInv, Queued
  <2>2. ASSUME NEW d \in Connections, d # c, NEW i \in DOMAIN pipeline[d]
        PROVE  told'[pipeline[d][i].ticket] = told[pipeline[d][i].ticket]
      BY <1>3, <2>2 DEF TellInv, Apart
  <2>3. QED
      BY <1>2, <2>1, <2>2 DEF TellInv, Queued
<1>7. InOrder'
  <2>1. ASSUME NEW i \in DOMAIN s, NEW j \in DOMAIN s, i < j
        PROVE  /\ s[i].ticket < s[j].ticket
               /\ response[s[j].ticket] # NotYet => response[s[i].ticket] # NotYet
    <3>1. f[i] \in DOMAIN q /\ f[j] \in DOMAIN q /\ f[i] < f[j]
        BY <1>1, <2>1
    <3>2. QED
        BY <1>1, <3>1 DEF TellInv, InOrder
  <2>2. QED
      BY <1>2, <2>1 DEF TellInv, InOrder
<1>8. Apart'
  <2>1. \A i \in DOMAIN s : \E k \in DOMAIN q : s[i].ticket = q[k].ticket
      BY <1>1
  <2>2. QED
      BY <1>2, <2>1 DEF TellInv, Apart
<1>9. QED
    BY <1>5, <1>6, <1>7, <1>8 DEF TellInv

(* Each of the ways in which a pipeline is thinned.                         *)
LEMMA ThinnedTail ==
    ASSUME NEW S, NEW q \in Seq(S), q # << >>
    PROVE  Thinned(Tail(q), q)
<1> DEFINE f == [i \in DOMAIN Tail(q) |-> i + 1]
<1>1. /\ Len(q) \in Nat \ {0} /\ DOMAIN q = 1 .. Len(q) /\ DOMAIN Tail(q) = 1 .. Len(q) - 1
      /\ \A i \in 1 .. Len(q) - 1 : Tail(q)[i] = q[i + 1]
    OBVIOUS
<1>2. f \in [DOMAIN Tail(q) -> DOMAIN q]
    BY <1>1
<1>3. \A i \in DOMAIN Tail(q) : Tail(q)[i] = q[f[i]]
    BY <1>1
<1>4. \A i, j \in DOMAIN Tail(q) : i < j => f[i] < f[j]
    BY <1>1
<1>5. QED
    BY <1>2, <1>3, <1>4 DEF Thinned

LEMMA ThinnedInPlace ==
    ASSUME NEW s, NEW q, NEW n \in Nat, NEW m \in Nat,
           DOMAIN s = 1 .. n, DOMAIN q = 1 .. m, n <= m,
           \A i \in 1 .. n : s[i].ticket = q[i].ticket /\ (s[i].handler => q[i].handler)
    PROVE  Thinned(s, q)
<1> DEFINE f == [i \in 1 .. n |-> i]
<1>1. f \in [DOMAIN s -> DOMAIN q]
    OBVIOUS
<1>2. QED
    BY <1>1 DEF Thinned

LEMMA ThinnedTransitive ==
    ASSUME NEW r, NEW s, NEW q, Thinned(r, s), Thinned(s, q)
    PROVE  Thinned(r, q)
<1>1. PICK f \in [DOMAIN r -> DOMAIN s] : \A i \in DOMAIN r :
         /\ r[i].ticket = s[f[i]].ticket /\ (r[i].handler => s[f[i]].handler)
         /\ \A j \in DOMAIN r : i < j => f[i] < f[j]
    BY DEF Thinned
<1>2. PICK g \in [DOMAIN s -> DOMAIN q] : \A i \in DOMAIN s :
         /\ s[i].ticket = q[g[i]].ticket /\ (s[i].handler => q[g[i]].handler)
         /\ \A j \in DOMAIN s : i < j => g[i] < g[j]
    BY DEF Thinned
<1> DEFINE h == [i \in DOMAIN r |-> g[f[i]]]
<1>3. h \in [DOMAIN r -> DOMAIN q] /\ \A i \in DOMAIN r : f[i] \in DOMAIN s /\ h[i] = g[f[i]]
    OBVIOUS
<1>4. \A i \in DOMAIN r :
         /\ r[i].ticket = q[h[i]].ticket /\ (r[i].handler => q[h[i]].handler)
         /\ \A j \in DOMAIN r : i < j => h[i] < h[j]
    BY <1>1, <1>2, <1>3
<1> HIDE DEF h
<1>5. QED
    BY <1>3, <1>4 DEF Thinned

LEMMA ThinnedRemoveAt ==
    ASSUME NEW S, NEW q \in Seq(S), NEW i \in DOMAIN q
    PROVE  Thinned(RemoveAt(q, i), q)
<1> DEFINE s == RemoveAt(q, i)
           f == [j \in 1 .. Len(q) - 1 |-> IF j < i THEN j ELSE j + 1]
<1>1. i \in 1 .. Len(q) /\ Len(q) \in Nat /\ DOMAIN q = 1 .. Len(q)
    OBVIOUS
<1>2. s \in Seq(S) /\ Len(s) = Len(q) - 1
    BY RemoveAtStays
<1>3. \A j \in 1 .. Len(q) - 1 : s[j] = IF j < i THEN q[j] ELSE q[j + 1]
    BY RemoveAtStays
<1> HIDE DEF s
<1>4. DOMAIN s = 1 .. Len(q) - 1
    BY <1>2
<1>5. f \in [DOMAIN s -> DOMAIN q]
    BY <1>1, <1>4
<1>6. \A j \in DOMAIN s : s[j] = q[f[j]]
    BY <1>3, <1>4
<1>7. \A j, k \in DOMAIN s : j < k => f[j] < f[k]
    BY <1>1, <1>4
<1> HIDE DEF f
<1>8. Thinned(s, q)
    BY <1>5, <1>6, <1>7 DEF Thinned
<1>9. QED
    BY <1>8 DEF s

-----------------------------------------------------------------------------
(* The steps.  What touches neither a pipeline nor what was told.           *)
LEMMA TellingsStay ==
    ASSUME TellInv, UNCHANGED <<pipeline, calls, response, told>>
    PROVE  TellInv'
BY DEF TellInv, Ahead, Queued, InOrder, Apart

LEMMA TooLateTells ==
    ASSUME RequestsOK, TellInv, NEW c \in Connections, SubmitTooLate(c)
    PROVE  TellInv'
<1>1. /\ calls \in Nat /\ calls' = calls + 1 /\ UNCHANGED <<pipeline, response>>
      /\ told' = [told EXCEPT ![calls + 1] = Failure("CLIENT_SHUTDOWN", 0)]
    BY DEF RequestsOK, SubmitTooLate
<1>2. Tickets \subseteq Nat
    BY ApiConstantsOK DEF Tickets
<1>3. Ahead'
    BY <1>1, <1>2 DEF TellInv, Ahead
<1>4. \A d \in Connections : \A i \in DOMAIN pipeline[d] :
         /\ pipeline[d][i].ticket \in Nat /\ pipeline[d][i].ticket <= calls
         /\ told'[pipeline[d][i].ticket] = told[pipeline[d][i].ticket]
  <2>1. ASSUME NEW d \in Connections, NEW i \in DOMAIN pipeline[d]
        PROVE  /\ pipeline[d][i].ticket \in Nat /\ pipeline[d][i].ticket \in Tickets
               /\ pipeline[d][i].ticket <= calls
      BY PipelineOf DEF TellInv, Queued
  <2>2. QED
      BY <1>1, <2>1 DEF TellInv, Ahead
<1>5. Queued'
    BY <1>1, <1>4 DEF TellInv, Queued
<1>6. InOrder' /\ Apart'
    BY <1>1 DEF TellInv, InOrder, Apart
<1>7. QED
    BY <1>3, <1>5, <1>6 DEF TellInv

LEMMA SubmitTells ==
    ASSUME RequestsOK, TellInv, NEW c \in Connections, Submit(c)
    PROVE  TellInv'
<1> DEFINE t == calls + 1
           q == pipeline[c]
           s == pipeline'[c]
<1>1. t \in Tickets /\ calls \in Nat /\ calls' = t /\ UNCHANGED <<told, response>>
    BY ApiConstantsOK DEF RequestsOK, Submit, Tickets
<1>2. pipeline' = [pipeline EXCEPT ![c] = Append(@, [ticket |-> t, handler |-> TRUE])]
    BY DEF Submit
<1>3. /\ s = Append(q, [ticket |-> t, handler |-> TRUE])
      /\ \A d \in Connections : d # c => pipeline'[d] = pipeline[d]
    BY <1>2 DEF RequestsOK
<1>4. /\ Len(q) \in Nat /\ DOMAIN q = 1 .. Len(q) /\ DOMAIN s = 1 .. Len(q) + 1
      /\ \A i \in 1 .. Len(q) : s[i] = q[i]
      /\ s[Len(q) + 1].ticket = t /\ s[Len(q) + 1].handler = TRUE
    BY <1>3, PipelineOf, AppendProperties
<1>5. told[t] = NotYet /\ response[t] = NotYet
    BY <1>1 DEF TellInv, Ahead
<1>6. \A d \in Connections : \A i \in DOMAIN pipeline[d] :
         pipeline[d][i].ticket \in Nat /\ pipeline[d][i].ticket < t
    BY <1>1, PipelineOf DEF TellInv, Queued
<1>7. Tickets \subseteq Nat
    BY ApiConstantsOK DEF Tickets
<1> HIDE DEF q, s
<1>8. Ahead'
    BY <1>1, <1>7 DEF TellInv, Ahead
<1>9. Queued'
  <2>1. ASSUME NEW i \in DOMAIN s
        PROVE  s[i].ticket <= t /\ (s[i].handler => told[s[i].ticket] = NotYet)
    <3>1. CASE i = Len(q) + 1
        BY <1>1, <1>4, <1>5, <3>1
    <3>2. CASE i \in 1 .. Len(q)
        BY <1>1, <1>4, <1>6, <3>2 DEF TellInv, Queued, q
    <3>3. QED
        BY <1>4, <3>1, <3>2
  <2>2. ASSUME NEW d \in Connections, d # c, NEW i \in DOMAIN pipeline[d]
        PROVE  /\ pipeline[d][i].ticket <= t
               /\ pipeline[d][i].handler => told[pipeline[d][i].ticket] = NotYet
      BY <1>1, <1>6, <2>2 DEF TellInv, Queued
  <2>3. QED
      BY <1>1, <1>3, <2>1, <2>2 DEF Queued, s
<1>10. InOrder'
  <2>1. ASSUME NEW i \in DOMAIN s, NEW j \in DOMAIN s, i < j
        PROVE  /\ s[i].ticket < s[j].ticket
               /\ response[s[j].ticket] # NotYet => response[s[i].ticket] # NotYet
    <3>1. i \in 1 .. Len(q)
        BY <1>4, <2>1
    <3>2. CASE j = Len(q) + 1
        BY <1>4, <1>5, <1>6, <3>1, <3>2 DEF q
    <3>3. CASE j \in 1 .. Len(q)
        BY <1>4, <2>1, <3>1, <3>3 DEF TellInv, InOrder, q
    <3>4. QED
        BY <1>4, <3>2, <3>3
  <2>2. QED
      BY <1>1, <1>3, <2>1 DEF TellInv, InOrder, s
<1>11. Apart'
  <2>1. ASSUME NEW d \in Connections, d # c, NEW i \in DOMAIN s, NEW j \in DOMAIN pipeline[d]
        PROVE  s[i].ticket # pipeline[d][j].ticket
    <3>1. CASE i = Len(q) + 1
        BY <1>1, <1>4, <1>6, <3>1
    <3>2. CASE i \in 1 .. Len(q)
        BY <1>4, <2>1, <3>2 DEF TellInv, Apart, q
    <3>3. QED
        BY <1>4, <3>1, <3>2
  <2>2. QED
      BY <1>3, <2>1 DEF TellInv, Apart, s
<1>12. QED
    BY <1>8, <1>9, <1>10, <1>11 DEF TellInv

(* The drive answers the first call that it has not answered.               *)
LEMMA AnswerTells ==
    ASSUME RequestsOK, TellInv, NEW c \in Connections, DriveExecutes(c)
    PROVE  TellInv'
<1>1. PICK i \in Unanswered(c) :
         /\ \A j \in Unanswered(c) : i <= j
         /\ \E r : response' = [response EXCEPT ![pipeline[c][i].ticket] = r]
    BY DEF DriveExecutes
<1>2. UNCHANGED <<pipeline, calls, told>>
    BY DEF DriveExecutes, requests
<1> DEFINE q == pipeline[c]
           t == q[i].ticket
<1>3. i \in DOMAIN q /\ t \in Tickets /\ response[t] = NotYet
    BY <1>1, PipelineOf DEF Unanswered
<1>4. PICK r : response' = [response EXCEPT ![t] = r]
    BY <1>1
<1>5. DOMAIN response' = Tickets /\ \A u \in Tickets : u # t => response'[u] = response[u]
    BY <1>4 DEF TellInv, Ahead
<1>6. calls \in Nat /\ t \in Nat /\ t <= calls /\ Tickets \subseteq Nat
    BY <1>3, ApiConstantsOK DEF RequestsOK, TellInv, Queued, Tickets
<1>7. Ahead'
    BY <1>2, <1>5, <1>6 DEF TellInv, Ahead
<1>8. Queued' /\ Apart'
    BY <1>2 DEF TellInv, Queued, Apart
<1>9. ASSUME NEW j \in DOMAIN q, NEW k \in DOMAIN q, j < k
      PROVE  response'[q[k].ticket] # NotYet => response'[q[j].ticket] # NotYet
  <2>1. /\ i \in Nat /\ j \in Nat /\ k \in Nat
        /\ q[j].ticket \in Tickets /\ q[k].ticket \in Tickets
      BY <1>3, PipelineOf
  <2>2. response[q[k].ticket] # NotYet => response[q[j].ticket] # NotYet
      BY <1>9 DEF TellInv, InOrder
  <2>3. CASE j = i
    <3>1. q[k].ticket # t
        BY <1>3, <1>9, <2>1, <2>3, TicketsDiffer DEF TellInv
    <3>2. QED
        BY <1>3, <1>5, <2>1, <2>2, <2>3, <3>1
  <2>4. CASE k = i
    <3>1. q[j].ticket # t
        BY <1>3, <1>9, <2>1, <2>4, TicketsDiffer DEF TellInv
    <3>2. response[q[j].ticket] # NotYet
        BY <1>1, <1>9, <2>1, <2>4 DEF Unanswered
    <3>3. QED
        BY <1>5, <2>1, <3>1, <3>2
  <2>5. CASE j # i /\ k # i
    <3>1. q[j].ticket # t /\ q[k].ticket # t
        BY <1>3, <2>5, TicketsDiffer DEF TellInv
    <3>2. QED
        BY <1>5, <2>1, <2>2, <3>1
  <2>6. QED
      BY <2>3, <2>4, <2>5
<1>10. ASSUME NEW d \in Connections, d # c, NEW j \in DOMAIN pipeline[d]
       PROVE  response'[pipeline[d][j].ticket] = response[pipeline[d][j].ticket]
  <2>1. pipeline[d][j].ticket \in Tickets /\ pipeline[d][j].ticket # t
      BY <1>3, <1>10, PipelineOf DEF TellInv, Apart
  <2>2. QED
      BY <1>5, <2>1
<1>11. InOrder'
    BY <1>2, <1>9, <1>10 DEF TellInv, InOrder
<1>12. QED
    BY <1>7, <1>8, <1>11 DEF TellInv

LEMMA RemovalTells ==
    ASSUME RequestsOK, TellInv, NEW c \in Connections, NEW i \in DOMAIN pipeline[c],
           RemoveHandler(c, i)
    PROVE  TellInv'
<1> DEFINE q == pipeline[c]
<1>1. UNCHANGED <<calls, response, told>> /\ DOMAIN told' = Tickets
    BY DEF RemoveHandler, requests, TellInv, Ahead
<1>2. \A s : Thinned(s, q) /\ pipeline' = [pipeline EXCEPT ![c] = s] => TellInv'
    BY <1>1, ThinnedKeeps
<1>3. q \in Seq(Waiting) /\ Len(q) \in Nat /\ DOMAIN q = 1 .. Len(q)
    BY PipelineOf
<1>4. CASE i <= written[c]
  <2> DEFINE s == [q EXCEPT ![i] = [@ EXCEPT !.handler = FALSE]]
  <2>1. \A j \in 1 .. Len(q) :
           s[j].ticket = q[j].ticket /\ (s[j].handler => q[j].handler)
      BY <1>3, PipelineOf DEF Waiting
  <2>2. DOMAIN s = 1 .. Len(q)
      BY <1>3
  <2>3. pipeline' = [pipeline EXCEPT ![c] = s]
      BY <1>4 DEF RemoveHandler
  <2> HIDE DEF s
  <2>4. Thinned(s, q)
      BY <1>3, <2>1, <2>2, ThinnedInPlace
  <2>5. QED
      BY <1>2, <2>3, <2>4
<1>5. CASE ~ (i <= written[c])
  <2>1. pipeline' = [pipeline EXCEPT ![c] = RemoveAt(q, i)]
      BY <1>5 DEF RemoveHandler
  <2>2. QED
      BY <1>2, <1>3, <2>1, ThinnedRemoveAt
<1>6. QED
    BY <1>4, <1>5

(* The head of a pipeline is told, and the others are other calls.          *)
LEMMA CallbackTells ==
    ASSUME RequestsOK, TellInv, NEW c \in Connections, Callback(c)
    PROVE  TellInv'
<1> DEFINE q == pipeline[c]
           t == Head(q).ticket
<1>1. /\ q # << >> /\ pipeline' = [pipeline EXCEPT ![c] = Tail(q)]
      /\ UNCHANGED <<calls, response>>
  <2>1. Len(q) > 0 /\ q \in Seq(Waiting)
      BY PipelineOf DEF Callback, RequestsOK
  <2>2. QED
      BY <2>1 DEF Callback, requests
<1>2. UNCHANGED told \/ \E heard : told' = [told EXCEPT ![t] = heard]
    BY DEF Callback
<1>3. /\ q \in Seq(Waiting) /\ Len(q) \in Nat \ {0} /\ DOMAIN q = 1 .. Len(q)
      /\ Head(q) = q[1] /\ 1 \in DOMAIN q
      /\ DOMAIN Tail(q) = 1 .. Len(q) - 1
      /\ \A i \in 1 .. Len(q) - 1 : Tail(q)[i] = q[i + 1]
    BY <1>1, PipelineOf
<1>4. Thinned(Tail(q), q)
    BY <1>1, <1>3, ThinnedTail
<1>5. DOMAIN told' = Tickets /\ \A u \in Tickets : told'[u] # told[u] => u = t
    BY <1>2 DEF TellInv, Ahead
<1>6. \A i \in DOMAIN Tail(q) : Tail(q)[i].ticket # t
  <2>1. ASSUME NEW i \in 1 .. Len(q) - 1, q[i + 1].ticket = q[1].ticket
        PROVE  FALSE
    <3>1. i + 1 \in DOMAIN q /\ i + 1 # 1
        BY <1>3
    <3>2. QED
        BY <1>3, <2>1, <3>1, TicketsDiffer DEF TellInv
  <2>2. QED
      BY <1>3, <2>1
<1>7. \A u \in Tickets : told'[u] # told[u] =>
         /\ \E i \in DOMAIN q : q[i].ticket = u
         /\ \A i \in DOMAIN Tail(q) : Tail(q)[i].ticket = u => ~ Tail(q)[i].handler
    BY <1>3, <1>5, <1>6
<1>8. QED
    BY <1>1, <1>4, <1>5, <1>7, ThinnedKeeps

(* Whoever is told of a failure loses its handler.                          *)
LEMMA ErrorsTell ==
    ASSUME NEW c, NEW is, NEW status, DOMAIN told = Tickets, TellError(Untold(c, is), status)
    PROVE  /\ DOMAIN told' = Tickets
           /\ \A t \in Tickets : told'[t] # told[t] => \E i \in is : pipeline[c][i].ticket = t
BY DEF TellError, Untold

LEMMA ToldAreForgotten ==
    ASSUME RequestsOK, TellInv, NEW c \in Connections, NEW s, Thinned(s, pipeline[c]),
           NEW is \in SUBSET DOMAIN pipeline[c], NEW status,
           TellError(Untold(c, is), status),
           \A i \in is, j \in DOMAIN s :
               s[j].ticket = pipeline[c][i].ticket => ~ s[j].handler,
           pipeline' = [pipeline EXCEPT ![c] = s], UNCHANGED <<calls, response>>
    PROVE  TellInv'
<1>1. /\ DOMAIN told' = Tickets
      /\ \A t \in Tickets : told'[t] # told[t] => \E i \in is : pipeline[c][i].ticket = t
    BY ErrorsTell DEF TellInv, Ahead
<1>2. \A t \in Tickets : told'[t] # told[t] =>
         /\ \E i \in DOMAIN pipeline[c] : pipeline[c][i].ticket = t
         /\ \A j \in DOMAIN s : s[j].ticket = t => ~ s[j].handler
    BY <1>1
<1>3. QED
    BY <1>1, <1>2, ThinnedKeeps

(* The receiver's handlers are told and forgotten.                          *)
LEMMA ReceiversForgotten ==
    ASSUME RequestsOK, TellInv, NEW c \in Connections
    PROVE  LET q == pipeline[c]
               s == WithoutHandlers(q, written[c])
           IN /\ s \in Seq(Waiting) /\ Len(s) = Len(q) /\ DOMAIN s = 1 .. Len(q)
              /\ Thinned(s, q)
              /\ \A j \in DOMAIN s : s[j].ticket = q[j].ticket
              /\ \A i \in InReceiver(c), j \in DOMAIN s :
                    s[j].ticket = q[i].ticket => ~ s[j].handler
<1> DEFINE q == pipeline[c]
           w == written[c]
           s == WithoutHandlers(q, w)
<1>1. /\ q \in Seq(Waiting) /\ Len(q) \in Nat /\ DOMAIN q = 1 .. Len(q)
      /\ w \in Nat /\ w <= Len(q)
    BY PipelineOf DEF RequestsOK
<1>2. /\ s \in Seq(Waiting) /\ Len(s) = Len(q)
      /\ \A j \in 1 .. Len(q) :
            s[j].ticket = q[j].ticket /\ (s[j].handler => q[j].handler /\ j > w)
    BY <1>1, WithoutHandlersStays
<1> HIDE DEF s
<1>3. DOMAIN s = 1 .. Len(q) /\ Len(q) <= Len(q)
    BY <1>1, <1>2
<1>4. Thinned(s, q)
    BY <1>1, <1>2, <1>3, ThinnedInPlace
<1>5. ASSUME NEW i \in 1 .. w, NEW j \in 1 .. Len(q), q[j].ticket = q[i].ticket
      PROVE  ~ s[j].handler
  <2>1. i \in DOMAIN q /\ j \in DOMAIN q
      BY <1>1
  <2>2. j = i
      BY <1>5, <2>1, TicketsDiffer DEF TellInv
  <2>3. ~ (j > w)
      BY <1>1, <2>2
  <2>4. QED
      BY <1>2, <2>3
<1>6. QED
    BY <1>2, <1>3, <1>4, <1>5 DEF s, InReceiver

LEMMA DamageTells ==
    ASSUME RequestsOK, TellInv, NEW c \in Connections, DamagedResponse(c)
    PROVE  TellInv'
<1> DEFINE q == pipeline[c]
           s == WithoutHandlers(q, written[c])
<1>1. /\ TellError(Untold(c, InReceiver(c)), "CLIENT_RESPONSE_HMAC_VERIFICATION_ERROR")
      /\ pipeline' = [pipeline EXCEPT ![c] = Tail(s)]
      /\ UNCHANGED <<calls, response>> /\ written[c] > 0
    BY DEF DamagedResponse, requests
<1>2. /\ q \in Seq(Waiting) /\ Len(q) \in Nat /\ DOMAIN q = 1 .. Len(q)
      /\ written[c] \in Nat /\ written[c] <= Len(q)
    BY PipelineOf DEF RequestsOK
<1>3. /\ s \in Seq(Waiting) /\ Len(s) = Len(q) /\ DOMAIN s = 1 .. Len(q) /\ Thinned(s, q)
      /\ \A i \in InReceiver(c), j \in DOMAIN s :
            s[j].ticket = q[i].ticket => ~ s[j].handler
    BY ReceiversForgotten
<1> HIDE DEF s
<1>4. s # << >>
    BY <1>1, <1>2, <1>3
<1>5. /\ Thinned(Tail(s), q)
      /\ \A j \in DOMAIN Tail(s) : j + 1 \in DOMAIN s /\ Tail(s)[j] = s[j + 1]
    BY <1>3, <1>4, ThinnedTail, ThinnedTransitive
<1>6. \A i \in InReceiver(c), j \in DOMAIN Tail(s) :
         Tail(s)[j].ticket = q[i].ticket => ~ Tail(s)[j].handler
    BY <1>3, <1>5
<1>7. InReceiver(c) \in SUBSET DOMAIN q
    BY <1>2 DEF InReceiver
<1>8. QED
    BY <1>1, <1>5, <1>6, <1>7, ToldAreForgotten

(* What only one half tells, the other does not have.                       *)
LEMMA SendFailureTells ==
    ASSUME RequestsOK, TellInv, NEW c \in Connections, SendFails(c)
    PROVE  TellInv'
<1> DEFINE q == pipeline[c]
           w == written[c]
           s == SubSeq(q, 1, w)
<1>1. /\ TellError(Untold(c, InSender(c)), "CLIENT_IO_ERROR")
      /\ pipeline' = [pipeline EXCEPT ![c] = s] /\ UNCHANGED <<calls, response>>
    BY DEF SendFails, requests
<1>2. /\ q \in Seq(Waiting) /\ Len(q) \in Nat /\ DOMAIN q = 1 .. Len(q)
      /\ w \in Nat /\ w <= Len(q)
    BY PipelineOf DEF RequestsOK
<1>3. s \in Seq(Waiting) /\ Len(s) = w /\ \A j \in 1 .. w : s[j] = q[j]
    BY <1>2, PrefixStays
<1> HIDE DEF s
<1>4. DOMAIN s = 1 .. w
    BY <1>2, <1>3
<1>5. Thinned(s, q)
    BY <1>2, <1>3, <1>4, ThinnedInPlace
<1>6. InSender(c) \in SUBSET DOMAIN q
    BY <1>2 DEF InSender
<1>7. ASSUME NEW i \in InSender(c), NEW j \in DOMAIN s, s[j].ticket = q[i].ticket
      PROVE  ~ s[j].handler
  <2>1. i \in DOMAIN q /\ j \in DOMAIN q /\ j < i /\ q[j].ticket = q[i].ticket
      BY <1>2, <1>3, <1>4, <1>7 DEF InSender
  <2>2. j = i
      BY <2>1, TicketsDiffer DEF TellInv
  <2>3. QED
      BY <1>2, <2>1, <2>2
<1>8. QED
    BY <1>1, <1>5, <1>6, <1>7, ToldAreForgotten

LEMMA ReceiveFailureTells ==
    ASSUME RequestsOK, TellInv, NEW c \in Connections, ReceiveFails(c)
    PROVE  TellInv'
<1>1. /\ TellError(Untold(c, InReceiver(c)), "CLIENT_IO_ERROR")
      /\ pipeline' = [pipeline EXCEPT ![c] = WithoutHandlers(pipeline[c], written[c])]
      /\ UNCHANGED <<calls, response>>
    BY DEF ReceiveFails, requests
<1>2. /\ DOMAIN pipeline[c] = 1 .. Len(pipeline[c]) /\ Len(pipeline[c]) \in Nat
      /\ written[c] \in Nat /\ written[c] <= Len(pipeline[c])
    BY PipelineOf DEF RequestsOK
<1>3. InReceiver(c) \in SUBSET DOMAIN pipeline[c]
    BY <1>2 DEF InReceiver
<1>4. QED
    BY <1>1, <1>3, ReceiversForgotten, ToldAreForgotten

LEMMA DestructionTells ==
    ASSUME RequestsOK, TellInv, NEW c \in Connections, Destroy(c)
    PROVE  TellInv'
<1> DEFINE q == pipeline[c]
           w == written[c]
           r == WithoutHandlers(q, w)
           s == SubSeq(r, 1, w)
<1>1. PICK is \in SUBSET DOMAIN q : TellError(Untold(c, is), "CLIENT_SHUTDOWN")
    BY DEF Destroy
<1>2. pipeline' = [pipeline EXCEPT ![c] = s] /\ UNCHANGED <<calls, response>>
    BY DEF Destroy, requests
<1>3. /\ q \in Seq(Waiting) /\ Len(q) \in Nat /\ DOMAIN q = 1 .. Len(q)
      /\ w \in Nat /\ w <= Len(q)
    BY PipelineOf DEF RequestsOK
<1>4. /\ r \in Seq(Waiting) /\ Len(r) = Len(q) /\ Thinned(r, q)
      /\ \A j \in 1 .. w : ~ r[j].handler
  <2>1. /\ r \in Seq(Waiting) /\ Len(r) = Len(q)
        /\ \A j \in 1 .. Len(q) : r[j].handler => j > w
      BY <1>3, WithoutHandlersStays
  <2>2. Thinned(r, q)
      BY ReceiversForgotten
  <2>3. QED
      BY <1>3, <2>1, <2>2
<1> HIDE DEF r
<1>5. s \in Seq(Waiting) /\ Len(s) = w /\ \A j \in 1 .. w : s[j] = r[j]
    BY <1>3, <1>4, PrefixStays
<1> HIDE DEF s
<1>6. DOMAIN s = 1 .. w /\ DOMAIN r = 1 .. Len(r)
    BY <1>3, <1>4, <1>5
<1>7. Thinned(s, q)
  <2>1. Thinned(s, r)
      BY <1>3, <1>4, <1>5, <1>6, ThinnedInPlace
  <2>2. QED
      BY <1>4, <2>1, ThinnedTransitive
<1>8. \A j \in DOMAIN s : ~ s[j].handler
    BY <1>4, <1>5, <1>6
<1>9. QED
    BY <1>1, <1>2, <1>7, <1>8, ToldAreForgotten

LEMMA TellInitially == ASSUME Init PROVE TellInv
<1>1. \A c \in Connections : DOMAIN pipeline[c] = {}
    BY DEF Init
<1>2. QED
    BY <1>1 DEF Init, TellInv, Ahead, Queued, InOrder, Apart

LEMMA TellStep == ASSUME RequestsOK, TellInv, [Next]_vars PROVE TellInv'
<1>1. ASSUME NEW c \in Connections,
             \/ Connect(c) \/ SendWrites(c)
             \/ \E version \in ClusterVersions : SetClientClusterVersion(c, version)
      PROVE  TellInv'
    BY <1>1, TellingsStay DEF Connect, SendWrites, SetClientClusterVersion, requests
<1>2. ASSUME NEW k \in Keys, DriveWritesBack(k)
      PROVE  TellInv'
    BY <1>2, TellingsStay DEF DriveWritesBack, requests
<1>3. CASE DriveCrashes
    BY <1>3, TellingsStay DEF DriveCrashes, requests
<1>4. CASE UNCHANGED vars
    BY <1>4, TellingsStay DEF vars
<1>5. QED
    BY <1>1, <1>2, <1>3, <1>4, SubmitTells, TooLateTells, AnswerTells, CallbackTells,
       DamageTells, SendFailureTells, ReceiveFailureTells, DestructionTells, RemovalTells
       DEF Next

(* What the drive has answered was written.                                 *)
Arrived ==
    \A c \in Connections : \A i \in DOMAIN pipeline[c] :
        response[pipeline[c][i].ticket] # NotYet => i <= written[c]

LEMMA ArrivedStays ==
    ASSUME Arrived, UNCHANGED <<pipeline, written, response>>
    PROVE  Arrived'
BY DEF Arrived

LEMMA ArrivedThinned ==
    ASSUME RequestsOK, Arrived, NEW c \in Connections, NEW s, NEW n,
           \A j \in DOMAIN s : response[s[j].ticket] # NotYet => j <= n,
           pipeline' = [pipeline EXCEPT ![c] = s], written' = [written EXCEPT ![c] = n],
           UNCHANGED response
    PROVE  Arrived'
BY DEF Arrived, RequestsOK

LEMMA AnswersArrived ==
    ASSUME RequestsOK, TellInv, Arrived, NEW c \in Connections, DriveExecutes(c)
    PROVE  Arrived'
<1>1. PICK i \in DOMAIN pipeline[c] :
         /\ i <= written[c]
         /\ \E r : response' = [response EXCEPT ![pipeline[c][i].ticket] = r]
    BY DEF DriveExecutes, Unanswered
<1>2. UNCHANGED <<pipeline, written>>
    BY DEF DriveExecutes
<1> DEFINE t == pipeline[c][i].ticket
<1>3. \A u : u # t => response'[u] = response[u]
    BY <1>1
<1>4. ASSUME NEW d \in Connections, NEW j \in DOMAIN pipeline[d],
             response'[pipeline[d][j].ticket] # NotYet
      PROVE  j <= written[d]
  <2>1. CASE pipeline[d][j].ticket = t
    <3>1. d = c
        BY <2>1 DEF TellInv, Apart
    <3>2. j = i
        BY <2>1, <3>1, TicketsDiffer DEF TellInv
    <3>3. QED
        BY <1>1, <3>1, <3>2
  <2>2. CASE pipeline[d][j].ticket # t
      BY <1>3, <1>4, <2>2 DEF Arrived
  <2>3. QED
      BY <2>1, <2>2
<1>5. QED
    BY <1>2, <1>4 DEF Arrived

LEMMA SubmitArrived ==
    ASSUME RequestsOK, TellInv, Arrived, NEW c \in Connections, Submit(c)
    PROVE  Arrived'
<1> DEFINE t == calls + 1
           q == pipeline[c]
           s == Append(q, [ticket |-> t, handler |-> TRUE])
<1>1. /\ pipeline' = [pipeline EXCEPT ![c] = s] /\ UNCHANGED <<written, response>>
      /\ t \in Tickets /\ t > calls
    BY ApiConstantsOK DEF Submit, RequestsOK, Tickets
<1>2. response[t] = NotYet
    BY <1>1 DEF TellInv, Ahead
<1>3. /\ Len(q) \in Nat /\ DOMAIN q = 1 .. Len(q) /\ DOMAIN s = 1 .. Len(q) + 1
      /\ \A i \in 1 .. Len(q) : s[i] = q[i]
      /\ s[Len(q) + 1].ticket = t
    BY PipelineOf, AppendProperties
<1> HIDE DEF s, t
<1>4. \A j \in DOMAIN s : response[s[j].ticket] # NotYet => j <= written[c]
  <2>1. ASSUME NEW j \in 1 .. Len(q), response[s[j].ticket] # NotYet
        PROVE  j <= written[c]
      BY <1>3, <2>1 DEF Arrived
  <2>2. \A j \in DOMAIN s : j = Len(q) + 1 \/ j \in 1 .. Len(q)
      BY <1>3
  <2>3. QED
      BY <1>2, <1>3, <2>1, <2>2
<1>5. written' = [written EXCEPT ![c] = written[c]]
    BY <1>1 DEF RequestsOK
<1>6. QED
    BY <1>1, <1>4, <1>5, ArrivedThinned

LEMMA RemovalArrived ==
    ASSUME RequestsOK, TellInv, Arrived, NEW c \in Connections, NEW i \in DOMAIN pipeline[c],
           RemoveHandler(c, i)
    PROVE  Arrived'
<1> DEFINE q == pipeline[c]
           w == written[c]
<1>1. /\ q \in Seq(Waiting) /\ Len(q) \in Nat /\ DOMAIN q = 1 .. Len(q)
      /\ w \in Nat /\ w <= Len(q) /\ written = [written EXCEPT ![c] = w]
    BY PipelineOf DEF RequestsOK
<1>2. UNCHANGED <<written, response>>
    BY DEF RemoveHandler
<1>3. ASSUME NEW s, \A j \in DOMAIN s : response[s[j].ticket] # NotYet => j <= w,
             pipeline' = [pipeline EXCEPT ![c] = s]
      PROVE  Arrived'
    BY <1>1, <1>2, <1>3, ArrivedThinned
<1>4. \A j \in 1 .. Len(q) : response[q[j].ticket] # NotYet => j <= w
    BY <1>1 DEF Arrived
<1>5. CASE i <= w
  <2> DEFINE s == [q EXCEPT ![i] = [@ EXCEPT !.handler = FALSE]]
  <2>1. \A j \in 1 .. Len(q) : s[j].ticket = q[j].ticket
      BY <1>1, PipelineOf DEF Waiting
  <2>2. DOMAIN s = 1 .. Len(q)
      BY <1>1
  <2>3. pipeline' = [pipeline EXCEPT ![c] = s]
      BY <1>5 DEF RemoveHandler
  <2> HIDE DEF s
  <2>4. QED
      BY <1>3, <1>4, <2>1, <2>2, <2>3
<1>6. CASE ~ (i <= w)
  <2> DEFINE s == RemoveAt(q, i)
  <2>1. /\ s \in Seq(Waiting) /\ Len(s) = Len(q) - 1
        /\ \A j \in 1 .. Len(q) - 1 : s[j] = IF j < i THEN q[j] ELSE q[j + 1]
      BY <1>1, RemoveAtStays
  <2>2. pipeline' = [pipeline EXCEPT ![c] = s]
      BY <1>6 DEF RemoveHandler
  <2> HIDE DEF s
  <2>3. DOMAIN s = 1 .. Len(q) - 1
      BY <2>1
  <2>4. ASSUME NEW j \in 1 .. Len(q) - 1, response[s[j].ticket] # NotYet
        PROVE  j <= w
    <3>1. CASE j < i
        BY <1>4, <2>1, <2>4, <3>1
    <3>2. CASE ~ (j < i)
      <4>1. j + 1 \in 1 .. Len(q) /\ response[q[j + 1].ticket] # NotYet
          BY <1>1, <2>1, <2>4, <3>2
      <4>2. QED
          BY <1>1, <1>4, <4>1
    <3>3. QED
        BY <3>1, <3>2
  <2>5. QED
      BY <1>3, <2>2, <2>3, <2>4
<1>7. QED
    BY <1>5, <1>6

LEMMA ReadingArrived ==
    ASSUME RequestsOK, Arrived, NEW c \in Connections, Callback(c) \/ DamagedResponse(c)
    PROVE  Arrived'
<1> DEFINE q == pipeline[c]
           w == written[c]
<1>1. /\ q \in Seq(Waiting) /\ Len(q) \in Nat /\ DOMAIN q = 1 .. Len(q)
      /\ w \in Nat /\ w <= Len(q) /\ w > 0
    BY PipelineOf DEF RequestsOK, Callback, DamagedResponse
<1>2. PICK s \in {q, WithoutHandlers(q, w)} : pipeline' = [pipeline EXCEPT ![c] = Tail(s)]
    BY DEF Callback, DamagedResponse
<1>3. /\ s \in Seq(Waiting) /\ Len(s) = Len(q)
      /\ \A j \in 1 .. Len(q) : s[j].ticket = q[j].ticket
    BY <1>1, <1>2, WithoutHandlersStays
<1>4. s # << >>
    BY <1>1, <1>3
<1>5. /\ DOMAIN Tail(s) = 1 .. Len(q) - 1
      /\ \A j \in 1 .. Len(q) - 1 : Tail(s)[j] = s[j + 1]
    BY <1>1, <1>3, <1>4, TailStays
<1>6. ASSUME NEW j \in 1 .. Len(q) - 1, response[Tail(s)[j].ticket] # NotYet
      PROVE  j <= w - 1
  <2>1. j + 1 \in 1 .. Len(q) /\ response[q[j + 1].ticket] # NotYet
      BY <1>1, <1>3, <1>5, <1>6
  <2>2. j + 1 <= w
      BY <1>1, <2>1 DEF Arrived
  <2>3. QED
      BY <1>1, <2>2
<1>7. written' = [written EXCEPT ![c] = w - 1] /\ UNCHANGED response
    BY DEF Callback, DamagedResponse
<1>8. QED
    BY <1>2, <1>5, <1>6, <1>7, ArrivedThinned

LEMMA FailureArrived ==
    ASSUME RequestsOK, Arrived, NEW c \in Connections,
           SendFails(c) \/ ReceiveFails(c) \/ Destroy(c)
    PROVE  Arrived'
<1> DEFINE q == pipeline[c]
           w == written[c]
           r == WithoutHandlers(q, w)
<1>1. /\ q \in Seq(Waiting) /\ Len(q) \in Nat /\ DOMAIN q = 1 .. Len(q)
      /\ w \in Nat /\ w <= Len(q) /\ written = [written EXCEPT ![c] = w]
    BY PipelineOf DEF RequestsOK
<1>2. /\ r \in Seq(Waiting) /\ Len(r) = Len(q)
      /\ \A j \in 1 .. Len(q) : r[j].ticket = q[j].ticket
    BY <1>1, WithoutHandlersStays
<1>3. PICK s \in {SubSeq(q, 1, w), r, SubSeq(r, 1, w)} :
         pipeline' = [pipeline EXCEPT ![c] = s]
    BY DEF SendFails, ReceiveFails, Destroy
<1> HIDE DEF r
<1>4. \A j \in DOMAIN s : j \in DOMAIN q /\ s[j].ticket = q[j].ticket
  <2>1. \A p \in {q, r} : /\ DOMAIN SubSeq(p, 1, w) = 1 .. w
                          /\ \A j \in 1 .. w : SubSeq(p, 1, w)[j] = p[j]
      BY <1>1, <1>2, PrefixStays
  <2>2. DOMAIN r = 1 .. Len(q)
      BY <1>1, <1>2
  <2>3. QED
      BY <1>1, <1>2, <1>3, <2>1, <2>2
<1>5. \A j \in DOMAIN s : response[s[j].ticket] # NotYet => j <= w
    BY <1>4 DEF Arrived
<1>6. UNCHANGED <<written, response>>
    BY DEF SendFails, ReceiveFails, Destroy
<1>7. written' = [written EXCEPT ![c] = w]
    BY <1>1, <1>6
<1>8. QED
    BY <1>3, <1>5, <1>6, <1>7, ArrivedThinned

LEMMA ArrivedStep == ASSUME RequestsOK, TellInv, Arrived, [Next]_vars PROVE Arrived'
<1>1. ASSUME NEW c \in Connections,
             \/ Connect(c) \/ SubmitTooLate(c)
             \/ \E version \in ClusterVersions : SetClientClusterVersion(c, version)
      PROVE  Arrived'
    BY <1>1, ArrivedStays DEF Connect, SubmitTooLate, SetClientClusterVersion
<1>2. ASSUME NEW c \in Connections, SendWrites(c)
      PROVE  Arrived'
  <2>1. UNCHANGED <<pipeline, response>> /\ \A d \in Connections : written'[d] >= written[d]
      BY <1>2 DEF SendWrites, RequestsOK
  <2>2. \A d \in Connections : /\ written[d] \in Nat /\ written'[d] \in Nat
                               /\ \A i \in DOMAIN pipeline[d] : i \in Nat
      BY <1>2, PipelineOf DEF SendWrites, RequestsOK
  <2>3. QED
      BY <2>1, <2>2 DEF Arrived
<1>3. ASSUME NEW k \in Keys, DriveWritesBack(k)
      PROVE  Arrived'
    BY <1>3, ArrivedStays DEF DriveWritesBack
<1>4. CASE DriveCrashes
    BY <1>4, ArrivedStays DEF DriveCrashes
<1>5. CASE UNCHANGED vars
    BY <1>5, ArrivedStays DEF vars
<1>6. QED
    BY <1>1, <1>2, <1>3, <1>4, <1>5, SubmitArrived, AnswersArrived, RemovalArrived,
       ReadingArrived, FailureArrived DEF Next

(* No callback is told twice, whichever half of a connection fails, whoever *)
(* removes handlers before or after that, and when the connection is        *)
(* destroyed: a call whose handler is still there was told nothing, calls   *)
(* wait in the order in which they were made, and what is answered is the   *)
(* receiver's.                                                              *)
THEOREM CallbacksToldOnce == Spec => []ToldOnce
<1> DEFINE Inv == ClientInv /\ TellInv /\ Arrived
<1>1. Init => Inv
  <2>1. Init => \A c \in Connections : DOMAIN pipeline[c] = {}
      BY DEF Init
  <2>2. QED
      BY <2>1, ClientInitially, TellInitially DEF Arrived
<1>2. Inv /\ [Next]_vars => Inv'
    BY ClientStep, TellStep, ArrivedStep DEF ClientInv
<1>3. Inv => ToldOnce
  <2> SUFFICES ASSUME Inv, NEW c \in Connections
               PROVE  /\ written[c] <= Len(pipeline[c])
                      /\ \A i \in DOMAIN pipeline[c] :
                            /\ pipeline[c][i].ticket \in 1 .. calls
                            /\ asked[pipeline[c][i].ticket] # NotYet
                            /\ pipeline[c][i].handler => told[pipeline[c][i].ticket] = NotYet
                            /\ response[pipeline[c][i].ticket] # NotYet => i <= written[c]
                            /\ \A j \in i + 1 .. Len(pipeline[c]) :
                                  /\ pipeline[c][i].ticket < pipeline[c][j].ticket
                                  /\ response[pipeline[c][j].ticket] # NotYet =>
                                        response[pipeline[c][i].ticket] # NotYet
      BY DEF ToldOnce
  <2>1. RequestsOK /\ calls \in Nat /\ written[c] <= Len(pipeline[c])
      BY DEF ClientInv, RequestsOK
  <2>2. ASSUME NEW i \in DOMAIN pipeline[c]
        PROVE  /\ pipeline[c][i].ticket \in 1 .. calls
               /\ asked[pipeline[c][i].ticket] # NotYet
               /\ \A j \in i + 1 .. Len(pipeline[c]) : j \in DOMAIN pipeline[c] /\ i < j
    <3>1. /\ pipeline[c][i].ticket \in Tickets /\ i \in Nat
          /\ Len(pipeline[c]) \in Nat /\ DOMAIN pipeline[c] = 1 .. Len(pipeline[c])
        BY <2>1, PipelineOf
    <3>2. pipeline[c][i].ticket \in 1 .. calls
        BY <2>1, <3>1, ApiConstantsOK DEF TellInv, Queued, Tickets
    <3>3. asked[pipeline[c][i].ticket] # NotYet
        BY <2>1, WaitingCalls DEF Carried
    <3>4. QED
        BY <3>1, <3>2, <3>3
  <2>3. QED
      BY <2>1, <2>2 DEF TellInv, Queued, InOrder, Arrived
<1>4. QED
    BY <1>1, <1>2, <1>3, PTL DEF Spec

-----------------------------------------------------------------------------
(* The client keeps what AtomicStore promises.  The steps that matter are   *)
(* the drive's: what it does with a command and what a handler makes of its *)
(* response are, call by call, what the interface promises.                 *)

(* A drive's r, the state after a command and the response, is what the     *)
(* promise o says of the call.                                              *)
Renders(op, r, o) == r[1] = o[1] /\ Heard(op, r[2]) = o[2] /\ r[2] # NotYet

(* The vocabulary is the same on both sides.                                *)
LEMMA SameAnswers ==
    /\ Promise!Told = Told /\ Promise!NotYet = NotYet /\ Promise!Sections = Sections
    /\ \A status, n : Promise!Failure(status, n) = Failure(status, n)
<1>1. Promise!Told = Told /\ Promise!NotYet = NotYet /\ Promise!Sections = Sections
    BY DEF Promise!Told, Told, Promise!NotYet, NotYet, Promise!Sections, Sections, Promise!Empty,
           Empty, Promise!NoKey, NoKey
<1>2. QED
    BY <1>1 DEF Promise!Failure, Failure

LEMMA SameChanges ==
    /\ \A d, k, version, value : Promise!Store(d, k, version, value) = Store(d, k, version, value)
    /\ \A d, k : Promise!Drop(d, k) = Drop(d, k)
    /\ \A d : Promise!Erase(d) = Erase(d)
    /\ \A d, ks : Promise!Persist(d, ks) = Persist(d, ks)
<1>1. Promise!Nothing = Nothing
    BY DEF Promise!Nothing, Nothing, Promise!Empty, Empty
<1>2. \A d, k, version, value : Promise!Store(d, k, version, value) = Store(d, k, version, value)
    BY DEF Promise!Store, Store
<1>3. \A d, k : Promise!Drop(d, k) = Drop(d, k)
    BY <1>1 DEF Promise!Drop, Drop
<1>4. \A d : Promise!Erase(d) = Erase(d)
    BY <1>1 DEF Promise!Erase, Erase
<1>5. \A d, ks : Promise!Persist(d, ks) = Persist(d, ks)
    BY DEF Promise!Persist, Persist
<1>6. QED
    BY <1>2, <1>3, <1>4, <1>5

LEMMA SameQuestions ==
    /\ \A s, k : Promise!Has(s, k) = Has(s, k)
    /\ \A d, k : Promise!NextKeys(d, k) = NextKeys(d, k)
    /\ \A d, k : Promise!PreviousKeys(d, k) = PreviousKeys(d, k)
    /\ \A k, s, si, e, ei : Promise!Within(k, s, si, e, ei) = Within(k, s, si, e, ei)
    /\ \A ks, reverse, max : Promise!FirstOf(ks, reverse, max) = FirstOf(ks, reverse, max)
    /\ \A d, pushes : Promise!PushAll(d, pushes) = PushAll(d, pushes)
    /\ \A acls : Promise!Grants(acls) = Grants(acls)
<1>1. \A s, k : Promise!Has(s, k) = Has(s, k)
    BY DEF Promise!Has, Has
<1>2. \A d, k : Promise!NextKeys(d, k) = NextKeys(d, k)
    BY DEF Promise!NextKeys, NextKeys, Promise!Has, Has
<1>3. \A d, k : Promise!PreviousKeys(d, k) = PreviousKeys(d, k)
    BY DEF Promise!PreviousKeys, PreviousKeys, Promise!Has, Has
<1>4. \A k, s, si, e, ei : Promise!Within(k, s, si, e, ei) = Within(k, s, si, e, ei)
    BY DEF Promise!Within, Within
<1>5. \A ks, reverse, max : Promise!FirstOf(ks, reverse, max) = FirstOf(ks, reverse, max)
    BY Zenon DEF Promise!FirstOf, FirstOf
<1>6. \A d, pushes : Promise!PushAll(d, pushes) = PushAll(d, pushes)
    BY Zenon DEF Promise!PushAll, PushAll, Promise!Has, Has
<1>7. \A acls : Promise!Grants(acls) = Grants(acls)
    BY Zenon DEF Promise!Grants, Grants
<1>8. QED
    BY <1>1, <1>2, <1>3, <1>4, <1>5, <1>6, <1>7

LEMMA StatusOfCode ==
    /\ ConvertFromProtoStatus("NOT_FOUND") = "REMOTE_NOT_FOUND"
    /\ ConvertFromProtoStatus("VERSION_MISMATCH") = "REMOTE_VERSION_MISMATCH"
    /\ ConvertFromProtoStatus("NOT_AUTHORIZED") = "REMOTE_NOT_AUTHORIZED"
    /\ ConvertFromProtoStatus("VERSION_FAILURE") = "REMOTE_CLUSTER_VERSION_MISMATCH"
    /\ ConvertFromProtoStatus("NESTED_OPERATION_ERRORS") = "REMOTE_NESTED_OPERATION_ERRORS"
    /\ ConvertFromProtoStatus("DEVICE_LOCKED") = "REMOTE_OTHER_ERROR"
    /\ ConvertFromProtoStatus("SUCCESS") = "OK"
BY DEF ConvertFromProtoStatus, CodeTable

LEMMA RepliesCame ==
    ASSUME NEW code, NEW f, NEW v
    PROVE  /\ Fails(code) # NotYet /\ Reply # NotYet
           /\ [Reply EXCEPT ![f] = v] # NotYet
           /\ [Fails(code) EXCEPT ![f] = v] # NotYet
BY DEF Fails, Reply, NotYet

LEMMA FailureRenders ==
    ASSUME NEW d, NEW op, NEW code, code # "SUCCESS",
           ConvertFromProtoStatus(code) # "REMOTE_CLUSTER_VERSION_MISMATCH"
    PROVE  Renders(op, <<d, Fails(code)>>, <<d, Failure(ConvertFromProtoStatus(code), 0)>>)
<1>1. Fails(code).code = code
    BY DEF Fails, Reply
<1>2. QED
    BY <1>1, RepliesCame DEF Renders, Heard, KineticStatus

LEMMA ReplyRenders ==
    ASSUME NEW d, NEW op,
           op \notin {"Get", "GetNext", "GetPrevious", "GetVersion", "GetKeyRange",
                      "MediaScan", "MediaOptimize", "GetLog", "P2PPush"}
    PROVE  Renders(op, <<d, Reply>>, <<d, Told>>)
<1>1. Reply.code = "SUCCESS"
    BY DEF Reply
<1>2. Handle(op, Reply) = Told
    BY DEF Handle
<1>3. QED
    BY <1>1, <1>2, RepliesCame DEF Renders, Heard

LEMMA PutFields ==
    ASSUME NEW c, NEW t, NEW v, c.op = "Put", NEW m, m = Command(t, v, c)
    PROVE  /\ m.messagetype = "PUT" /\ m.clusterversion = v /\ m.pinoptype = Null
           /\ m.key = c.key /\ m.dbversion = c.current
           /\ m.force <=> c.mode = "IGNORE_VERSION"
           /\ m.newversion = SetIf(c.version, Empty) /\ m.value = t
           /\ m.synchronization = GetSynchronizationForPersistMode(Persistence(c))
<1>1. m = PutCommand(NewCommand(v, "PUT"), t, c)
    BY DEF Command
<1>2. /\ m.messagetype = "PUT" /\ m.clusterversion = v /\ m.pinoptype = Null
      /\ m.key = c.key /\ m.dbversion = c.current
      /\ m.force = (c.mode = "IGNORE_VERSION")
      /\ m.newversion = SetIf(c.version, Empty) /\ m.value = t
      /\ m.synchronization = GetSynchronizationForPersistMode(Persistence(c))
    BY <1>1 DEF PutCommand, NewCommand, Unset
<1>3. m.force <=> c.mode = "IGNORE_VERSION"
    BY <1>2, Zenon
<1>4. QED
    BY <1>2, <1>3

LEMMA DeleteFields ==
    ASSUME NEW c, NEW t, NEW v, c.op = "Delete", NEW m, m = Command(t, v, c)
    PROVE  /\ m.messagetype = "DELETE" /\ m.clusterversion = v /\ m.pinoptype = Null
           /\ m.key = c.key /\ m.dbversion = c.current
           /\ m.force <=> c.mode = "IGNORE_VERSION"
           /\ m.synchronization = GetSynchronizationForPersistMode(Persistence(c))
<1>1. m = DeleteCommand(NewCommand(v, "DELETE"), c)
    BY DEF Command
<1>2. /\ m.messagetype = "DELETE" /\ m.clusterversion = v /\ m.pinoptype = Null
      /\ m.key = c.key /\ m.dbversion = c.current
      /\ m.force = (c.mode = "IGNORE_VERSION")
      /\ m.synchronization = GetSynchronizationForPersistMode(Persistence(c))
    BY <1>1 DEF DeleteCommand, NewCommand, Unset
<1>3. m.force <=> c.mode = "IGNORE_VERSION"
    BY <1>2, Zenon
<1>4. QED
    BY <1>2, <1>3

LEMMA WritePersists ==
    ASSUME NEW c, c.persist \in PersistModes \cup {Default}, NEW m, m.key = c.key,
           m.synchronization = GetSynchronizationForPersistMode(Persistence(c)), NEW e
    PROVE  Synchronized(e, m) = Promise!MadePersistent(e, c.key, c.persist)
<1>1. CASE c.persist = "WRITE_THROUGH"
  <2>1. m.synchronization = "WRITETHROUGH"
      BY <1>1, PersistenceOfWrites
  <2>2. Synchronized(e, m) = Persist(e, {m.key})
      BY <2>1 DEF Synchronized
  <2>3. Promise!MadePersistent(e, c.key, c.persist) = Persist(e, {c.key})
      BY <1>1, SameChanges DEF Promise!MadePersistent
  <2>4. QED
      BY <2>2, <2>3
<1>2. CASE c.persist = "FLUSH"
  <2>1. m.synchronization = "FLUSH"
      BY <1>2, PersistenceOfWrites
  <2>2. Synchronized(e, m) = Persist(e, Keys)
      BY <2>1 DEF Synchronized
  <2>3. Promise!MadePersistent(e, c.key, c.persist) = Persist(e, Keys)
      BY <1>2, SameChanges DEF Promise!MadePersistent
  <2>4. QED
      BY <2>2, <2>3
<1>3. CASE c.persist \in {"WRITE_BACK", Default}
  <2>1. m.synchronization = "WRITEBACK"
      BY <1>3 DEF Persistence, GetSynchronizationForPersistMode, Default
  <2>2. QED
      BY <1>3, <2>1 DEF Synchronized, Promise!MadePersistent, Default
<1>4. QED
    BY <1>1, <1>2, <1>3 DEF PersistModes

LEMMA PutRenders ==
    ASSUME NEW d, NEW c \in Interface, NEW t, NEW v, c.op = "Put"
    PROVE  Renders("Put", DrivePut(d, Command(t, v, c)), Promise!AfterPut(d, t, c))
<1>1. PICK m : m = Command(t, v, c)
    OBVIOUS
<1>2. /\ m.force <=> c.mode = "IGNORE_VERSION"
      /\ m.key = c.key /\ m.dbversion = c.current /\ m.value = t
      /\ m.newversion = SetIf(c.version, Empty)
    BY <1>1, PutFields
<1>3. Promise!Agrees(d.store[c.key], c.mode, c.current) <=> Holds(d.store[c.key], m)
    BY <1>2 DEF Holds, Promise!Agrees
<1>4. CASE Holds(d.store[c.key], m)
  <2> DEFINE e == Store(d, c.key, SetIf(c.version, Empty), t)
  <2>1. DrivePut(d, m) = <<Synchronized(e, m), Reply>>
      BY <1>2, <1>4 DEF DrivePut
  <2>2. Promise!AfterPut(d, t, c) = <<Promise!MadePersistent(e, c.key, c.persist), Told>>
      BY <1>3, <1>4, SameAnswers, SameChanges, SameQuestions DEF Promise!AfterPut, SetIf, Promise!Null, Null, Promise!Empty, Empty
  <2>3. Synchronized(e, m) = Promise!MadePersistent(e, c.key, c.persist)
      BY <1>1, PutFields, CallsOfInterface, WritePersists DEF Writing
  <2>4. QED
      BY <1>1, <2>1, <2>2, <2>3, ReplyRenders
<1>5. CASE ~ Holds(d.store[c.key], m)
  <2>1. DrivePut(d, m) = <<d, Fails("VERSION_MISMATCH")>>
      BY <1>2, <1>5 DEF DrivePut
  <2>2. Promise!AfterPut(d, t, c) = <<d, Failure("REMOTE_VERSION_MISMATCH", 0)>>
      BY <1>3, <1>5, SameAnswers, SameChanges, SameQuestions DEF Promise!AfterPut, Promise!Null, Null, Promise!Empty, Empty
  <2>3. QED
      BY <1>1, <2>1, <2>2, FailureRenders, StatusOfCode
<1>6. QED
    BY <1>4, <1>5

LEMMA DeleteRenders ==
    ASSUME NEW d, NEW c \in Interface, NEW t, NEW v, c.op = "Delete"
    PROVE  Renders("Delete", DriveDelete(d, Command(t, v, c)), Promise!AfterDelete(d, c))
<1>1. PICK m : m = Command(t, v, c)
    OBVIOUS
<1>2. /\ m.force <=> c.mode = "IGNORE_VERSION"
      /\ m.key = c.key /\ m.dbversion = c.current
    BY <1>1, DeleteFields
<1>3. c.mode = "REQUIRE_SAME_VERSION" <=> ~ m.force
  <2>1. c.mode \in WriteModes
      BY DEF Interface
  <2>2. QED
      BY <1>2, <2>1 DEF WriteModes
<1>4. Promise!Agrees(d.store[c.key], c.mode, c.current) <=> Holds(d.store[c.key], m)
    BY <1>2 DEF Holds, Promise!Agrees
<1>5. CASE ~ m.force /\ ~ Has(d.store, c.key)
  <2>1. DriveDelete(d, m) = <<d, Fails("NOT_FOUND")>>
      BY <1>2, <1>5 DEF DriveDelete
  <2>2. Promise!AfterDelete(d, c) = <<d, Failure("REMOTE_NOT_FOUND", 0)>>
      BY <1>3, <1>5, SameAnswers, SameChanges, SameQuestions DEF Promise!AfterDelete, Promise!Null, Null, Promise!Empty, Empty
  <2>3. QED
      BY <1>1, <2>1, <2>2, FailureRenders, StatusOfCode
<1>6. CASE ~ (~ m.force /\ ~ Has(d.store, c.key)) /\ Holds(d.store[c.key], m)
  <2> DEFINE e == Drop(d, c.key)
  <2>1. DriveDelete(d, m) = <<Synchronized(e, m), Reply>>
      BY <1>2, <1>6 DEF DriveDelete
  <2>2. Promise!AfterDelete(d, c) = <<Promise!MadePersistent(e, c.key, c.persist), Told>>
      BY <1>3, <1>4, <1>6, SameAnswers, SameChanges, SameQuestions DEF Promise!AfterDelete, Promise!Null, Null, Promise!Empty, Empty
  <2>3. Synchronized(e, m) = Promise!MadePersistent(e, c.key, c.persist)
      BY <1>1, DeleteFields, CallsOfInterface, WritePersists DEF Writing
  <2>4. QED
      BY <1>1, <2>1, <2>2, <2>3, ReplyRenders
<1>7. CASE ~ (~ m.force /\ ~ Has(d.store, c.key)) /\ ~ Holds(d.store[c.key], m)
  <2>1. DriveDelete(d, m) = <<d, Fails("VERSION_MISMATCH")>>
      BY <1>2, <1>7 DEF DriveDelete
  <2>2. Promise!AfterDelete(d, c) = <<d, Failure("REMOTE_VERSION_MISMATCH", 0)>>
      BY <1>3, <1>4, <1>7, SameAnswers, SameChanges, SameQuestions DEF Promise!AfterDelete, Promise!Null, Null, Promise!Empty, Empty
  <2>3. QED
      BY <1>1, <2>1, <2>2, FailureRenders, StatusOfCode
<1>8. QED
    BY <1>5, <1>6, <1>7

(* Reads.                                                                   *)
LEMMA ReadFields ==
    ASSUME NEW c, NEW t, NEW v, c.op \in {"Get", "GetNext", "GetPrevious", "GetVersion"},
           NEW m, m = Command(t, v, c)
    PROVE  /\ m.clusterversion = v /\ m.pinoptype = Null /\ m.key = c.key
           /\ c.op = "Get" => m.messagetype = "GET"
           /\ c.op = "GetNext" => m.messagetype = "GETNEXT"
           /\ c.op = "GetPrevious" => m.messagetype = "GETPREVIOUS"
           /\ c.op = "GetVersion" => m.messagetype = "GETVERSION"
<1>1. PICK type \in ReadTypes : m = [NewCommand(v, type) EXCEPT !.key = c.key]
    BY DEF Command, ReadTypes
<1>2. m.clusterversion = v /\ m.pinoptype = Null /\ m.key = c.key
    BY <1>1 DEF NewCommand, Unset
<1>3. /\ c.op = "Get" => m.messagetype = "GET"
      /\ c.op = "GetNext" => m.messagetype = "GETNEXT"
      /\ c.op = "GetPrevious" => m.messagetype = "GETPREVIOUS"
      /\ c.op = "GetVersion" => m.messagetype = "GETVERSION"
    BY TypeStays DEF Command
<1>4. QED
    BY <1>2, <1>3

RecordReply(k, version, value) ==
    [Reply EXCEPT !.key = k, !.dbversion = version, !.value = value]
VersionTold(version) == [Told EXCEPT !.version = version]
RecordTold(k, version, value) == [VersionTold(version) EXCEPT !.key = k, !.value = value]

LEMMA RecordRead ==
    ASSUME NEW k, NEW version, NEW value, NEW op \in {"Get", "GetNext", "GetPrevious", "GetVersion"}
    PROVE  /\ RecordReply(k, version, value) # NotYet
           /\ op # "GetVersion" =>
                 Heard(op, RecordReply(k, version, value)) = RecordTold(k, version, value)
           /\ op = "GetVersion" => Heard(op, RecordReply(k, version, value)) = VersionTold(version)
<1>1. PICK r : r = RecordReply(k, version, value)
    OBVIOUS
<1>2. /\ r.code = "SUCCESS" /\ r.key = k /\ r.dbversion = version /\ r.value = value
      /\ r # NotYet
    BY <1>1 DEF RecordReply, Reply, NotYet
<1>3. op # "GetVersion" => Handle(op, r) = [Told EXCEPT !.key = k, !.version = version, !.value = value]
    BY <1>2 DEF Handle, GetHandler
<1>4. op = "GetVersion" => Handle(op, r) = VersionTold(version)
    BY <1>2 DEF Handle, VersionTold
<1>5. [Told EXCEPT !.key = k, !.version = version, !.value = value] = RecordTold(k, version, value)
    BY DEF Told, RecordTold, VersionTold
<1>6. op # "GetVersion" => Handle(op, r) = RecordTold(k, version, value)
    BY <1>3, <1>5
<1>7. QED
    BY <1>1, <1>2, <1>4, <1>6 DEF Heard

LEMMA GetRenders ==
    ASSUME NEW d, NEW c, NEW t, NEW v, c.op \in {"Get", "GetNext", "GetPrevious", "GetVersion"}
    PROVE  Renders(c.op, DriveGet(d, Command(t, v, c)), Promise!AfterGet(d, c))
<1>1. PICK m : m = Command(t, v, c)
    OBVIOUS
<1> DEFINE found == CASE m.messagetype = "GETNEXT"     -> NextKeys(d, m.key)
                      [] m.messagetype = "GETPREVIOUS" -> PreviousKeys(d, m.key)
                      [] OTHER -> {k \in {m.key} : Has(d.store, k)}
<1>2. found = Promise!Found(d, c)
  <2>1. CASE c.op = "GetNext"
      BY <1>1, <2>1, ReadFields, SameQuestions DEF Promise!Found
  <2>2. CASE c.op = "GetPrevious"
      BY <1>1, <2>2, ReadFields, SameQuestions DEF Promise!Found
  <2>3. CASE c.op \in {"Get", "GetVersion"}
    <3>1. m.messagetype \notin {"GETNEXT", "GETPREVIOUS"} /\ m.key = c.key
        BY <1>1, <2>3, ReadFields
    <3>2. found = {k \in {c.key} : Has(d.store, k)}
        BY <3>1
    <3>3. Promise!Found(d, c) = {k \in {c.key} : Has(d.store, k)}
        BY <2>3, SameQuestions DEF Promise!Found
    <3>4. QED
        BY <3>2, <3>3
  <2>4. QED
      BY <2>1, <2>2, <2>3
<1>3. PICK k : k = CHOOSE l \in found : TRUE
    OBVIOUS
<1>4. k = CHOOSE l \in Promise!Found(d, c) : TRUE
    BY <1>2, <1>3, Zenon
<1>5. CASE found = {}
  <2>1. DriveGet(d, m) = <<d, Fails("NOT_FOUND")>>
      BY <1>5 DEF DriveGet
  <2>2. Promise!AfterGet(d, c) = <<d, Failure("REMOTE_NOT_FOUND", 0)>>
      BY <1>2, <1>5, SameAnswers DEF Promise!AfterGet
  <2>3. QED
      BY <1>1, <2>1, <2>2, FailureRenders, StatusOfCode
<1>6. CASE found # {}
  <2> DEFINE version == d.store[k].version
             value == IF m.messagetype = "GETVERSION" THEN 0 ELSE d.store[k].value
  <2>1. DriveGet(d, m) = <<d, RecordReply(k, version, value)>>
      BY <1>3, <1>6, Zenon DEF DriveGet, RecordReply
  <2>2. Promise!AfterGet(d, c) = <<d, IF c.op = "GetVersion" THEN VersionTold(version)
                                      ELSE RecordTold(k, version, d.store[k].value)>>
      BY <1>2, <1>4, <1>6, SameAnswers, Zenon DEF Promise!AfterGet, VersionTold, RecordTold
  <2>3. c.op # "GetVersion" => value = d.store[k].value
      BY <1>1, ReadFields
  <2> HIDE DEF value, version
  <2>4. QED
      BY <1>1, <2>1, <2>2, <2>3, RecordRead DEF Renders
<1>7. QED
    BY <1>5, <1>6

(* Ranges.                                                                  *)
LEMMA RangeFields ==
    ASSUME NEW c, NEW t, NEW v, c.op \in {"GetKeyRange", "MediaScan", "MediaOptimize"},
           NEW m, m = Command(t, v, c)
    PROVE  /\ m.messagetype \in RangeTypes /\ m.clusterversion = v /\ m.pinoptype = Null
           /\ m.startkey = c.start /\ m.startkeyinclusive = c.startInc
           /\ m.endkey = c.end /\ m.endkeyinclusive = c.endInc
           /\ c.op = "GetKeyRange" => m.reverse = c.reverse /\ m.maxreturned = c.max
           /\ c.op = "MediaScan" => m.maxreturned = c.max
<1>1. CASE c.op = "GetKeyRange"
  <2>1. m = KeyRangeCommand(NewCommand(v, "GETKEYRANGE"), c)
      BY <1>1 DEF Command
  <2>2. QED
      BY <1>1, <2>1 DEF KeyRangeCommand, RangeCommand, NewCommand, Unset, RangeTypes
<1>2. CASE c.op = "MediaScan"
  <2>1. m = MediaScanCommand(NewCommand(v, "MEDIASCAN"), c)
      BY <1>2 DEF Command
  <2>2. QED
      BY <1>2, <2>1 DEF MediaScanCommand, RangeCommand, NewCommand, Unset, RangeTypes
<1>3. CASE c.op = "MediaOptimize"
  <2>1. m = MediaOptimizeCommand(NewCommand(v, "MEDIAOPTIMIZE"), c)
      BY <1>3 DEF Command
  <2>2. QED
      BY <1>3, <2>1 DEF MediaOptimizeCommand, RangeCommand, NewCommand, Unset, RangeTypes
<1>4. QED
    BY <1>1, <1>2, <1>3

LEMMA ScanAscends ==
    ASSUME NEW c, NEW t, NEW v, c.op = "MediaScan"
    PROVE  Command(t, v, c).reverse = FALSE
<1>1. Command(t, v, c) = MediaScanCommand(NewCommand(v, "MEDIASCAN"), c)
    BY DEF Command
<1>2. QED
    BY <1>1 DEF MediaScanCommand, RangeCommand, NewCommand, Unset

LEMMA RangeRenders ==
    ASSUME NEW d, NEW c, NEW t, NEW v, c.op \in {"GetKeyRange", "MediaScan", "MediaOptimize"}
    PROVE  Renders(c.op, DriveRange(d, Command(t, v, c)), Promise!AfterRange(d, c))
<1>1. PICK m : m = Command(t, v, c)
    OBVIOUS
<1>0. /\ m.startkey = c.start /\ m.startkeyinclusive = c.startInc
      /\ m.endkey = c.end /\ m.endkeyinclusive = c.endInc
      /\ c.op = "GetKeyRange" => m.reverse = c.reverse /\ m.maxreturned = c.max
      /\ c.op = "MediaScan" => m.maxreturned = c.max
    BY <1>1, RangeFields
<1>2. PICK ks : ks = {k \in Keys : Has(d.store, k) /\ Within(k, c.start, c.startInc, c.end, c.endInc)}
    OBVIOUS
<1>3. PICK listed : listed = FirstOf(ks, m.reverse, m.maxreturned)
    OBVIOUS
<1> DEFINE r == [Reply EXCEPT !.keys = listed, !.endkey = c.end]
<1>4. DriveRange(d, m) = <<d, r>>
  <2>1. ks = {k \in Keys : Has(d.store, k) /\ Within(k, m.startkey, m.startkeyinclusive,
                                                    m.endkey, m.endkeyinclusive)}
      BY <1>0, <1>2, Zenon
  <2>2. m.endkey = c.end
      BY <1>0
  <2>3. QED
      BY <1>3, <2>1, <2>2 DEF DriveRange
<1>5. r.code = "SUCCESS" /\ r.keys = listed /\ r.endkey = c.end /\ r # NotYet
    BY DEF Reply, NotYet
<1> HIDE DEF r
<1>6. ks = {k \in Keys : /\ Promise!Has(d.store, k)
                         /\ Promise!Within(k, c.start, c.startInc, c.end, c.endInc)}
    BY <1>2, SameQuestions
<1>7. CASE c.op = "GetKeyRange"
  <2>1. Promise!AfterRange(d, c) = <<d, [Told EXCEPT !.keys = FirstOf(ks, c.reverse, c.max)]>>
      BY <1>6, <1>7, SameAnswers, SameQuestions DEF Promise!AfterRange
  <2>2. listed = FirstOf(ks, c.reverse, c.max)
      BY <1>0, <1>3, <1>7, Zenon
  <2>3. QED
      BY <1>1, <1>4, <1>5, <1>7, <2>1, <2>2 DEF Renders, Heard, Handle
<1>8. CASE c.op = "MediaScan"
  <2>1. Promise!AfterRange(d, c)
          = <<d, [Told EXCEPT !.keys = FirstOf(ks, FALSE, c.max), !.last = c.end]>>
      BY <1>6, <1>8, SameAnswers, SameQuestions DEF Promise!AfterRange
  <2>2. listed = FirstOf(ks, FALSE, c.max)
      BY <1>0, <1>1, <1>3, <1>8, ScanAscends, Zenon
  <2>3. Heard(c.op, r) = [Told EXCEPT !.keys = listed, !.last = c.end]
    <3>1. Handle("MediaScan", r) = [Told EXCEPT !.keys = r.keys, !.last = r.endkey]
        BY DEF Handle
    <3>2. QED
        BY <1>5, <1>8, <3>1, Zenon DEF Heard
  <2>4. Promise!AfterRange(d, c) = <<d, Heard(c.op, r)>>
      BY <2>1, <2>2, <2>3
  <2>5. QED
      BY <1>1, <1>4, <1>5, <2>4 DEF Renders
<1>9. CASE c.op = "MediaOptimize"
  <2>1. Promise!AfterRange(d, c) = <<d, [Told EXCEPT !.last = c.end]>>
      BY <1>9, SameAnswers DEF Promise!AfterRange
  <2>2. QED
      BY <1>1, <1>4, <1>5, <1>9, <2>1 DEF Renders, Heard, Handle
<1>10. QED
    BY <1>7, <1>8, <1>9

(* The device.                                                              *)
PinOperations == {"InstantErase", "SecureErase", "LockDevice", "UnlockDevice"}

LEMMA PinFields ==
    ASSUME NEW c, NEW t, NEW v, c.op \in PinOperations, NEW m, m = Command(t, v, c)
    PROVE  /\ m.messagetype = "PINOP" /\ m.clusterversion = v /\ m.authtype = "PINAUTH"
           /\ m.pin = SetIf(c.pin, Empty)
           /\ c.op = "InstantErase" => m.pinoptype = "ERASE_PINOP"
           /\ c.op = "SecureErase" => m.pinoptype = "SECURE_ERASE_PINOP"
           /\ c.op = "LockDevice" => m.pinoptype = "LOCK_PINOP"
           /\ c.op = "UnlockDevice" => m.pinoptype = "UNLOCK_PINOP"
<1>1. PICK type : /\ m = PinCommand(NewCommand(v, "PINOP"), c, type)
                  /\ c.op = "InstantErase" => type = "ERASE_PINOP"
                  /\ c.op = "SecureErase" => type = "SECURE_ERASE_PINOP"
                  /\ c.op = "LockDevice" => type = "LOCK_PINOP"
                  /\ c.op = "UnlockDevice" => type = "UNLOCK_PINOP"
    BY DEF Command, PinOperations
<1>2. /\ m.messagetype = "PINOP" /\ m.clusterversion = v /\ m.authtype = "PINAUTH"
      /\ m.pin = SetIf(c.pin, Empty) /\ m.pinoptype = type
    BY <1>1 DEF PinCommand, NewCommand, Unset
<1>3. QED
    BY <1>1, <1>2

LEMMA PinRenders ==
    ASSUME NEW d, NEW c, NEW t, NEW v, c.op \in PinOperations
    PROVE  Renders(c.op, DrivePinOperation(d, Command(t, v, c)), Promise!AfterPinOperation(d, c))
<1>1. PICK m : m = Command(t, v, c)
    OBVIOUS
<1>2. PICK pin : pin = IF c.op \in {"LockDevice", "UnlockDevice"} THEN d.lockPin ELSE d.erasePin
    OBVIOUS
<1>3. PICK e : e = CASE c.op = "LockDevice"   -> [d EXCEPT !.locked = TRUE]
                     [] c.op = "UnlockDevice" -> [d EXCEPT !.locked = FALSE]
                     [] OTHER                 -> Erase(d)
    OBVIOUS
<1>4. pin = IF m.pinoptype \in {"LOCK_PINOP", "UNLOCK_PINOP"} THEN d.lockPin ELSE d.erasePin
    BY <1>1, <1>2, PinFields DEF PinOperations
<1>5. e = CASE m.pinoptype = "LOCK_PINOP"   -> [d EXCEPT !.locked = TRUE]
            [] m.pinoptype = "UNLOCK_PINOP" -> [d EXCEPT !.locked = FALSE]
            [] OTHER                        -> Erase(d)
  <2>1. CASE c.op = "LockDevice"
      BY <1>1, <1>3, <2>1, PinFields
  <2>2. CASE c.op = "UnlockDevice"
      BY <1>1, <1>3, <2>2, PinFields
  <2>3. CASE c.op \in {"InstantErase", "SecureErase"}
    <3>1. m.pinoptype \notin {"LOCK_PINOP", "UNLOCK_PINOP"}
        BY <1>1, <2>3, PinFields
    <3>2. QED
        BY <1>3, <2>3, <3>1
  <2>4. QED
      BY <2>1, <2>2, <2>3 DEF PinOperations
<1>6. m.authtype = "PINAUTH" /\ m.pin = (IF c.pin = Null THEN Empty ELSE c.pin)
    BY <1>1, PinFields DEF SetIf
<1>7. CASE m.pin # pin
  <2>1. DrivePinOperation(d, m) = <<d, Fails("NOT_AUTHORIZED")>>
      BY <1>4, <1>7 DEF DrivePinOperation
  <2>2. Promise!AfterPinOperation(d, c) = <<d, Failure("REMOTE_NOT_AUTHORIZED", 0)>>
      BY <1>2, <1>6, <1>7, SameAnswers DEF Promise!AfterPinOperation, Promise!Null, Null,
         Promise!Empty, Empty
  <2>3. QED
      BY <1>1, <2>1, <2>2, FailureRenders, StatusOfCode
<1>8. CASE m.pin = pin
  <2>1. DrivePinOperation(d, m) = <<e, Reply>>
      BY <1>4, <1>5, <1>6, <1>8, Zenon DEF DrivePinOperation
  <2>2. Promise!AfterPinOperation(d, c) = <<e, Told>>
      BY <1>2, <1>3, <1>6, <1>8, SameAnswers, SameChanges, Zenon DEF Promise!AfterPinOperation,
         Promise!Null, Null, Promise!Empty, Empty
  <2>3. c.op \notin {"Get", "GetNext", "GetPrevious", "GetVersion", "GetKeyRange",
                     "MediaScan", "MediaOptimize", "GetLog", "P2PPush"}
      BY DEF PinOperations
  <2>4. QED
      BY <1>1, <2>1, <2>2, <2>3, ReplyRenders
<1>9. QED
    BY <1>7, <1>8

(* SetLockPIN and SetErasePIN leave the other PIN and the ACLs unset.        *)
LEMMA SecurityFields ==
    ASSUME NEW c, NEW t, NEW v, c.op \in {"SetLockPIN", "SetErasePIN"}, NEW m, m = Command(t, v, c)
    PROVE  /\ m.messagetype = "SECURITY" /\ m.clusterversion = v /\ m.pinoptype = Null
           /\ m.acl = {}
           /\ c.op = "SetLockPIN" => /\ m.oldlockpin = SetIf(c.current, Empty)
                                     /\ m.newlockpin = SetIf(c.new, Null)
                                     /\ m.newerasepin = Null
           /\ c.op = "SetErasePIN" => /\ m.olderasepin = SetIf(c.current, Empty)
                                      /\ m.newerasepin = SetIf(c.new, Null)
                                      /\ m.newlockpin = Null
<1>1. CASE c.op = "SetLockPIN"
  <2>1. m = SetLockPinCommand(NewCommand(v, "SECURITY"), c)
      BY <1>1 DEF Command
  <2>2. QED
      BY <1>1, <2>1 DEF SetLockPinCommand, NewCommand, Unset
<1>2. CASE c.op = "SetErasePIN"
  <2>1. m = SetErasePinCommand(NewCommand(v, "SECURITY"), c)
      BY <1>2 DEF Command
  <2>2. QED
      BY <1>2, <2>1 DEF SetErasePinCommand, NewCommand, Unset
<1>3. QED
    BY <1>1, <1>2

LEMMA SetPinRenders ==
    ASSUME NEW d, DOMAIN d = Field, NEW c, NEW t, NEW v, c.op \in {"SetLockPIN", "SetErasePIN"}
    PROVE  Renders(c.op, DriveSecurity(d, Command(t, v, c)), Promise!AfterSetPin(d, c))
<1>1. PICK m : m = Command(t, v, c)
    OBVIOUS
<1>2. PICK old : old = IF c.op = "SetLockPIN" THEN d.lockPin ELSE d.erasePin
    OBVIOUS
<1>3. PICK e : e = IF c.op = "SetLockPIN"
                   THEN [d EXCEPT !.lockPin = IF c.new = Null THEN old ELSE c.new]
                   ELSE [d EXCEPT !.erasePin = IF c.new = Null THEN old ELSE c.new]
    OBVIOUS
<1>4. c.new # Null /\ (IF c.current = Null THEN Empty ELSE c.current) # old
         <=> \/ m.newlockpin # Null /\ m.oldlockpin # d.lockPin
             \/ m.newerasepin # Null /\ m.olderasepin # d.erasePin
  <2>1. CASE c.op = "SetLockPIN"
      BY <1>1, <1>2, <2>1, SecurityFields DEF SetIf
  <2>2. CASE c.op = "SetErasePIN"
      BY <1>1, <1>2, <2>2, SecurityFields DEF SetIf
  <2>3. QED
      BY <2>1, <2>2
<1>5. CASE c.new # Null /\ (IF c.current = Null THEN Empty ELSE c.current) # old
  <2>1. DriveSecurity(d, m) = <<d, Fails("NOT_AUTHORIZED")>>
      BY <1>4, <1>5 DEF DriveSecurity
  <2>2. Promise!AfterSetPin(d, c) = <<d, Failure("REMOTE_NOT_AUTHORIZED", 0)>>
      BY <1>2, <1>5, SameAnswers DEF Promise!AfterSetPin, Promise!Null, Null, Promise!Empty, Empty
  <2>3. QED
      BY <1>1, <2>1, <2>2, FailureRenders, StatusOfCode
<1>6. CASE ~ (c.new # Null /\ (IF c.current = Null THEN Empty ELSE c.current) # old)
  <2>1. DriveSecurity(d, m) = <<e, Reply>>
    <3> DEFINE f == [d EXCEPT !.lockPin = SetIf(m.newlockpin, @),
                              !.erasePin = SetIf(m.newerasepin, @),
                              !.acls = IF m.acl = {} THEN @ ELSE DriveGrants(m.acl)]
    <3>1. DriveSecurity(d, m) = <<f, Reply>>
        BY <1>4, <1>6 DEF DriveSecurity
    <3>2. CASE c.op = "SetLockPIN"
      <4>1. /\ m.acl = {} /\ m.newerasepin = Null
            /\ SetIf(m.newlockpin, d.lockPin) = (IF c.new = Null THEN old ELSE c.new)
          BY <1>1, <1>2, <3>2, SecurityFields DEF SetIf
      <4>2. f = e
          BY <1>3, <3>2, <4>1 DEF SetIf, Field
      <4>3. QED
          BY <3>1, <4>2
    <3>3. CASE c.op = "SetErasePIN"
      <4>1. /\ m.acl = {} /\ m.newlockpin = Null
            /\ SetIf(m.newerasepin, d.erasePin) = (IF c.new = Null THEN old ELSE c.new)
          BY <1>1, <1>2, <3>3, SecurityFields DEF SetIf
      <4>2. f = e
          BY <1>3, <3>3, <4>1 DEF SetIf, Field
      <4>3. QED
          BY <3>1, <4>2
    <3>4. QED
        BY <3>2, <3>3
  <2>2. Promise!AfterSetPin(d, c) = <<e, Told>>
      BY <1>2, <1>3, <1>6, SameAnswers, Zenon DEF Promise!AfterSetPin, Promise!Null, Null,
         Promise!Empty, Empty
  <2>3. QED
      BY <1>1, <2>1, <2>2, ReplyRenders
<1>7. QED
    BY <1>5, <1>6

(* Access control lists: the protocol's permissions are the client's, and   *)
(* the lists say the same.                                                  *)
LEMMA GrantsOf ==
    ASSUME NEW acls, NEW g
    PROVE  g \in Grants(acls) <=>
             \E a \in acls : \E s \in a.scopes : \E p \in s.permissions :
                g = [identity |-> a.identity, key |-> a.hmac_key, offset |-> s.offset,
                     value |-> s.value, permission |-> p]
<1> DEFINE rec(a, s, p) == [identity |-> a.identity, key |-> a.hmac_key, offset |-> s.offset,
                            value |-> s.value, permission |-> p]
           recs(a, s) == {rec(a, s, p) : p \in s.permissions}
           all(a) == UNION {recs(a, s) : s \in a.scopes}
<1>1. Grants(acls) = UNION {all(a) : a \in acls}
    BY Zenon DEF Grants
<1>2. \A a, s : g \in recs(a, s) <=> \E p \in s.permissions : g = rec(a, s, p)
    BY Zenon
<1> HIDE DEF recs
<1>3. \A a : g \in all(a) <=> \E s \in a.scopes : g \in recs(a, s)
    BY Zenon
<1> HIDE DEF all
<1>4. g \in UNION {all(a) : a \in acls} <=> \E a \in acls : g \in all(a)
    BY Zenon
<1>5. QED
    BY <1>1, <1>2, <1>3, <1>4, Zenon

LEMMA DriveGrantsOf ==
    ASSUME NEW acl, NEW g
    PROVE  g \in DriveGrants(acl) <=>
             \E a \in acl : \E s \in a.scope : \E p \in s.permission :
                g = [identity |-> a.identity, key |-> a.key, offset |-> s.offset,
                     value |-> s.value, permission |-> p]
<1> DEFINE rec(a, s, p) == [identity |-> a.identity, key |-> a.key, offset |-> s.offset,
                            value |-> s.value, permission |-> p]
           recs(a, s) == {rec(a, s, p) : p \in s.permission}
           all(a) == UNION {recs(a, s) : s \in a.scope}
<1>1. DriveGrants(acl) = UNION {all(a) : a \in acl}
    BY Zenon DEF DriveGrants
<1>2. \A a, s : g \in recs(a, s) <=> \E p \in s.permission : g = rec(a, s, p)
    BY Zenon
<1> HIDE DEF recs
<1>3. \A a : g \in all(a) <=> \E s \in a.scope : g \in recs(a, s)
    BY Zenon
<1> HIDE DEF all
<1>4. g \in UNION {all(a) : a \in acl} <=> \E a \in acl : g \in all(a)
    BY Zenon
<1>5. QED
    BY <1>1, <1>2, <1>3, <1>4, Zenon

(* A scope, and an ACL, as the client writes them into the command.         *)
ScopeOf(s) == [offset |-> s.offset, value |-> s.value,
               permission |-> {PermissionTable[p] : p \in s.permissions}]
AclOf(a) == [identity |-> a.identity, key |-> a.hmac_key, hmacalgorithm |-> "HmacSHA1",
             scope |-> {ScopeOf(s) : s \in a.scopes}]

LEMMA AclFields ==
    ASSUME NEW c, NEW t, NEW v, c.op = "SetACLs", NEW m, m = Command(t, v, c)
    PROVE  /\ m.messagetype = "SECURITY" /\ m.clusterversion = v /\ m.pinoptype = Null
           /\ m.newlockpin = Null /\ m.newerasepin = Null
           /\ m.acl = {AclOf(a) : a \in c.acls}
<1>1. m = AclCommand(NewCommand(v, "SECURITY"), c)
    BY DEF Command
<1>2. AclCommand(NewCommand(v, "SECURITY"), c)
        = [NewCommand(v, "SECURITY") EXCEPT !.acl = {AclOf(a) : a \in c.acls}]
    BY Zenon DEF AclCommand, AclOf, ScopeOf
<1>3. \A x : LET n == [NewCommand(v, "SECURITY") EXCEPT !.acl = x]
             IN /\ n.messagetype = "SECURITY" /\ n.clusterversion = v /\ n.pinoptype = Null
                /\ n.newlockpin = Null /\ n.newerasepin = Null /\ n.acl = x
    BY DEF NewCommand, Unset
<1>4. QED
    BY <1>1, <1>2, <1>3, Zenon

LEMMA SameGrants ==
    ASSUME NEW acls \in Acls
    PROVE  DriveGrants({AclOf(a) : a \in acls}) = Grants(acls)
<1>1. ASSUME NEW a \in acls, NEW s \in a.scopes, NEW p \in s.permissions
      PROVE  PermissionTable[p] = p
  <2> DEFINE g == [identity |-> a.identity, key |-> a.hmac_key, offset |-> s.offset,
                   value |-> s.value, permission |-> p]
  <2>1. g \in Grants(acls)
      BY GrantsOf
  <2>2. g.permission \in Permissions
      BY <2>1, ApiConstantsOK
  <2>3. p \in Permissions
      BY <2>2
  <2>4. QED
      BY <2>3 DEF Permissions, PermissionTable
<1>2. ASSUME NEW a \in acls, NEW s \in a.scopes
      PROVE  ScopeOf(s).permission = s.permissions
    BY <1>1 DEF ScopeOf
<1>3. \A a \in acls : AclOf(a).scope = {ScopeOf(s) : s \in a.scopes}
    BY DEF AclOf
<1>4. \A a : AclOf(a).identity = a.identity /\ AclOf(a).key = a.hmac_key
    BY DEF AclOf
<1>5. \A s : ScopeOf(s).offset = s.offset /\ ScopeOf(s).value = s.value
    BY DEF ScopeOf
<1> HIDE DEF AclOf, ScopeOf
<1>6. ASSUME NEW g
      PROVE  g \in DriveGrants({AclOf(a) : a \in acls}) <=> g \in Grants(acls)
  <2> DEFINE same(a, s, p) == g = [identity |-> a.identity, key |-> a.hmac_key,
                                   offset |-> s.offset, value |-> s.value, permission |-> p]
             drive_(a, s, p) == g = [identity |-> a.identity, key |-> a.key,
                                     offset |-> s.offset, value |-> s.value, permission |-> p]
  <2>1. g \in DriveGrants({AclOf(a) : a \in acls})
          <=> \E b \in {AclOf(a) : a \in acls} : \E u \in b.scope : \E p \in u.permission :
                 drive_(b, u, p)
      BY DriveGrantsOf, Zenon
  <2>2. g \in Grants(acls)
          <=> \E a \in acls : \E s \in a.scopes : \E p \in s.permissions : same(a, s, p)
      BY GrantsOf, Zenon
  <2>3. \A a, s, p : drive_(AclOf(a), ScopeOf(s), p) <=> same(a, s, p)
      BY <1>4, <1>5
  <2> HIDE DEF same, drive_
  <2>4. ASSUME NEW a \in acls, NEW s \in a.scopes, NEW p \in s.permissions, same(a, s, p)
        PROVE  /\ AclOf(a) \in {AclOf(b) : b \in acls} /\ ScopeOf(s) \in AclOf(a).scope
               /\ p \in ScopeOf(s).permission /\ drive_(AclOf(a), ScopeOf(s), p)
      BY <1>2, <1>3, <2>3, <2>4
  <2>5. ASSUME NEW b \in {AclOf(a) : a \in acls}, NEW u \in b.scope, NEW p \in u.permission,
               drive_(b, u, p)
        PROVE  \E a \in acls : \E s \in a.scopes : p \in s.permissions /\ same(a, s, p)
    <3>1. PICK a \in acls : b = AclOf(a)
        OBVIOUS
    <3>2. PICK s \in a.scopes : u = ScopeOf(s)
        BY <1>3, <3>1
    <3>3. QED
        BY <1>2, <2>3, <2>5, <3>1, <3>2
  <2>6. QED
      BY <2>1, <2>2, <2>4, <2>5, Zenon
<1>7. QED
    BY <1>6

LEMMA AclRenders ==
    ASSUME NEW d, DOMAIN d = Field, NEW c \in Interface, NEW t, NEW v, c.op = "SetACLs"
    PROVE  Renders(c.op, DriveSecurity(d, Command(t, v, c)),
                   <<[d EXCEPT !.acls = Grants(c.acls)], Told>>)
<1>1. PICK m : m = Command(t, v, c)
    OBVIOUS
<1>2. c.acls \in Acls /\ c.acls # {}
    BY ApiConstantsOK DEF Interface
<1>3. /\ m.newlockpin = Null /\ m.newerasepin = Null
      /\ m.acl = {AclOf(a) : a \in c.acls} /\ m.acl # {}
    BY <1>1, <1>2, AclFields
<1>4. DriveGrants(m.acl) = Grants(c.acls)
    BY <1>2, <1>3, SameGrants
<1>5. DriveSecurity(d, m) = <<[d EXCEPT !.lockPin = SetIf(m.newlockpin, @),
                                        !.erasePin = SetIf(m.newerasepin, @),
                                        !.acls = IF m.acl = {} THEN @ ELSE DriveGrants(m.acl)],
                              Reply>>
    BY <1>3 DEF DriveSecurity
<1>6. DriveSecurity(d, m) = <<[d EXCEPT !.acls = Grants(c.acls)], Reply>>
    BY <1>3, <1>4, <1>5 DEF SetIf, Field
<1>7. QED
    BY <1>1, <1>6, ReplyRenders

(* The rest.                                                                *)
LEMMA SetupFields ==
    ASSUME NEW c, NEW t, NEW v, c.op \in {"SetClusterVersion", "UpdateFirmware"},
           NEW m, m = Command(t, v, c)
    PROVE  /\ m.messagetype = "SETUP" /\ m.clusterversion = v /\ m.pinoptype = Null
           /\ c.op = "SetClusterVersion" => m.newclusterversion = c.new /\ ~ m.firmwaredownload
           /\ c.op = "UpdateFirmware" =>
                 m.newclusterversion = NoCluster /\ m.firmwaredownload /\ m.value = t
<1>1. CASE c.op = "SetClusterVersion"
  <2>1. m = [NewCommand(v, "SETUP") EXCEPT !.newclusterversion = c.new]
      BY <1>1 DEF Command
  <2>2. QED
      BY <1>1, <2>1 DEF NewCommand, Unset
<1>2. CASE c.op = "UpdateFirmware"
  <2>1. m = [NewCommand(v, "SETUP") EXCEPT !.firmwaredownload = TRUE, !.value = t]
      BY <1>2 DEF Command
  <2>2. QED
      BY <1>2, <2>1 DEF NewCommand, Unset
<1>3. QED
    BY <1>1, <1>2

LEMMA SetupRenders ==
    ASSUME NEW d, DOMAIN d = Field, NEW c \in Interface, NEW t, NEW v,
           c.op \in {"SetClusterVersion", "UpdateFirmware"}
    PROVE  Renders(c.op, DriveSetup(d, Command(t, v, c)),
                   IF c.op = "SetClusterVersion" THEN <<[d EXCEPT !.cluster = c.new], Told>>
                   ELSE <<[d EXCEPT !.firmware = t], Told>>)
<1>1. PICK m : m = Command(t, v, c)
    OBVIOUS
<1>2. CASE c.op = "SetClusterVersion"
  <2>1. c.new \in ClusterVersions
      BY <1>2 DEF Interface
  <2>2. c.new # NoCluster /\ m.newclusterversion = c.new /\ ~ m.firmwaredownload
      BY <1>1, <1>2, <2>1, ApiConstantsOK, SetupFields DEF NoCluster
  <2>3. DriveSetup(d, m) = <<[d EXCEPT !.cluster = c.new], Reply>>
      BY <2>2 DEF DriveSetup, Field
  <2>4. QED
      BY <1>1, <1>2, <2>3, ReplyRenders
<1>3. CASE c.op = "UpdateFirmware"
  <2>1. m.newclusterversion = NoCluster /\ m.firmwaredownload /\ m.value = t
      BY <1>1, <1>3, SetupFields
  <2>2. DriveSetup(d, m) = <<[d EXCEPT !.firmware = t], Reply>>
      BY <2>1 DEF DriveSetup, Field
  <2>3. QED
      BY <1>1, <1>3, <2>2, ReplyRenders
<1>4. QED
    BY <1>2, <1>3

LEMMA LogFields ==
    ASSUME NEW c, NEW t, NEW v, c.op = "GetLog", NEW m, m = Command(t, v, c)
    PROVE  /\ m.messagetype = "GETLOG" /\ m.clusterversion = v /\ m.pinoptype = Null
           /\ m.types = IF c.types = {Default} THEN Sections ELSE c.types
<1>1. m = GetLogCommand(NewCommand(v, "GETLOG"), c)
    BY DEF Command
<1>2. \A x : LET n == [NewCommand(v, "GETLOG") EXCEPT !.types = x]
             IN /\ n.messagetype = "GETLOG" /\ n.clusterversion = v /\ n.pinoptype = Null
                /\ n.types = x
    BY DEF NewCommand, Unset
<1>3. QED
    BY <1>1, <1>2, Zenon DEF GetLogCommand

LEMMA LogRenders ==
    ASSUME NEW d, NEW c, NEW t, NEW v, c.op = "GetLog"
    PROVE  Renders(c.op, <<d, [Reply EXCEPT !.types = Command(t, v, c).types]>>,
                   <<d, [Told EXCEPT !.sections =
                            IF c.types = {Default} THEN Sections ELSE c.types]>>)
<1>1. PICK types : types = Command(t, v, c).types
    OBVIOUS
<1>2. types = IF c.types = {Default} THEN Sections ELSE c.types
    BY <1>1, LogFields
<1>3. PICK r : r = [Reply EXCEPT !.types = types]
    OBVIOUS
<1>4. r.code = "SUCCESS" /\ r.types = types /\ r # NotYet
    BY <1>3 DEF Reply, NotYet
<1>5. Handle("GetLog", r) = [Told EXCEPT !.sections = r.types]
    BY DEF Handle
<1>6. Heard("GetLog", r) = [Told EXCEPT !.sections = types]
    BY <1>4, <1>5, Zenon DEF Heard
<1>7. QED
    BY <1>1, <1>2, <1>3, <1>4, <1>6, Zenon DEF Renders

LEMMA BareFields ==
    ASSUME NEW c, NEW t, NEW v, c.op \in {"NoOp", "Flush"}, NEW m, m = Command(t, v, c)
    PROVE  /\ m.messagetype = IF c.op = "NoOp" THEN "NOOP" ELSE "FLUSHALLDATA"
           /\ m.clusterversion = v /\ m.pinoptype = Null
<1>1. m = NewCommand(v, IF c.op = "NoOp" THEN "NOOP" ELSE "FLUSHALLDATA")
    BY DEF Command
<1>2. QED
    BY <1>1 DEF NewCommand, Unset

(* A push to the key the record has is sent without a new key.              *)
LEMMA PushFields ==
    ASSUME NEW c, NEW t, NEW v, c.op = "P2PPush", NEW m, m = Command(t, v, c)
    PROVE  /\ m.messagetype = "PEER2PEERPUSH" /\ m.clusterversion = v /\ m.pinoptype = Null
           /\ m.operation = PopulateP2PMessage(c.operations)
<1>1. m = [NewCommand(v, "PEER2PEERPUSH") EXCEPT !.operation = PopulateP2PMessage(c.operations)]
    BY DEF Command
<1>2. QED
    BY <1>1 DEF NewCommand, Unset

DrivesPushes(operation) ==
    [i \in DOMAIN operation |->
        [from |-> operation[i].key,
         to |-> IF operation[i].newkey = NoKey THEN operation[i].key ELSE operation[i].newkey,
         force |-> operation[i].force, version |-> operation[i].version]]

AskedPushes(operations) ==
    [i \in DOMAIN operations |->
        [from |-> operations[i].key,
         to |-> IF operations[i].newKey = NoKey THEN operations[i].key ELSE operations[i].newKey,
         force |-> operations[i].force, version |-> operations[i].version]]

LEMMA SamePushes ==
    ASSUME NEW operations
    PROVE  DrivesPushes(PopulateP2PMessage(operations)) = AskedPushes(operations)
<1> DEFINE sent == PopulateP2PMessage(operations)
<1>1. DOMAIN sent = DOMAIN operations
    BY DEF PopulateP2PMessage
<1>2. ASSUME NEW i \in DOMAIN operations
      PROVE  /\ sent[i].key = operations[i].key /\ sent[i].version = operations[i].version
             /\ sent[i].force = operations[i].force
             /\ sent[i].newkey =
                  IF operations[i].newKey # operations[i].key THEN operations[i].newKey ELSE NoKey
    BY DEF PopulateP2PMessage
<1> HIDE DEF sent
<1>3. ASSUME NEW i \in DOMAIN operations
      PROVE  (IF sent[i].newkey = NoKey THEN sent[i].key ELSE sent[i].newkey)
               = (IF operations[i].newKey = NoKey THEN operations[i].key ELSE operations[i].newKey)
    BY <1>2
<1>4. ASSUME NEW i \in DOMAIN operations
      PROVE  DrivesPushes(sent)[i] = AskedPushes(operations)[i]
    BY <1>1, <1>2, <1>3, Zenon DEF DrivesPushes, AskedPushes
<1>5. QED
    BY <1>1, <1>4 DEF sent, DrivesPushes, AskedPushes

LEMMA PushRenders ==
    ASSUME NEW d, NEW c, NEW t, NEW v, c.op = "P2PPush"
    PROVE  Renders(c.op, DrivePush(d, Command(t, v, c)), Promise!AfterPush(d, c))
<1>1. PICK m : m = Command(t, v, c)
    OBVIOUS
<1>2. PICK r : r = PushAll(d, AskedPushes(c.operations))
    OBVIOUS
<1> DEFINE e == [d EXCEPT !.peer = r.peer]
<1>3. PICK codes : codes = [i \in DOMAIN r.came |-> PushCode(r.came[i])]
    OBVIOUS
<1>4. DrivesPushes(m.operation) = AskedPushes(c.operations)
    BY <1>1, PushFields, SamePushes
<1>5. PICK code : code = IF \E i \in DOMAIN codes : codes[i] # "SUCCESS"
                         THEN "NESTED_OPERATION_ERRORS" ELSE "SUCCESS"
    OBVIOUS
<1>6. DrivePush(d, m) = <<e, [Reply EXCEPT !.operation = codes, !.code = code]>>
    BY <1>2, <1>3, <1>4, <1>5, Zenon DEF DrivePush, DrivesPushes
<1>7. PICK reply : reply = [Reply EXCEPT !.operation = codes, !.code = code]
    OBVIOUS
<1>8. reply.code = code /\ reply.operation = codes /\ reply # NotYet
    BY <1>7 DEF Reply, NotYet
<1>9. PICK statuses : statuses = [i \in DOMAIN r.came |-> "OK"]
    OBVIOUS
<1>10. Promise!AfterPush(d, c) =
         <<e, IF \E i \in DOMAIN r.came : r.came[i] \in {"missing", "mismatch"}
              THEN Failure("REMOTE_NESTED_OPERATION_ERRORS", 0)
              ELSE [Told EXCEPT !.statuses = statuses]>>
    BY <1>2, <1>9, SameAnswers, SameQuestions, Zenon
       DEF Promise!AfterPush, AskedPushes, Promise!NoKey, NoKey
<1>11. \A i \in DOMAIN r.came : codes[i] = "SUCCESS" <=> r.came[i] \notin {"missing", "mismatch"}
    BY <1>3 DEF PushCode
<1>12. DOMAIN codes = DOMAIN r.came
    BY <1>3
<1>13. CASE \E i \in DOMAIN r.came : r.came[i] \in {"missing", "mismatch"}
  <2>1. code = "NESTED_OPERATION_ERRORS"
      BY <1>5, <1>11, <1>12, <1>13
  <2>2. Heard(c.op, reply) = Failure("REMOTE_NESTED_OPERATION_ERRORS", 0)
      BY <1>8, <2>1, StatusOfCode DEF Heard, KineticStatus
  <2>3. Promise!AfterPush(d, c) = <<e, Heard(c.op, reply)>>
      BY <1>10, <1>13, <2>2, Zenon
  <2>4. DrivePush(d, m) = <<e, reply>>
      BY <1>6, <1>7, Zenon
  <2> HIDE DEF e
  <2>5. QED
      BY <1>1, <1>8, <2>3, <2>4 DEF Renders
<1>14. CASE ~ \E i \in DOMAIN r.came : r.came[i] \in {"missing", "mismatch"}
  <2>1. code = "SUCCESS" /\ \A i \in DOMAIN codes : codes[i] = "SUCCESS"
      BY <1>5, <1>11, <1>12, <1>14
  <2>2. [i \in DOMAIN codes |-> ConvertFromProtoStatus(codes[i])] = statuses
      BY <1>9, <1>12, <2>1, StatusOfCode
  <2>3. P2PPushHandler(reply) = [Told EXCEPT !.statuses = statuses]
      BY <1>8, <2>2, Zenon DEF P2PPushHandler
  <2>4. Handle("P2PPush", reply) = P2PPushHandler(reply)
      BY DEF Handle
  <2>5. Heard(c.op, reply) = [Told EXCEPT !.statuses = statuses]
      BY <1>8, <2>1, <2>3, <2>4, Zenon DEF Heard
  <2>6. Promise!AfterPush(d, c) = <<e, Heard(c.op, reply)>>
      BY <1>10, <1>14, <2>5, Zenon
  <2>7. DrivePush(d, m) = <<e, reply>>
      BY <1>6, <1>7, Zenon
  <2> HIDE DEF e
  <2>8. QED
      BY <1>1, <1>8, <2>6, <2>7 DEF Renders
<1>15. QED
    BY <1>13, <1>14

-----------------------------------------------------------------------------
(* Any call: the drive and the promise look at the same cluster version,    *)
(* and both let a locked drive do nothing but unlock.                       *)
LEMMA Headers ==
    ASSUME NEW c \in Interface, NEW t, NEW v, NEW m, m = Command(t, v, c)
    PROVE  /\ m.clusterversion = v
           /\ m.pinoptype = "UNLOCK_PINOP" <=> c.op = "UnlockDevice"
<1>1. c.op \in Operations
    BY CallsOfInterface
<1>2. CASE c.op \in PinOperations
    BY <1>2, PinFields DEF PinOperations
<1>3. CASE c.op \notin PinOperations
  <2>1. CASE c.op \in {"Put", "Delete"}
      BY <2>1, PutFields, DeleteFields DEF Null
  <2>2. CASE c.op \in {"Get", "GetNext", "GetPrevious", "GetVersion"}
      BY <2>2, ReadFields DEF Null
  <2>3. CASE c.op \in {"GetKeyRange", "MediaScan", "MediaOptimize"}
      BY <2>3, RangeFields DEF Null
  <2>4. CASE c.op \in {"SetLockPIN", "SetErasePIN"}
      BY <2>4, SecurityFields DEF Null
  <2>5. CASE c.op = "SetACLs"
      BY <2>5, AclFields DEF Null
  <2>6. CASE c.op \in {"SetClusterVersion", "UpdateFirmware"}
      BY <2>6, SetupFields DEF Null
  <2>7. CASE c.op = "GetLog"
      BY <2>7, LogFields DEF Null
  <2>8. CASE c.op \in {"NoOp", "Flush"}
      BY <2>8, BareFields DEF Null
  <2>9. CASE c.op = "P2PPush"
      BY <2>9, PushFields DEF Null
  <2>10. QED
      BY <1>1, <1>3, <2>1, <2>2, <2>3, <2>4, <2>5, <2>6, <2>7, <2>8, <2>9
         DEF Operations, PinOperations
<1>4. QED
    BY <1>2, <1>3

LEMMA VersionRenders ==
    ASSUME NEW d, NEW op
    PROVE  Renders(op, <<d, [Fails("VERSION_FAILURE") EXCEPT !.clusterversion = d.cluster]>>,
                   <<d, Failure("REMOTE_CLUSTER_VERSION_MISMATCH", d.cluster)>>)
<1>1. PICK r : r = [Fails("VERSION_FAILURE") EXCEPT !.clusterversion = d.cluster]
    OBVIOUS
<1>2. r.code = "VERSION_FAILURE" /\ r.clusterversion = d.cluster /\ r # NotYet
    BY <1>1 DEF Fails, Reply, NotYet
<1>3. Heard(op, r) = Failure("REMOTE_CLUSTER_VERSION_MISMATCH", d.cluster)
    BY <1>2, StatusOfCode DEF Heard, KineticStatus
<1>4. QED
    BY <1>1, <1>2, <1>3 DEF Renders

(* A command that the drive carries out.                                    *)
LEMMA WorkRenders ==
    ASSUME NEW d, DOMAIN d = Field, NEW c \in Interface, NEW t,
           NEW m, m = Command(t, d.cluster, c), ~ (d.locked /\ c.op # "UnlockDevice")
    PROVE  Renders(c.op, DriveDoes(d, m), Promise!After(d, t, c))
<1>1. m.clusterversion = d.cluster /\ ~ (d.locked /\ m.pinoptype # "UNLOCK_PINOP")
    BY Headers
<1>2. CASE c.op = "Put"
  <2>1. DriveDoes(d, m) = DrivePut(d, m)
      BY <1>1, <1>2, PutFields DEF DriveDoes
  <2>2. Promise!After(d, t, c) = Promise!AfterPut(d, t, c)
      BY <1>2 DEF Promise!After
  <2>3. QED
      BY <1>2, <2>1, <2>2, PutRenders
<1>3. CASE c.op = "Delete"
  <2>1. DriveDoes(d, m) = DriveDelete(d, m)
      BY <1>1, <1>3, DeleteFields DEF DriveDoes
  <2>2. Promise!After(d, t, c) = Promise!AfterDelete(d, c)
      BY <1>3 DEF Promise!After
  <2>3. QED
      BY <1>3, <2>1, <2>2, DeleteRenders
<1>4. CASE c.op \in {"Get", "GetNext", "GetPrevious", "GetVersion"}
  <2>1. m.messagetype \in {"GET", "GETNEXT", "GETPREVIOUS", "GETVERSION"}
      BY <1>4, ReadFields
  <2>2. DriveDoes(d, m) = DriveGet(d, m)
      BY <1>1, <2>1 DEF DriveDoes
  <2>3. Promise!After(d, t, c) = Promise!AfterGet(d, c)
      BY <1>4 DEF Promise!After
  <2>4. QED
      BY <1>4, <2>2, <2>3, GetRenders
<1>5. CASE c.op \in {"GetKeyRange", "MediaScan", "MediaOptimize"}
  <2>1. m.messagetype \in RangeTypes
      BY <1>5, RangeFields
  <2>2. DriveDoes(d, m) = DriveRange(d, m)
      BY <1>1, <2>1 DEF DriveDoes, RangeTypes
  <2>3. Promise!After(d, t, c) = Promise!AfterRange(d, c)
      BY <1>5 DEF Promise!After
  <2>4. QED
      BY <1>5, <2>2, <2>3, RangeRenders
<1>6. CASE c.op \in PinOperations
  <2>1. DriveDoes(d, m) = DrivePinOperation(d, m)
      BY <1>1, <1>6, PinFields DEF DriveDoes
  <2>2. Promise!After(d, t, c) = Promise!AfterPinOperation(d, c)
      BY <1>6 DEF Promise!After, PinOperations
  <2>3. QED
      BY <1>6, <2>1, <2>2, PinRenders
<1>7. CASE c.op \in {"SetLockPIN", "SetErasePIN"}
  <2>1. DriveDoes(d, m) = DriveSecurity(d, m)
      BY <1>1, <1>7, SecurityFields DEF DriveDoes
  <2>2. Promise!After(d, t, c) = Promise!AfterSetPin(d, c)
      BY <1>7 DEF Promise!After
  <2>3. QED
      BY <1>7, <2>1, <2>2, SetPinRenders
<1>8. CASE c.op = "SetACLs"
  <2>1. DriveDoes(d, m) = DriveSecurity(d, m)
      BY <1>1, <1>8, AclFields DEF DriveDoes
  <2>2. Promise!After(d, t, c) = <<[d EXCEPT !.acls = Grants(c.acls)], Told>>
      BY <1>8, SameAnswers, SameQuestions DEF Promise!After
  <2>3. QED
      BY <1>8, <2>1, <2>2, AclRenders
<1>9. CASE c.op \in {"SetClusterVersion", "UpdateFirmware"}
  <2>1. DriveDoes(d, m) = DriveSetup(d, m)
      BY <1>1, <1>9, SetupFields DEF DriveDoes
  <2>2. Promise!After(d, t, c) =
           IF c.op = "SetClusterVersion" THEN <<[d EXCEPT !.cluster = c.new], Told>>
           ELSE <<[d EXCEPT !.firmware = t], Told>>
      BY <1>9, SameAnswers DEF Promise!After
  <2>3. QED
      BY <1>9, <2>1, <2>2, SetupRenders
<1>10. CASE c.op = "GetLog"
  <2>1. m.messagetype = "GETLOG"
      BY <1>10, LogFields
  <2>2. DriveDoes(d, m) = <<d, [Reply EXCEPT !.types = m.types]>>
      BY <1>1, <2>1 DEF DriveDoes
  <2>3. Promise!After(d, t, c) =
           <<d, [Told EXCEPT !.sections = IF c.types = {Default} THEN Sections ELSE c.types]>>
      BY <1>10, SameAnswers DEF Promise!After, Promise!Default, Default
  <2>4. QED
      BY <1>10, <2>2, <2>3, LogRenders
<1>11. CASE c.op = "NoOp"
  <2>1. DriveDoes(d, m) = <<d, Reply>>
      BY <1>1, <1>11, BareFields DEF DriveDoes
  <2>2. Promise!After(d, t, c) = <<d, Told>>
      BY <1>11, SameAnswers DEF Promise!After
  <2>3. QED
      BY <1>11, <2>1, <2>2, ReplyRenders
<1>12. CASE c.op = "Flush"
  <2>1. DriveDoes(d, m) = <<Persist(d, Keys), Reply>>
      BY <1>1, <1>12, BareFields DEF DriveDoes
  <2>2. Promise!After(d, t, c) = <<Persist(d, Keys), Told>>
      BY <1>12, SameAnswers, SameChanges DEF Promise!After
  <2>3. QED
      BY <1>12, <2>1, <2>2, ReplyRenders
<1>13. CASE c.op = "P2PPush"
  <2>1. DriveDoes(d, m) = DrivePush(d, m)
      BY <1>1, <1>13, PushFields DEF DriveDoes
  <2>2. Promise!After(d, t, c) = Promise!AfterPush(d, c)
      BY <1>13 DEF Promise!After
  <2>3. QED
      BY <1>13, <2>1, <2>2, PushRenders
<1>14. c.op \in Operations
    BY CallsOfInterface
<1>15. QED
    BY <1>2, <1>3, <1>4, <1>5, <1>6, <1>7, <1>8, <1>9, <1>10, <1>11, <1>12, <1>13, <1>14
       DEF Operations, PinOperations

(* What a drive does with the command of a call, and what the callback will *)
(* hear of its response, is what the interface promises of the call.        *)
LEMMA DriveRenders ==
    ASSUME NEW d, DOMAIN d = Field, NEW t, NEW a, a.call \in Interface
    PROVE  Renders(a.call.op, DriveDoes(d, Command(t, a.cluster, a.call)), Promise!Outcome(d, t, a))
<1>1. PICK c \in Interface : c = a.call
    OBVIOUS
<1>2. PICK m : m = Command(t, a.cluster, c)
    OBVIOUS
<1>3. /\ m.clusterversion = a.cluster
      /\ m.pinoptype = "UNLOCK_PINOP" <=> c.op = "UnlockDevice"
    BY <1>2, Headers
<1>4. CASE a.cluster # d.cluster
  <2>1. DriveDoes(d, m)
          = <<d, [Fails("VERSION_FAILURE") EXCEPT !.clusterversion = d.cluster]>>
      BY <1>3, <1>4 DEF DriveDoes
  <2>2. Promise!Outcome(d, t, a) = <<d, Failure("REMOTE_CLUSTER_VERSION_MISMATCH", d.cluster)>>
      BY <1>4, SameAnswers DEF Promise!Outcome
  <2>3. QED
      BY <1>1, <1>2, <2>1, <2>2, VersionRenders
<1>5. CASE a.cluster = d.cluster /\ d.locked /\ c.op # "UnlockDevice"
  <2>1. DriveDoes(d, m) = <<d, Fails("DEVICE_LOCKED")>>
      BY <1>3, <1>5 DEF DriveDoes
  <2>2. Promise!Outcome(d, t, a) = <<d, Failure("REMOTE_OTHER_ERROR", 0)>>
      BY <1>1, <1>5, SameAnswers DEF Promise!Outcome
  <2>3. QED
      BY <1>1, <1>2, <2>1, <2>2, FailureRenders, StatusOfCode
<1>6. CASE a.cluster = d.cluster /\ ~ (d.locked /\ c.op # "UnlockDevice")
  <2>1. Promise!Outcome(d, t, a) = Promise!After(d, t, c)
      BY <1>1, <1>6 DEF Promise!Outcome
  <2>2. Renders(c.op, DriveDoes(d, m), Promise!After(d, t, c))
      BY <1>2, <1>6, WorkRenders
  <2>3. QED
      BY <1>1, <1>2, <2>1, <2>2
<1>7. QED
    BY <1>4, <1>5, <1>6

-----------------------------------------------------------------------------
(* The steps of the client are steps of the promise.  A call that was not   *)
(* made yet was not asked, and connections have versions of the drive's.    *)
AheadUnasked ==
    /\ clusterVersion \in [Connections -> ClusterVersions]
    /\ \A t \in Tickets : t > calls => asked[t] = NotYet

StoreInv == ClientInv /\ TellInv /\ AheadUnasked

(* What has come of the calls.                                              *)
Done == [t \in Tickets |-> IF response[t] = NotYet THEN NotYet
                           ELSE Heard(asked[t].call.op, response[t])]

LEMMA HeardSomething == ASSUME NEW op, NEW r PROVE Heard(op, r) # NotYet
<1>1. "expected" \notin DOMAIN NotYet
    BY DEF NotYet
<1>2. DOMAIN Handle(op, r) = DOMAIN Told
  <2>1. "expected" \in DOMAIN Told
      BY DEF Told
  <2>2. DOMAIN GetHandler(r) = DOMAIN Told
      BY DEF GetHandler
  <2>3. DOMAIN P2PPushHandler(r) = DOMAIN Told
      BY DEF P2PPushHandler
  <2>4. QED
      BY <2>2, <2>3 DEF Handle
<1>3. DOMAIN KineticStatus(r) = DOMAIN Told
    BY DEF KineticStatus, Failure
<1>4. "expected" \in DOMAIN Told
    BY DEF Told
<1>5. QED
    BY <1>1, <1>2, <1>3, <1>4 DEF Heard

LEMMA AheadUnaskedStays ==
    ASSUME AheadUnasked, UNCHANGED <<clusterVersion, calls, asked>>
    PROVE  AheadUnasked'
BY DEF AheadUnasked

LEMMA AheadUnaskedStep ==
    ASSUME StoreInv, [Next]_vars
    PROVE  AheadUnasked'
<1>1. calls \in Nat /\ DOMAIN asked = Tickets /\ Tickets \subseteq Nat
    BY ApiConstantsOK DEF StoreInv, ClientInv, RequestsOK, Tickets
<1>2. ASSUME NEW c \in Connections, Submit(c)
      PROVE  AheadUnasked'
    BY <1>1, <1>2 DEF Submit, StoreInv, AheadUnasked, client
<1>3. ASSUME NEW c \in Connections, SubmitTooLate(c)
      PROVE  AheadUnasked'
  <2>1. UNCHANGED <<clusterVersion, asked>> /\ calls' = calls + 1
      BY <1>3 DEF SubmitTooLate, client
  <2>2. QED
      BY <1>1, <2>1 DEF StoreInv, AheadUnasked
<1>4. ASSUME NEW c \in Connections, NEW version \in ClusterVersions,
             SetClientClusterVersion(c, version)
      PROVE  AheadUnasked'
    BY <1>4 DEF SetClientClusterVersion, StoreInv, AheadUnasked, requests
<1>5. ASSUME NEW c \in Connections,
             \/ Connect(c) \/ SendWrites(c) \/ DriveExecutes(c) \/ Callback(c)
             \/ DamagedResponse(c)
      PROVE  AheadUnasked'
    BY <1>5, AheadUnaskedStays DEF Connect, SendWrites, DriveExecutes, Callback, DamagedResponse,
       StoreInv, client, requests
<1>6. ASSUME NEW c \in Connections, SendFails(c) \/ ReceiveFails(c) \/ Destroy(c)
      PROVE  AheadUnasked'
    BY <1>6, AheadUnaskedStays DEF SendFails, ReceiveFails, Destroy, StoreInv, requests
<1>7. ASSUME NEW c \in Connections, NEW i \in DOMAIN pipeline[c], RemoveHandler(c, i)
      PROVE  AheadUnasked'
    BY <1>7, AheadUnaskedStays DEF RemoveHandler, StoreInv, client, requests
<1>8. ASSUME NEW k \in Keys, DriveWritesBack(k)
      PROVE  AheadUnasked'
    BY <1>8, AheadUnaskedStays DEF DriveWritesBack, StoreInv, client, requests
<1>9. CASE DriveCrashes
    BY <1>9, AheadUnaskedStays DEF DriveCrashes, StoreInv, client, requests
<1>10. CASE UNCHANGED vars
    BY <1>10, AheadUnaskedStays DEF vars, StoreInv
<1>11. QED
    BY <1>2, <1>3, <1>4, <1>5, <1>6, <1>7, <1>8, <1>9, <1>10 DEF Next

(* A step that neither asks, answers nor tells, and leaves the drive alone. *)
LEMMA PromiseStays ==
    ASSUME UNCHANGED <<drive, asked, response, told>>
    PROVE  UNCHANGED Promise!avars
BY DEF Promise!avars

LEMMA SubmitAsks ==
    ASSUME StoreInv, NEW c \in Connections, Submit(c)
    PROVE  \E t \in Tickets : Promise!Ask(t)
<1>1. PICK t \in Tickets : t = calls + 1 /\ program[t] \in Calls
    BY ApiConstantsOK DEF StoreInv, ClientInv, RequestsOK, Submit, Tickets, Calls
<1>2. t > calls /\ calls \in Nat
    BY <1>1 DEF StoreInv, ClientInv, RequestsOK
<1>3. asked[t] = NotYet /\ told[t] = NotYet /\ response[t] = NotYet
    BY <1>2 DEF StoreInv, AheadUnasked, TellInv, Ahead
<1>4. clusterVersion[c] \in ClusterVersions
    BY DEF StoreInv, AheadUnasked
<1>5. /\ asked' = [asked EXCEPT ![t] = [call |-> program[t], cluster |-> clusterVersion[c]]]
      /\ UNCHANGED <<drive, response, told>>
    BY <1>1 DEF Submit
<1>6. \A u \in Tickets : u # t => asked'[u] = asked[u]
    BY <1>5 DEF StoreInv, ClientInv, RequestsOK
<1>7. Done' = Done
    BY <1>3, <1>5, <1>6 DEF Done
<1>8. program[t] \in Promise!Calls
    BY <1>1 DEF Promise!Calls, Calls
<1>9. QED
    BY <1>3, <1>4, <1>5, <1>7, <1>8, SameAnswers DEF Promise!Ask, Done

LEMMA TooLateTurnsDown ==
    ASSUME StoreInv, NEW c \in Connections, SubmitTooLate(c)
    PROVE  \E t \in Tickets : Promise!TurnDown(t)
<1>1. PICK t \in Tickets : t = calls + 1
    BY ApiConstantsOK DEF StoreInv, ClientInv, RequestsOK, SubmitTooLate, Tickets
<1>2. t > calls /\ calls \in Nat
    BY <1>1 DEF StoreInv, ClientInv, RequestsOK
<1>3. asked[t] = NotYet /\ told[t] = NotYet
    BY <1>2 DEF StoreInv, AheadUnasked, TellInv, Ahead
<1>4. /\ told' = [told EXCEPT ![t] = Failure("CLIENT_SHUTDOWN", 0)]
      /\ UNCHANGED <<drive, asked, response>>
    BY <1>1 DEF SubmitTooLate
<1>5. QED
    BY <1>3, <1>4, SameAnswers DEF Promise!TurnDown

LEMMA ExecutionTakesEffect ==
    ASSUME StoreInv, NEW c \in Connections, DriveExecutes(c)
    PROVE  \E t \in Tickets : Promise!TakeEffect(t) \/ Promise!Refuse(t)
<1>1. RequestsOK /\ DOMAIN response = Tickets /\ DOMAIN drive = Field
    BY DEF StoreInv, ClientInv, TellInv, Ahead, Sound
<1>2. PICK t \in Tickets, i \in Unanswered(c) :
         /\ t = pipeline[c][i].ticket
         /\ \/ LET r == DriveDoes(drive, command[t])
               IN drive' = r[1] /\ response' = [response EXCEPT ![t] = r[2]]
            \/ /\ \E code \in DriveErrors : response' = [response EXCEPT ![t] = Fails(code)]
               /\ UNCHANGED drive
  <2>1. PICK i \in Unanswered(c) :
           LET t == pipeline[c][i].ticket
               r == DriveDoes(drive, command[t])
           IN \/ drive' = r[1] /\ response' = [response EXCEPT ![t] = r[2]]
              \/ /\ \E code \in DriveErrors : response' = [response EXCEPT ![t] = Fails(code)]
                 /\ UNCHANGED drive
      BY DEF DriveExecutes
  <2>2. pipeline[c][i].ticket \in Tickets
      BY <1>1, PipelineOf DEF Unanswered
  <2>3. QED
      BY <2>1, <2>2
<1>3. /\ Carried(t) /\ response[t] = NotYet
      /\ UNCHANGED <<asked, told>>
  <2>1. i \in DOMAIN pipeline[c] /\ response[t] = NotYet
      BY <1>2 DEF Unanswered
  <2>2. Carried(t)
      BY <1>1, <1>2, <2>1, PipelineOf DEF Waiting
  <2>3. QED
      BY <2>1, <2>2 DEF DriveExecutes, requests
<1> DEFINE op == asked[t].call.op
<1>4. ASSUME NEW r, r # NotYet, response' = [response EXCEPT ![t] = r]
      PROVE  Done' = [Done EXCEPT ![t] = Heard(op, r)]
  <2>1. response'[t] = r /\ \A u \in Tickets : u # t => response'[u] = response[u]
      BY <1>1, <1>4
  <2>2. Done'[t] = Heard(op, r)
      BY <1>3, <1>4, <2>1 DEF Done
  <2>3. \A u \in Tickets : u # t => Done'[u] = Done[u]
      BY <1>3, <2>1 DEF Done
  <2>4. QED
      BY <2>2, <2>3 DEF Done
<1>5. Done[t] = NotYet /\ asked[t] # NotYet
    BY <1>3 DEF Done, Carried
<1>6. CASE LET r == DriveDoes(drive, command[t])
           IN drive' = r[1] /\ response' = [response EXCEPT ![t] = r[2]]
  <2> DEFINE r == DriveDoes(drive, command[t])
             o == Promise!Outcome(drive, t, asked[t])
  <2>1. Renders(op, r, o)
      BY <1>1, <1>3, DriveRenders DEF Carried
  <2>2. r[1] = o[1] /\ Heard(op, r[2]) = o[2] /\ r[2] # NotYet
      BY <2>1 DEF Renders
  <2>3. Done' = [Done EXCEPT ![t] = o[2]]
      BY <1>4, <1>6, <2>2
  <2> HIDE DEF op, r
  <2>4. QED
      BY <1>3, <1>5, <1>6, <2>2, <2>3, SameAnswers DEF Promise!TakeEffect, Done, r
<1>7. CASE /\ \E code \in DriveErrors : response' = [response EXCEPT ![t] = Fails(code)]
           /\ UNCHANGED drive
  <2>1. PICK code \in DriveErrors : response' = [response EXCEPT ![t] = Fails(code)]
      BY <1>7
  <2> DEFINE status == ConvertFromProtoStatus(code)
  <2>2. status \in Refusals /\ code # "SUCCESS"
      BY DriveErrorsOK, ApiConstantsOK
  <2>3. Heard(op, Fails(code)) = Failure(status, 0)
    <3>1. status # "REMOTE_CLUSTER_VERSION_MISMATCH"
        BY <2>2 DEF Refusals
    <3>2. Fails(code).code = code
        BY DEF Fails, Reply
    <3>3. QED
        BY <2>2, <3>1, <3>2 DEF Heard, KineticStatus
  <2>4. Done' = [Done EXCEPT ![t] = Failure(status, 0)]
      BY <1>4, <2>1, <2>3, RepliesCame
  <2>5. status \in Promise!Refusals
      BY <2>2 DEF Promise!Refusals, Refusals
  <2> HIDE DEF op, status
  <2>6. QED
      BY <1>3, <1>5, <1>7, <2>4, <2>5, SameAnswers DEF Promise!Refuse, Done
<1>8. QED
    BY <1>2, <1>6, <1>7

LEMMA CallbackTellsDone ==
    ASSUME StoreInv, NEW c \in Connections, Callback(c)
    PROVE  (\E t \in Tickets : Promise!Tell(t)) \/ UNCHANGED Promise!avars
<1>1. RequestsOK /\ pipeline[c] # << >>
  <2>1. RequestsOK /\ pipeline[c] \in Seq(Waiting) /\ Len(pipeline[c]) > 0
      BY PipelineOf DEF StoreInv, ClientInv, Callback, RequestsOK
  <2>2. QED
      BY <2>1
<1>2. PICK p \in Waiting : p = pipeline[c][1] /\ p = Head(pipeline[c]) /\ 1 \in DOMAIN pipeline[c]
    BY <1>1, PipelineOf
<1>3. PICK t \in Tickets : t = p.ticket
    BY DEF Waiting
<1>4. UNCHANGED <<drive, asked, response>> /\ response[t] # NotYet
    BY <1>2, <1>3 DEF Callback, requests
<1>5. CASE p.handler
  <2>1. told' = [told EXCEPT ![t] = Heard(asked[t].call.op, response[t])]
      BY <1>2, <1>3, <1>5 DEF Callback
  <2>2. Done[t] = Heard(asked[t].call.op, response[t]) /\ Done[t] # NotYet
      BY <1>4, HeardSomething DEF Done
  <2>3. told[t] = NotYet
      BY <1>2, <1>3, <1>5 DEF StoreInv, TellInv, Queued
  <2>4. UNCHANGED Done
      BY <1>4 DEF Done
  <2>5. told' = [told EXCEPT ![t] = Done[t]]
      BY <2>1, <2>2
  <2>6. QED
      BY <1>4, <2>2, <2>3, <2>4, <2>5, SameAnswers DEF Promise!Tell, Done
<1>6. CASE ~ p.handler
  <2>1. UNCHANGED told
      BY <1>2, <1>6 DEF Callback
  <2>2. QED
      BY <1>4, <2>1, PromiseStays
<1>7. QED
    BY <1>5, <1>6

LEMMA ErrorsGiveUp ==
    ASSUME StoreInv, NEW c \in Connections, NEW is \in SUBSET DOMAIN pipeline[c],
           NEW error \in ClientErrors, TellError(Untold(c, is), error),
           UNCHANGED <<drive, asked, response>>
    PROVE  Promise!GiveUp
<1>1. /\ Len(pipeline[c]) \in Nat /\ DOMAIN pipeline[c] = 1 .. Len(pipeline[c])
      /\ \A i \in DOMAIN pipeline[c] : pipeline[c][i] \in Waiting
    BY PipelineOf DEF StoreInv, ClientInv
<1> DEFINE ts == Untold(c, is)
<1>2. \A t \in ts : t \in Tickets /\ asked[t] # NotYet /\ told[t] = NotYet
  <2>1. \A i \in is : i \in DOMAIN pipeline[c]
      OBVIOUS
  <2>2. ASSUME NEW i \in is, pipeline[c][i].handler
        PROVE  LET t == pipeline[c][i].ticket
               IN t \in Tickets /\ asked[t] # NotYet /\ told[t] = NotYet
      BY <1>1, <2>1, <2>2 DEF Waiting, Carried, StoreInv, TellInv, Queued
  <2>3. QED
      BY <2>2 DEF Untold
<1>3. told' = [t \in Tickets |-> IF t \in ts THEN Failure(error, 0) ELSE told[t]]
    BY DEF TellError
<1>4. UNCHANGED Done
    BY DEF Done
<1> HIDE DEF ts
<1>5. ts \in SUBSET Tickets /\ error \in Promise!ClientErrors
    BY <1>2 DEF Promise!ClientErrors, ClientErrors
<1>6. QED
    BY <1>2, <1>3, <1>4, <1>5, SameAnswers DEF Promise!GiveUp, Promise!Tickets, Tickets, Done

LEMMA StoreStep ==
    ASSUME StoreInv, [Next]_vars
    PROVE  [Promise!Next]_(Promise!avars)
<1>1. ASSUME NEW c \in Connections, Submit(c)
      PROVE  Promise!Next
    BY <1>1, SubmitAsks DEF Promise!Next, Promise!Tickets, Tickets
<1>2. ASSUME NEW c \in Connections, SubmitTooLate(c)
      PROVE  Promise!Next
    BY <1>2, TooLateTurnsDown DEF Promise!Next, Promise!Tickets, Tickets
<1>3. ASSUME NEW c \in Connections, DriveExecutes(c)
      PROVE  Promise!Next
    BY <1>3, ExecutionTakesEffect DEF Promise!Next, Promise!Tickets, Tickets
<1>4. ASSUME NEW c \in Connections, Callback(c)
      PROVE  Promise!Next \/ UNCHANGED Promise!avars
    BY <1>4, CallbackTellsDone DEF Promise!Next, Promise!Tickets, Tickets
<1>5. ASSUME NEW c \in Connections,
             DamagedResponse(c) \/ SendFails(c) \/ ReceiveFails(c) \/ Destroy(c)
      PROVE  Promise!Next
  <2>1. /\ DOMAIN pipeline[c] = 1 .. Len(pipeline[c]) /\ Len(pipeline[c]) \in Nat
        /\ written[c] \in Nat /\ written[c] <= Len(pipeline[c])
      BY PipelineOf DEF StoreInv, ClientInv, RequestsOK
  <2>2. InSender(c) \subseteq DOMAIN pipeline[c] /\ InReceiver(c) \subseteq DOMAIN pipeline[c]
      BY <2>1 DEF InSender, InReceiver
  <2>3. UNCHANGED <<drive, asked, response>>
      BY <1>5 DEF DamagedResponse, SendFails, ReceiveFails, Destroy, requests
  <2>4. \E is \in SUBSET DOMAIN pipeline[c], error \in ClientErrors :
           TellError(Untold(c, is), error)
    <3>1. CASE DamagedResponse(c)
        BY <2>2, <3>1 DEF DamagedResponse, ClientErrors
    <3>2. CASE SendFails(c)
        BY <2>2, <3>2 DEF SendFails, ClientErrors
    <3>3. CASE ReceiveFails(c)
        BY <2>2, <3>3 DEF ReceiveFails, ClientErrors
    <3>4. CASE Destroy(c)
      <4>1. PICK is \in SUBSET DOMAIN pipeline[c] : TellError(Untold(c, is), "CLIENT_SHUTDOWN")
          BY <3>4 DEF Destroy
      <4>2. QED
          BY <4>1 DEF ClientErrors
    <3>5. QED
        BY <1>5, <3>1, <3>2, <3>3, <3>4
  <2>5. Promise!GiveUp
      BY <2>3, <2>4, ErrorsGiveUp
  <2>6. QED
      BY <2>5 DEF Promise!Next
<1>7. ASSUME NEW k \in Keys, DriveWritesBack(k)
      PROVE  Promise!Next
  <2>1. drive' = Promise!Persist(drive, {k}) /\ UNCHANGED <<asked, response, told>>
      BY <1>7, SameChanges DEF DriveWritesBack, requests
  <2>2. Promise!MakePersistent
      BY <2>1 DEF Promise!MakePersistent
  <2>3. QED
      BY <2>2 DEF Promise!Next
<1>8. CASE DriveCrashes
  <2>1. Promise!Crash
      BY <1>8 DEF DriveCrashes, Promise!Crash, requests
  <2>2. QED
      BY <2>1 DEF Promise!Next
<1>9. ASSUME NEW c \in Connections,
             \/ Connect(c) \/ SendWrites(c)
             \/ \E version \in ClusterVersions : SetClientClusterVersion(c, version)
             \/ \E i \in DOMAIN pipeline[c] : RemoveHandler(c, i)
      PROVE  UNCHANGED Promise!avars
    BY <1>9, PromiseStays DEF Connect, SendWrites, SetClientClusterVersion, RemoveHandler, requests
<1>10. CASE UNCHANGED vars
    BY <1>10, PromiseStays DEF vars
<1>11. QED
    BY <1>1, <1>2, <1>3, <1>4, <1>5, <1>7, <1>8, <1>9, <1>10 DEF Next

LEMMA StoreInitially == ASSUME Init PROVE Promise!Init
<1>1. drive = Promise!NewDrive
    BY DEF Init, NewDrive, NoEntries, Nothing, Promise!NewDrive, Promise!NoEntries,
       Promise!Nothing, Promise!Empty, Empty
<1>2. asked = [t \in Promise!Tickets |-> NotYet] /\ told = [t \in Promise!Tickets |-> NotYet]
    BY DEF Init, Promise!Tickets, Tickets
<1>3. \A t \in Tickets : response[t] = NotYet
    BY DEF Init
<1>4. Done = [t \in Tickets |-> NotYet]
    BY <1>3 DEF Done
<1>5. QED
    BY <1>1, <1>2, <1>4, SameAnswers DEF Promise!Init, Promise!Tickets, Tickets, Done

LEMMA StoreInvariance == Spec => []StoreInv
<1>1. Init => StoreInv
  <2>1. Init => AheadUnasked
      BY ApiConstantsOK DEF Init, AheadUnasked
  <2>2. QED
      BY <2>1, ClientInitially, TellInitially DEF StoreInv
<1>2. StoreInv /\ [Next]_vars => StoreInv'
    BY ClientStep, TellStep, AheadUnaskedStep DEF StoreInv, ClientInv
<1>3. QED
    BY <1>1, <1>2, PTL DEF Spec

(* The client keeps what its interface promises: every call takes effect    *)
(* once, atomically, by its arguments and the cluster version its           *)
(* connection had when it was made (the commands), its callback is told     *)
(* what happened then (the handlers and GetKineticStatus) or a client's     *)
(* error, whatever connections interleave and fail.                         *)
THEOREM ClientImplementsStore == Spec => ImplementsStore
<1>1. Init => Promise!Init
    BY StoreInitially
<1>2. StoreInv /\ [Next]_vars => [Promise!Next]_(Promise!avars)
    BY StoreStep
<1>3. QED
    BY <1>1, <1>2, StoreInvariance, PTL DEF Spec, ImplementsStore, Promise!Spec

-----------------------------------------------------------------------------
(* Types.  The records a drive pushes to its peer come of a recursion over  *)
(* the operations of the push.                                              *)

(* A set of naturals has a least element.                                  *)
LEMMA LeastOf ==
    ASSUME NEW T, T \subseteq Nat, T # {}
    PROVE  \E n \in T : \A m \in T : n <= m
<1>1. PICK n \in T : \A m \in T : ~ (<<m, n>> \in OpToRel(<, Nat))
    BY NatLessThanWellFounded, WFMin, Zenon
<1>2. \A m \in T : ~ (m < n)
    BY <1>1 DEF OpToRel
<1>3. QED
    BY <1>2

(* Pushing is a recursion: what has come after k of the pushes.  That such  *)
(* a function exists is shown for the least k for which it would not, and   *)
(* then PushAll has chosen it.                                              *)
CameOf(d, peer, p) ==
    IF ~ Has(d.store, p.from) THEN "missing"
    ELSE IF p.force \/ peer[p.to].version = p.version THEN "done" ELSE "mismatch"

Pushed(d, was, p) ==
    LET came == CameOf(d, was.peer, p)
    IN [peer |-> IF came = "done" THEN [was.peer EXCEPT ![p.to] = d.store[p.from]]
                                  ELSE was.peer,
        came |-> Append(was.came, came)]

NonePushed(d) == [peer |-> d.peer, came |-> << >>]

Steps(d, pushes, f, n) ==
    f = [k \in 0 .. n |-> IF k = 0 THEN NonePushed(d) ELSE Pushed(d, f[k - 1], pushes[k])]

LEMMA StepsExist ==
    ASSUME NEW d, NEW pushes, NEW n \in Nat
    PROVE  \E f : Steps(d, pushes, f, n)
<1> DEFINE T == {k \in Nat : ~ \E f : Steps(d, pushes, f, k)}
<1>1. SUFFICES ASSUME T # {} PROVE FALSE
    OBVIOUS
<1>2. PICK k \in T : \A m \in T : k <= m
    BY <1>1, LeastOf
<1>3. CASE k = 0
  <2> DEFINE f == [i \in 0 .. 0 |-> NonePushed(d)]
  <2>1. Steps(d, pushes, f, 0)
      BY DEF Steps
  <2>2. QED
      BY <1>3, <2>1
<1>4. CASE k # 0
  <2>1. k - 1 \in Nat /\ k - 1 \notin T
      BY <1>2, <1>4
  <2>2. PICK f : Steps(d, pushes, f, k - 1)
      BY <2>1
  <2> DEFINE next(i) == IF i = 0 THEN NonePushed(d) ELSE Pushed(d, f[i - 1], pushes[i])
             g == [i \in 0 .. k |-> next(i)]
  <2>3. \A i \in 0 .. k - 1 : f[i] = next(i)
      BY <2>2, Zenon DEF Steps
  <2>4. \A i \in 0 .. k - 1 : g[i] = f[i]
      BY <2>1, <2>3
  <2>5. \A i \in 0 .. k : i # 0 => i - 1 \in 0 .. k - 1
      BY <2>1
  <2>6. \A i \in 0 .. k : next(i) = IF i = 0 THEN NonePushed(d) ELSE Pushed(d, g[i - 1], pushes[i])
      BY <2>4, <2>5
  <2> HIDE DEF next
  <2>7. g = [i \in 0 .. k |-> IF i = 0 THEN NonePushed(d) ELSE Pushed(d, g[i - 1], pushes[i])]
      BY <2>6, Zenon
  <2>8. Steps(d, pushes, g, k)
      BY <2>7, Zenon DEF Steps
  <2>9. QED
      BY <2>8
<1>5. QED
    BY <1>3, <1>4

LEMMA PushAllSteps ==
    ASSUME NEW d, NEW pushes, Len(pushes) \in Nat
    PROVE  \E f : Steps(d, pushes, f, Len(pushes)) /\ PushAll(d, pushes) = f[Len(pushes)]
<1> DEFINE f == CHOOSE f : Steps(d, pushes, f, Len(pushes))
<1>1. Steps(d, pushes, f, Len(pushes))
    BY StepsExist
<1>2. PushAll(d, pushes) = f[Len(pushes)]
    BY Zenon DEF PushAll, Steps, Pushed, NonePushed, CameOf
<1>3. QED
    BY <1>1, <1>2

LEMMA PushedPeer ==
    ASSUME NEW d, d.store \in [Keys -> Entries], d.peer \in [Keys -> Entries],
           NEW pushes, Len(pushes) \in Nat, 
           \A i \in 1 .. Len(pushes) : pushes[i].from \in Keys /\ pushes[i].to \in Keys
    PROVE  PushAll(d, pushes).peer \in [Keys -> Entries]
<1> DEFINE n == Len(pushes)
<1>1. PICK f : Steps(d, pushes, f, n) /\ PushAll(d, pushes) = f[n]
    BY PushAllSteps
<1> DEFINE T == {k \in 0 .. n : f[k].peer \notin [Keys -> Entries]}
<1>2. SUFFICES ASSUME T # {} PROVE FALSE
    BY <1>1
<1>3. PICK k \in T : \A m \in T : k <= m
  <2>1. T \subseteq Nat
      OBVIOUS
  <2>2. QED
      BY <1>2, <2>1, LeastOf
<1>4. f[k] = IF k = 0 THEN NonePushed(d) ELSE Pushed(d, f[k - 1], pushes[k])
    BY <1>1, <1>3, Zenon DEF Steps
<1>5. CASE k = 0
    BY <1>3, <1>4, <1>5 DEF NonePushed
<1>6. CASE k # 0
  <2>1. k - 1 \in 0 .. n /\ k - 1 \notin T /\ k \in 1 .. n
      BY <1>3, <1>6
  <2>2. PICK was : was = f[k - 1]
      OBVIOUS
  <2>3. was.peer \in [Keys -> Entries]
      BY <2>1, <2>2
  <2>4. PICK p : p = pushes[k]
      OBVIOUS
  <2>5. p.from \in Keys /\ p.to \in Keys
      BY <2>1, <2>4
  <2>6. f[k] = Pushed(d, was, p)
      BY <1>4, <1>6, <2>2, <2>4
  <2>7. Pushed(d, was, p).peer = was.peer
        \/ Pushed(d, was, p).peer = [was.peer EXCEPT ![p.to] = d.store[p.from]]
      BY DEF Pushed
  <2>8. [was.peer EXCEPT ![p.to] = d.store[p.from]] \in [Keys -> Entries]
      BY <2>3, <2>5
  <2>9. f[k].peer \in [Keys -> Entries]
      BY <2>3, <2>6, <2>7, <2>8, Zenon
  <2>10. QED
      BY <1>3, <2>9
<1>7. QED
    BY <1>5, <1>6

-----------------------------------------------------------------------------
(* What each call leaves is a drive.                                       *)
LEMMA DriveFields ==
    ASSUME NEW d \in Drives
    PROVE  /\ DOMAIN d = Field
           /\ {d.store, d.durable, d.peer} \subseteq [Keys -> Entries]
           /\ d.cluster \in ClusterVersions /\ {d.lockPin, d.erasePin} \subseteq Pin
           /\ d.locked \in BOOLEAN
           /\ d.acls \subseteq UNION {Grants(l) : l \in Acls} /\ d.firmware \in Tickets \cup {0}
BY DEF Drives, Field

LEMMA EntryFields ==
    ASSUME NEW e \in Entries
    PROVE  e.rev \in Nat
BY DEF Entries

LEMMA StoreTyped ==
    ASSUME NEW d \in Drives, NEW k \in Keys, NEW version \in Version, NEW t \in Tickets
    PROVE  Store(d, k, version, t) \in Drives
<1>1. [rev |-> d.store[k].rev + 1, here |-> TRUE, version |-> version, value |-> t] \in Entries
    BY DriveFields, EntryFields DEF Entries
<1>2. QED
    BY <1>1 DEF Store, Drives

LEMMA GoneTyped ==
    ASSUME NEW d \in Drives, NEW k \in Keys
    PROVE  [Nothing EXCEPT !.rev = d.store[k].rev + 1] \in Entries
<1>1. d.store[k].rev + 1 \in Nat
    BY DriveFields, EntryFields
<1>2. Nothing \in Entries
    BY DEF Nothing, Entries, Version
<1>3. QED
    BY <1>1, <1>2 DEF Entries

LEMMA DropTyped ==
    ASSUME NEW d \in Drives, NEW k \in Keys
    PROVE  Drop(d, k) \in Drives
BY GoneTyped DEF Drop, Drives

LEMMA EraseTyped ==
    ASSUME NEW d \in Drives
    PROVE  Erase(d) \in Drives
<1> DEFINE gone == [k \in Keys |-> [Nothing EXCEPT !.rev = d.store[k].rev + 1]]
<1>1. gone \in [Keys -> Entries]
    BY GoneTyped
<1> HIDE DEF gone
<1>2. [d EXCEPT !.store = gone, !.durable = gone] \in Drives
    BY <1>1 DEF Drives
<1>3. QED
    BY <1>2 DEF Erase, gone

LEMMA PersistTyped ==
    ASSUME NEW d \in Drives, NEW ks
    PROVE  Persist(d, ks) \in Drives
<1> DEFINE durable == [k \in Keys |-> IF k \in ks THEN d.store[k] ELSE d.durable[k]]
<1>1. durable \in [Keys -> Entries]
    BY DriveFields
<1> HIDE DEF durable
<1>2. [d EXCEPT !.durable = durable] \in Drives
    BY <1>1 DEF Drives
<1>3. QED
    BY <1>2 DEF Persist, durable

LEMMA MadePersistentTyped ==
    ASSUME NEW d \in Drives, NEW k, NEW mode
    PROVE  Promise!MadePersistent(d, k, mode) \in Drives
BY PersistTyped, SameChanges DEF Promise!MadePersistent

LEMMA PutTyped ==
    ASSUME NEW d \in Drives, NEW t \in Tickets, NEW c \in Interface, c.op = "Put"
    PROVE  Promise!AfterPut(d, t, c)[1] \in Drives
<1>1. c.key \in Keys /\ c.version \in Version \cup {Null}
    BY DEF Interface, Pointer
<1>2. PICK v : v = IF c.version = Promise!Null THEN Promise!Empty ELSE c.version
    OBVIOUS
<1>3. v \in Version
    BY <1>1, <1>2 DEF Promise!Null, Promise!Empty, Null, Empty, Version
<1>4. PICK e : e = Promise!MadePersistent(Store(d, c.key, v, t), c.key, c.persist)
    OBVIOUS
<1>5. e \in Drives
    BY <1>1, <1>3, <1>4, StoreTyped, MadePersistentTyped
<1>6. Promise!AfterPut(d, t, c)[1] \in {d, e}
    BY <1>2, <1>4, SameChanges DEF Promise!AfterPut
<1>7. QED
    BY <1>5, <1>6

LEMMA DeleteTyped ==
    ASSUME NEW d \in Drives, NEW c \in Interface, c.op = "Delete"
    PROVE  Promise!AfterDelete(d, c)[1] \in Drives
<1>1. c.key \in Keys
    BY DEF Interface
<1>2. PICK e : e = Promise!MadePersistent(Drop(d, c.key), c.key, c.persist)
    OBVIOUS
<1>3. e \in Drives
    BY <1>1, <1>2, DropTyped, MadePersistentTyped
<1>4. Promise!AfterDelete(d, c)[1] \in {d, e}
    BY <1>2, SameChanges DEF Promise!AfterDelete
<1>5. QED
    BY <1>3, <1>4

LEMMA PinOperationTyped ==
    ASSUME NEW d \in Drives, NEW c
    PROVE  Promise!AfterPinOperation(d, c)[1] \in Drives
<1>1. [d EXCEPT !.locked = TRUE] \in Drives /\ [d EXCEPT !.locked = FALSE] \in Drives
    BY DEF Drives
<1>2. Erase(d) \in Drives
    BY EraseTyped
<1>3. Promise!AfterPinOperation(d, c)[1]
        \in {d, [d EXCEPT !.locked = TRUE], [d EXCEPT !.locked = FALSE], Erase(d)}
    BY SameChanges DEF Promise!AfterPinOperation
<1>4. QED
    BY <1>1, <1>2, <1>3

LEMMA SetPinTyped ==
    ASSUME NEW d \in Drives, NEW c \in Interface, c.op \in {"SetLockPIN", "SetErasePIN"}
    PROVE  Promise!AfterSetPin(d, c)[1] \in Drives
<1>1. c.new \in Pin \cup {Null}
    BY DEF Interface, Pointer
<1>2. PICK now : now = IF c.new = Promise!Null
                       THEN (IF c.op = "SetLockPIN" THEN d.lockPin ELSE d.erasePin) ELSE c.new
    OBVIOUS
<1>3. now \in Pin
    BY <1>1, <1>2, DriveFields DEF Promise!Null, Null
<1>4. [d EXCEPT !.lockPin = now] \in Drives /\ [d EXCEPT !.erasePin = now] \in Drives
    BY <1>3 DEF Drives
<1>5. Promise!AfterSetPin(d, c)[1] \in {d, [d EXCEPT !.lockPin = now], [d EXCEPT !.erasePin = now]}
    BY <1>2 DEF Promise!AfterSetPin
<1>6. QED
    BY <1>4, <1>5

LEMMA PushTyped ==
    ASSUME NEW d \in Drives, NEW c \in Interface, c.op = "P2PPush"
    PROVE  Promise!AfterPush(d, c)[1] \in Drives
<1>1. c.operations \in Seq(P2POperations)
    BY DEF Interface
<1>2. PICK pushes : pushes = AskedPushes(c.operations)
    OBVIOUS
<1>3. Len(c.operations) \in Nat /\ DOMAIN c.operations = 1 .. Len(c.operations)
      /\ \A i \in DOMAIN c.operations : c.operations[i] \in P2POperations
    BY <1>1
<1>4. /\ DOMAIN pushes = 1 .. Len(c.operations)
      /\ \A i \in DOMAIN pushes : pushes[i].from \in Keys /\ pushes[i].to \in Keys
    BY <1>2, <1>3 DEF AskedPushes, P2POperations
<1>5. Len(pushes) = Len(c.operations)
    BY <1>3, <1>4
<1>6. PICK peer : peer = PushAll(d, pushes).peer
    OBVIOUS
<1>7. peer \in [Keys -> Entries]
    BY <1>3, <1>4, <1>5, <1>6, DriveFields, PushedPeer
<1>8. Promise!AfterPush(d, c)[1] = [d EXCEPT !.peer = peer]
    BY <1>2, <1>6, SameQuestions, Zenon DEF Promise!AfterPush, AskedPushes, Promise!NoKey, NoKey
<1>9. QED
    BY <1>7, <1>8 DEF Drives

LEMMA WorkTyped ==
    ASSUME NEW d \in Drives, NEW t \in Tickets, NEW c \in Interface
    PROVE  Promise!After(d, t, c)[1] \in Drives
<1>1. c.op \in Operations
    BY CallsOfInterface
<1>2. CASE c.op \in {"Put", "Delete"}
    BY <1>2, PutTyped, DeleteTyped DEF Promise!After
<1>3. CASE c.op \in {"Get", "GetVersion", "GetNext", "GetPrevious"}
  <2>1. Promise!After(d, t, c) = Promise!AfterGet(d, c)
      BY <1>3 DEF Promise!After
  <2>2. Promise!AfterGet(d, c)[1] = d
      BY DEF Promise!AfterGet
  <2>3. QED
      BY <2>1, <2>2
<1>4. CASE c.op \in {"GetKeyRange", "MediaScan", "MediaOptimize"}
  <2>1. Promise!After(d, t, c) = Promise!AfterRange(d, c)
      BY <1>4 DEF Promise!After
  <2>2. Promise!AfterRange(d, c)[1] = d
      BY DEF Promise!AfterRange
  <2>3. QED
      BY <2>1, <2>2
<1>5. CASE c.op \in {"InstantErase", "SecureErase", "LockDevice", "UnlockDevice"}
  <2>1. Promise!After(d, t, c) = Promise!AfterPinOperation(d, c)
      BY <1>5 DEF Promise!After
  <2>2. QED
      BY <2>1, PinOperationTyped
<1>6. CASE c.op \in {"SetLockPIN", "SetErasePIN"}
  <2>1. Promise!After(d, t, c) = Promise!AfterSetPin(d, c)
      BY <1>6 DEF Promise!After
  <2>2. QED
      BY <1>6, <2>1, SetPinTyped
<1>7. CASE c.op = "SetACLs"
  <2>1. c.acls \in Acls
      BY <1>7 DEF Interface
  <2>2. [d EXCEPT !.acls = Grants(c.acls)] \in Drives
      BY <2>1, Zenon DEF Drives
  <2>3. Promise!After(d, t, c)[1] = [d EXCEPT !.acls = Grants(c.acls)]
      BY <1>7, SameQuestions DEF Promise!After
  <2>4. QED
      BY <2>2, <2>3
<1>8. CASE c.op = "SetClusterVersion"
  <2>1. c.new \in ClusterVersions
      BY <1>8 DEF Interface
  <2>2. QED
      BY <1>8, <2>1 DEF Promise!After, Drives
<1>9. CASE c.op = "UpdateFirmware"
    BY <1>9 DEF Promise!After, Drives
<1>10. CASE c.op = "Flush"
    BY <1>10, PersistTyped, SameChanges DEF Promise!After
<1>11. CASE c.op \in {"GetLog", "NoOp"}
    BY <1>11 DEF Promise!After
<1>12. CASE c.op = "P2PPush"
    BY <1>12, PushTyped DEF Promise!After
<1>13. QED
    BY <1>1, <1>2, <1>3, <1>4, <1>5, <1>6, <1>7, <1>8, <1>9, <1>10, <1>11, <1>12 DEF Operations

LEMMA OutcomeTyped ==
    ASSUME NEW d \in Drives, NEW t \in Tickets, NEW a, a.call \in Interface
    PROVE  Promise!Outcome(d, t, a)[1] \in Drives
BY WorkTyped DEF Promise!Outcome

-----------------------------------------------------------------------------
(* The steps.                                                              *)
LEMMA CommandMade ==
    ASSUME NEW t, NEW v, NEW c \in Interface
    PROVE  Command(t, v, c) # NotYet
<1>2. \A m : DOMAIN NewCommand(v, m) = DOMAIN Unset
    BY DEF NewCommand
<1>3. \A new : /\ DOMAIN PutCommand(new, t, c) = DOMAIN new
               /\ DOMAIN DeleteCommand(new, c) = DOMAIN new
               /\ DOMAIN SetLockPinCommand(new, c) = DOMAIN new
               /\ DOMAIN SetErasePinCommand(new, c) = DOMAIN new
               /\ DOMAIN GetLogCommand(new, c) = DOMAIN new
               /\ DOMAIN AclCommand(new, c) = DOMAIN new
    BY DEF PutCommand, DeleteCommand, SetLockPinCommand, SetErasePinCommand, GetLogCommand,
       AclCommand
<1>4. \A new : /\ DOMAIN KeyRangeCommand(new, c) = DOMAIN new
               /\ DOMAIN MediaScanCommand(new, c) = DOMAIN new
               /\ DOMAIN MediaOptimizeCommand(new, c) = DOMAIN new
               /\ \A type : DOMAIN PinCommand(new, c, type) = DOMAIN new
    BY DEF KeyRangeCommand, MediaScanCommand, MediaOptimizeCommand, PinCommand, RangeCommand
<1>5. c.op \in Operations
    BY CallsOfInterface
<1>6. DOMAIN Command(t, v, c) = DOMAIN Unset
    BY <1>2, <1>3, <1>4, <1>5 DEF Command, Operations
<1>7. "messagetype" \in DOMAIN Unset /\ "messagetype" \notin DOMAIN NotYet
    BY DEF Unset, NotYet
<1>8. QED
    BY <1>6, <1>7

LEMMA TypesStay ==
    ASSUME ClientTypeOK, StoreInv, UNCHANGED <<client, link, drive, requests>>,
           faults' \in 0 .. MaxFaults, RequestsOK'
    PROVE  ClientTypeOK'
BY DEF ClientTypeOK, RequestsOK, client, requests

LEMMA Counted == \A wrong \in BOOLEAN : ClientTypeOK /\ Goes(wrong) => faults' \in 0 .. MaxFaults
BY ApiConstantsOK DEF ClientTypeOK, Goes

LEMMA ConnectTypes ==
    ASSUME ClientTypeOK, NEW c \in Connections, Connect(c)
    PROVE  ClientTypeOK'
BY Counted DEF Connect, ClientTypeOK, client, requests

LEMMA VersionTypes ==
    ASSUME ClientTypeOK, NEW c \in Connections, NEW version \in ClusterVersions,
           SetClientClusterVersion(c, version)
    PROVE  ClientTypeOK'
BY Counted DEF SetClientClusterVersion, ClientTypeOK, requests

LEMMA SubmitTypes ==
    ASSUME ClientTypeOK, StoreInv, NEW c \in Connections, Submit(c)
    PROVE  ClientTypeOK'
<1> DEFINE t == calls + 1
           call == program[t]
<1>1. /\ program \in Workloads /\ calls \in 0 .. Len(program) /\ calls < Len(program)
      /\ Len(program) \in Nat /\ Len(program) <= MaxCalls
    BY ApiConstantsOK DEF ClientTypeOK, Submit
<1>2. t \in Tickets /\ t \in DOMAIN program /\ t \in 0 .. Len(program)
    BY <1>1, ApiConstantsOK DEF Tickets
<1>3. call \in Calls /\ call \in Interface
  <2>1. call \in {program[i] : i \in DOMAIN program}
      BY <1>2
  <2>2. call \in Calls
      BY <1>1, <2>1, Zenon DEF Calls
  <2>3. QED
      BY <1>1, <1>2, <2>2, ApiConstantsOK
<1>4. [call |-> call, cluster |-> clusterVersion[c]] \in Asked
    BY <1>3 DEF ClientTypeOK, Asked
<1>5. Command(t, clusterVersion[c], call) # NotYet
    BY <1>3, CommandMade
<1>6. [call |-> call, cluster |-> clusterVersion[c]] # NotYet
    BY DEF NotYet
<1>7. faults' \in 0 .. MaxFaults
    BY Counted DEF Submit
<1>8. /\ command' = [command EXCEPT ![t] = Command(t, clusterVersion[c], call)]
      /\ asked' = [asked EXCEPT ![t] = [call |-> call, cluster |-> clusterVersion[c]]]
      /\ calls' = t /\ UNCHANGED <<program, clusterVersion, failed, open, link, written, drive>>
    BY DEF Submit, client
<1>9. DOMAIN command = Tickets
    BY DEF StoreInv, ClientInv, RequestsOK
<1> HIDE DEF t, call
<1>10. asked' \in [Tickets -> Asked \cup {NotYet}]
    BY <1>2, <1>4, <1>8 DEF ClientTypeOK
<1>11. \A u \in Tickets : command'[u] # NotYet <=> asked'[u] # NotYet
    BY <1>2, <1>5, <1>6, <1>8, <1>9 DEF ClientTypeOK
<1>12. QED
    BY <1>2, <1>7, <1>8, <1>10, <1>11 DEF ClientTypeOK

LEMMA TooLateTypes ==
    ASSUME ClientTypeOK, NEW c \in Connections, SubmitTooLate(c)
    PROVE  ClientTypeOK'
<1>1. Len(program) \in Nat
    BY ApiConstantsOK DEF ClientTypeOK
<1>2. program' = program /\ calls' \in 0 .. Len(program)
    BY <1>1 DEF SubmitTooLate, ClientTypeOK
<1>3. faults' \in 0 .. MaxFaults
    BY Counted DEF SubmitTooLate
<1>4. UNCHANGED <<clusterVersion, failed, open, link, written, drive, command, asked>>
    BY DEF SubmitTooLate, client
<1>5. QED
    BY <1>2, <1>3, <1>4 DEF ClientTypeOK

LEMMA ExecutionTypes ==
    ASSUME ClientTypeOK, StoreInv, NEW c \in Connections, DriveExecutes(c)
    PROVE  ClientTypeOK'
<1>1. faults' \in 0 .. MaxFaults
    BY Counted DEF DriveExecutes
<1>2. PICK i \in DOMAIN pipeline[c] :
         drive' \in {drive, DriveDoes(drive, command[pipeline[c][i].ticket])[1]}
    BY DEF DriveExecutes, Unanswered
<1>3. PICK t \in Tickets : t = pipeline[c][i].ticket /\ Carried(t)
    BY PipelineOf DEF StoreInv, ClientInv, Waiting
<1>4. drive \in Drives
    BY DEF ClientTypeOK
<1>5. DriveDoes(drive, command[t])[1] = Promise!Outcome(drive, t, asked[t])[1]
    BY <1>3, <1>4, DriveFields, DriveRenders DEF Carried, Renders
<1>6. drive' \in Drives
    BY <1>2, <1>3, <1>4, <1>5, OutcomeTyped DEF Carried
<1>7. UNCHANGED <<client, link, written, requests>>
    BY DEF DriveExecutes
<1>8. QED
    BY <1>1, <1>6, <1>7 DEF ClientTypeOK, client, requests

LEMMA FailureTypes ==
    ASSUME ClientTypeOK, NEW c \in Connections, SendFails(c) \/ ReceiveFails(c) \/ Destroy(c)
    PROVE  ClientTypeOK'
<1>1. faults' \in 0 .. MaxFaults
    BY Counted DEF SendFails, ReceiveFails, Destroy, ClientTypeOK
<1>2. QED
    BY <1>1 DEF SendFails, ReceiveFails, Destroy, ClientTypeOK, requests

LEMMA CrashTypes ==
    ASSUME ClientTypeOK, DriveCrashes
    PROVE  ClientTypeOK'
<1>1. [drive EXCEPT !.store = drive.durable] \in Drives
    BY DriveFields DEF ClientTypeOK, Drives
<1>2. faults' \in 0 .. MaxFaults
    BY Counted DEF DriveCrashes
<1>3. link' \in [Connections -> {"closed", "up", "down"}]
    BY DEF DriveCrashes, ClientTypeOK
<1>4. QED
    BY <1>1, <1>2, <1>3 DEF DriveCrashes, ClientTypeOK, client, requests

LEMMA TypesStep == ASSUME ClientTypeOK, StoreInv, [Next]_vars PROVE ClientTypeOK'
<1>1. ASSUME NEW c \in Connections,
             \/ SendWrites(c) \/ Callback(c) \/ DamagedResponse(c)
             \/ \E i \in DOMAIN pipeline[c] : RemoveHandler(c, i)
      PROVE  ClientTypeOK'
  <2>1. RequestsOK'
      BY <1>1, PipelinesKeep DEF StoreInv, ClientInv
  <2>2. UNCHANGED <<client, link, drive, requests>>
      BY <1>1 DEF SendWrites, Callback, DamagedResponse, RemoveHandler
  <2>3. faults' \in 0 .. MaxFaults
    <3>1. Goes(FALSE) \/ Goes(TRUE) \/ \E wrong \in BOOLEAN : Goes(wrong)
        BY <1>1 DEF SendWrites, Callback, DamagedResponse, RemoveHandler, ClientTypeOK
    <3>2. QED
        BY <3>1, Counted
  <2>4. QED
      BY <2>1, <2>2, <2>3, TypesStay
<1>2. ASSUME NEW k \in Keys, DriveWritesBack(k)
      PROVE  ClientTypeOK'
    BY <1>2, Counted, PersistTyped DEF DriveWritesBack, ClientTypeOK, client, requests
<1>3. CASE UNCHANGED vars
    BY <1>3 DEF vars, ClientTypeOK
<1>4. QED
    BY <1>1, <1>2, <1>3, ConnectTypes, VersionTypes, SubmitTypes, TooLateTypes, ExecutionTypes,
       FailureTypes, CrashTypes DEF Next

LEMMA TypesInitially == ASSUME Init PROVE ClientTypeOK
<1>1. Nothing \in Entries
    BY DEF Nothing, Entries, Version
<1>2. NewDrive \in Drives
    BY <1>1, ApiConstantsOK DEF NewDrive, NoEntries, Drives, Pin
<1>3. Len(program) \in Nat
    BY ApiConstantsOK DEF Init
<1>4. QED
    BY <1>2, <1>3, ApiConstantsOK DEF Init, ClientTypeOK, Asked

(* Every variable keeps its type, the drive's records and those pushed to   *)
(* its peer included, whatever commands reach it.                           *)
THEOREM ClientTypes == Spec => []ClientTypeOK
<1>1. Spec => []StoreInv
    BY StoreInvariance
<1>2. StoreInv /\ ClientTypeOK /\ [Next]_vars => ClientTypeOK'
    BY TypesStep
<1>3. Init => ClientTypeOK
    BY TypesInitially
<1>4. QED
    BY <1>1, <1>2, <1>3, PTL DEF Spec

-----------------------------------------------------------------------------
(* Compare-and-swap.  What the drive does to the record of a key.           *)
WriteTypes == {"PUT", "DELETE"}

(* The record stays, or it goes, or it becomes that of the command; what is *)
(* durable stays, or becomes what is stored.  A write that succeeds has     *)
(* found the version it required, and if it is to be persistent it is.      *)
StoredBy(d, m, e, k) ==
    \/ e.store[k] = d.store[k]
    \/ e.store[k].version = Empty
    \/ /\ m.messagetype = "PUT" /\ m.key = k
       /\ e.store[k].version = m.newversion /\ e.store[k].value = m.value

SwappedBy(d, m, e, k) ==
    /\ m.force \/ d.store[k].version = m.dbversion
    /\ \/ e.store[k].version = Empty
       \/ m.messagetype = "PUT" /\ e.store[k].value = m.value
    /\ m.synchronization \in {"WRITETHROUGH", "FLUSH"} => e.durable[k] = e.store[k]

Records(d, m, r) ==
    /\ m.messagetype = "PUT" => r[2] # NotYet
    /\ \A k \in Keys :
        /\ StoredBy(d, m, r[1], k)
        /\ r[1].durable[k] \in {d.durable[k], r[1].store[k]}
        /\ m.messagetype \in WriteTypes /\ m.key = k /\ r[2].code = "SUCCESS"
             => SwappedBy(d, m, r[1], k)

LEMMA RepliesAreAnswers ==
    /\ Reply # NotYet
    /\ \A code : Fails(code) # NotYet
    /\ \A code, version : [Fails(code) EXCEPT !.clusterversion = version] # NotYet
<1>1. "code" \in DOMAIN Reply /\ "code" \notin DOMAIN NotYet
    BY DEF Reply, NotYet
<1>2. \A code, version : /\ DOMAIN Fails(code) = DOMAIN Reply
                         /\ DOMAIN [Fails(code) EXCEPT !.clusterversion = version] = DOMAIN Reply
    BY DEF Fails
<1>3. QED
    BY <1>1, <1>2

LEMMA SynchronizedRecords ==
    ASSUME NEW d, Sound(d), NEW m
    PROVE  LET e == Synchronized(d, m)
           IN /\ e.store = d.store
              /\ \A k \in Keys : e.durable[k] \in {d.durable[k], d.store[k]}
              /\ m.key \in Keys /\ m.synchronization \in {"WRITETHROUGH", "FLUSH"} =>
                    e.durable[m.key] = d.store[m.key]
<1>1. \A ks : /\ Persist(d, ks).store = d.store
              /\ \A k \in Keys : Persist(d, ks).durable[k]
                                   = IF k \in ks THEN d.store[k] ELSE d.durable[k]
    BY DEF Persist, Sound, Field
<1>2. QED
    BY <1>1 DEF Synchronized

LEMMA FailureRecords ==
    ASSUME NEW d, NEW m, NEW r, r[1] = d, r[2] # NotYet,
           m.messagetype \in WriteTypes => r[2].code # "SUCCESS"
    PROVE  Records(d, m, r)
BY DEF Records, StoredBy

LEMMA StoreEntries ==
    ASSUME NEW d, Sound(d), NEW key, NEW version, NEW value, NEW k \in Keys
    PROVE  /\ Store(d, key, version, value).durable = d.durable
           /\ k # key => Store(d, key, version, value).store[k] = d.store[k]
           /\ k = key => /\ Store(d, key, version, value).store[k].version = version
                         /\ Store(d, key, version, value).store[k].value = value
BY DEF Store, Sound, Field, Revisions

LEMMA DropEntries ==
    ASSUME NEW d, Sound(d), NEW key, NEW k \in Keys
    PROVE  /\ Drop(d, key).durable = d.durable
           /\ k # key => Drop(d, key).store[k] = d.store[k]
           /\ k = key => Drop(d, key).store[k].version = Empty
BY DEF Drop, Sound, Field, Revisions, Nothing

LEMMA EraseEntries ==
    ASSUME NEW d, Sound(d), NEW k \in Keys
    PROVE  Erase(d).store[k].version = Empty /\ Erase(d).durable[k] = Erase(d).store[k]
BY DEF Erase, Sound, Field, Nothing

LEMMA PutRecords ==
    ASSUME NEW d, Sound(d), NEW m, m.messagetype = "PUT"
    PROVE  Records(d, m, DrivePut(d, m))
<1>1. CASE Holds(d.store[m.key], m)
  <2> DEFINE s == Store(d, m.key, m.newversion, m.value)
             e == Synchronized(s, m)
  <2>1. DrivePut(d, m) = <<e, Reply>>
      BY <1>1 DEF DrivePut
  <2>2. Sound(s)
      BY StoreFollows DEF Follows
  <2>3. /\ e.store = s.store
        /\ \A k \in Keys : e.durable[k] \in {s.durable[k], s.store[k]}
        /\ m.key \in Keys /\ m.synchronization \in {"WRITETHROUGH", "FLUSH"} =>
              e.durable[m.key] = s.store[m.key]
      BY <2>2, SynchronizedRecords
  <2>4. \A k \in Keys :
           /\ s.durable = d.durable
           /\ k # m.key => s.store[k] = d.store[k]
           /\ k = m.key => s.store[k].version = m.newversion /\ s.store[k].value = m.value
      BY StoreEntries
  <2> HIDE DEF s, e
  <2>5. Records(d, m, <<e, Reply>>)
      BY <1>1, <2>3, <2>4, RepliesAreAnswers DEF Records, StoredBy, SwappedBy, Holds
  <2>6. QED
      BY <2>1, <2>5
<1>2. CASE ~Holds(d.store[m.key], m)
    BY <1>2, FailureRecords, RepliesAreAnswers DEF DrivePut, Fails, Reply
<1>3. QED
    BY <1>1, <1>2

LEMMA DeleteRecords ==
    ASSUME NEW d, Sound(d), NEW m, m.messagetype = "DELETE"
    PROVE  Records(d, m, DriveDelete(d, m))
<1> DEFINE s == Drop(d, m.key)
           e == Synchronized(s, m)
<1>1. CASE Holds(d.store[m.key], m) /\ DriveDelete(d, m) = <<e, Reply>>
  <2>2. Sound(s)
      BY DropFollows DEF Follows
  <2>3. /\ e.store = s.store
        /\ \A k \in Keys : e.durable[k] \in {s.durable[k], s.store[k]}
        /\ m.key \in Keys /\ m.synchronization \in {"WRITETHROUGH", "FLUSH"} =>
              e.durable[m.key] = s.store[m.key]
      BY <2>2, SynchronizedRecords
  <2>4. \A k \in Keys :
           /\ s.durable = d.durable
           /\ k # m.key => s.store[k] = d.store[k]
           /\ k = m.key => s.store[k].version = Empty
      BY DropEntries
  <2> HIDE DEF s, e
  <2>5. Records(d, m, <<e, Reply>>)
      BY <1>1, <2>3, <2>4, RepliesAreAnswers DEF Records, StoredBy, SwappedBy, Holds
  <2>6. QED
      BY <1>1, <2>5
<1>2. CASE \E code \in {"NOT_FOUND", "VERSION_MISMATCH"} : DriveDelete(d, m) = <<d, Fails(code)>>
    BY <1>2, FailureRecords, RepliesAreAnswers DEF Fails, Reply
<1>3. QED
    BY <1>1, <1>2 DEF DriveDelete

(* Every other command leaves the records alone, erases them or makes them  *)
(* durable.                                                                 *)
LEMMA OtherRecords ==
    ASSUME NEW d, NEW m, m.messagetype \notin WriteTypes, NEW r,
           \A k \in Keys : /\ r[1].store[k] = d.store[k] \/ r[1].store[k].version = Empty
                           /\ r[1].durable[k] \in {d.durable[k], r[1].store[k]}
    PROVE  Records(d, m, r)
BY DEF Records, StoredBy, WriteTypes

LEMMA DriveRecords ==
    ASSUME NEW d, Sound(d), NEW m, m.messagetype \in MessageTypes
    PROVE  Records(d, m, DriveDoes(d, m))
<1>1. CASE m.clusterversion # d.cluster
    BY <1>1, FailureRecords, RepliesAreAnswers DEF DriveDoes, Fails, Reply
<1>2. CASE m.clusterversion = d.cluster /\ d.locked /\ m.pinoptype # "UNLOCK_PINOP"
    BY <1>2, FailureRecords, RepliesAreAnswers DEF DriveDoes, Fails, Reply
<1>3. ASSUME m.clusterversion = d.cluster, ~(d.locked /\ m.pinoptype # "UNLOCK_PINOP")
      PROVE  Records(d, m, DriveDoes(d, m))
  <2> USE <1>3
  <2>1. CASE m.messagetype = "PUT"
      BY <2>1, PutRecords DEF DriveDoes
  <2>2. CASE m.messagetype = "DELETE"
      BY <2>2, DeleteRecords DEF DriveDoes
  <2>3. CASE m.messagetype \in ReadTypes
    <3>1. DriveDoes(d, m)[1] = d
        BY <2>3 DEF DriveDoes, DriveGet, ReadTypes
    <3>2. QED
        BY <2>3, <3>1, OtherRecords DEF ReadTypes, WriteTypes
  <2>4. CASE m.messagetype \in RangeTypes
    <3>1. DriveDoes(d, m)[1] = d
        BY <2>4 DEF DriveDoes, DriveRange, RangeTypes
    <3>2. QED
        BY <2>4, <3>1, OtherRecords DEF RangeTypes, WriteTypes
  <2>5. CASE m.messagetype = "PINOP"
    <3>1. DriveDoes(d, m)[1] \in
             {d, [d EXCEPT !.locked = TRUE], [d EXCEPT !.locked = FALSE], Erase(d)}
        BY <2>5 DEF DriveDoes, DrivePinOperation
    <3>2. \/ DriveDoes(d, m)[1] = Erase(d)
          \/ DriveDoes(d, m)[1].store = d.store /\ DriveDoes(d, m)[1].durable = d.durable
        BY <3>1 DEF Sound, Field
    <3> DEFINE r == DriveDoes(d, m)
    <3>3. \A k \in Keys : /\ r[1].store[k] = d.store[k] \/ r[1].store[k].version = Empty
                          /\ r[1].durable[k] \in {d.durable[k], r[1].store[k]}
        BY <3>2, EraseEntries
    <3> HIDE DEF r
    <3>4. Records(d, m, r)
        BY <2>5, <3>3, OtherRecords DEF WriteTypes
    <3>5. QED
        BY <3>4 DEF r
  <2>6. CASE m.messagetype \in {"SECURITY", "SETUP", "PEER2PEERPUSH", "GETLOG", "NOOP"}
    <3>1. DriveDoes(d, m)[1].store = d.store /\ DriveDoes(d, m)[1].durable = d.durable
      <4>1. CASE m.messagetype = "SECURITY"
        <5>1. DriveDoes(d, m) = DriveSecurity(d, m)
            BY <4>1 DEF DriveDoes
        <5>2. QED
            BY <5>1 DEF DriveSecurity, Sound, Field
      <4>2. CASE m.messagetype = "SETUP"
        <5>1. DriveDoes(d, m) = DriveSetup(d, m)
            BY <4>2 DEF DriveDoes
        <5> DEFINE e == DriveSetup(d, m)[1]
        <5>2. e.store = d.store /\ e.durable = d.durable
            BY DEF DriveSetup, Sound, Field
        <5>3. QED
            BY <5>1, <5>2
      <4>3. CASE m.messagetype = "PEER2PEERPUSH"
        <5>1. DriveDoes(d, m) = DrivePush(d, m)
            BY <4>3 DEF DriveDoes
        <5>2. PICK peer : DrivePush(d, m)[1] = [d EXCEPT !.peer = peer]
            BY PushChanges
        <5>3. QED
            BY <5>1, <5>2 DEF Sound, Field
      <4>4. CASE m.messagetype \in {"GETLOG", "NOOP"}
          BY <4>4 DEF DriveDoes
      <4>5. QED
          BY <2>6, <4>1, <4>2, <4>3, <4>4
    <3>2. QED
        BY <2>6, <3>1, OtherRecords DEF WriteTypes
  <2>7. CASE m.messagetype = "FLUSHALLDATA"
    <3>1. DriveDoes(d, m)[1] = Persist(d, Keys)
        BY <2>7 DEF DriveDoes
    <3>2. /\ Persist(d, Keys).store = d.store
          /\ \A k \in Keys : Persist(d, Keys).durable[k] = d.store[k]
        BY DEF Persist, Sound, Field
    <3>3. QED
        BY <2>7, <3>1, <3>2, OtherRecords DEF WriteTypes
  <2>8. QED
      BY <2>1, <2>2, <2>3, <2>4, <2>5, <2>6, <2>7 DEF MessageTypes
<1>4. QED
    BY <1>1, <1>2, <1>3

-----------------------------------------------------------------------------
(* A command that writes a record is that of a call that does, and asks the *)
(* drive for what the call says.                                            *)
LEMMA CommandWrites ==
    ASSUME NEW c \in Interface, NEW t, NEW v
    PROVE  LET m == Command(t, v, c)
           IN /\ m.messagetype \in MessageTypes
              /\ m.messagetype = "PUT" => c.op = "Put"
              /\ Writing(c) => /\ m.messagetype \in WriteTypes /\ m.key = c.key
                               /\ m.dbversion = c.current
                               /\ m.force = (c.mode = "IGNORE_VERSION")
              /\ Writing(c) /\ c.persist \in {"WRITE_THROUGH", "FLUSH"} =>
                    m.synchronization \in {"WRITETHROUGH", "FLUSH"}
              /\ c.op = "Put" => m.value = t /\ m.newversion \in {Empty, c.version}
<1> DEFINE m == Command(t, v, c)
<1>1. m.messagetype \in MessageTypes
    BY CommandOfCall
<1>2. Writing(c) /\ c.persist \in {"WRITE_THROUGH", "FLUSH"} =>
         GetSynchronizationForPersistMode(Persistence(c)) \in {"WRITETHROUGH", "FLUSH"}
    BY CallsOfInterface, PersistenceOfWrites
<1>3. CASE c.op = "Put"
  <2>1. m = PutCommand(NewCommand(v, "PUT"), t, c)
      BY <1>3 DEF Command
  <2>2. m.messagetype = "PUT" /\ m.key = c.key
        /\ m.synchronization = GetSynchronizationForPersistMode(Persistence(c))
      BY <2>1, PutCommandFields
  <2>3. m.dbversion = c.current /\ m.force = (c.mode = "IGNORE_VERSION") /\ m.value = t
        /\ m.newversion \in {Empty, c.version}
      BY <2>1 DEF PutCommand, NewCommand, Unset, SetIf
  <2> HIDE DEF m
  <2>4. QED
      BY <1>1, <1>2, <1>3, <2>2, <2>3 DEF m, Writing, WriteTypes
<1>4. CASE c.op = "Delete"
  <2>1. m = DeleteCommand(NewCommand(v, "DELETE"), c)
      BY <1>4 DEF Command
  <2>2. m.messagetype = "DELETE" /\ m.key = c.key
        /\ m.synchronization = GetSynchronizationForPersistMode(Persistence(c))
      BY <2>1, DeleteCommandFields
  <2>3. m.dbversion = c.current /\ m.force = (c.mode = "IGNORE_VERSION")
      BY <2>1 DEF DeleteCommand, NewCommand, Unset
  <2> HIDE DEF m
  <2>4. QED
      BY <1>1, <1>2, <1>4, <2>2, <2>3 DEF m, Writing, WriteTypes
<1>5. CASE ~Writing(c)
    BY <1>1, <1>5, TypeOfCommand, CallsOfInterface DEF Writing
<1>6. QED
    BY <1>3, <1>4, <1>5 DEF Writing

(* Only a success is reported as one.                                       *)
LEMMA OnlySuccessIsOK ==
    ASSUME NEW code, ConvertFromProtoStatus(code) = "OK"
    PROVE  code = "SUCCESS"
<1>1. DOMAIN CodeTable =
         {"SUCCESS", "HMAC_FAILURE", "NOT_AUTHORIZED", "VERSION_FAILURE", "INTERNAL_ERROR",
          "HEADER_REQUIRED", "NOT_FOUND", "VERSION_MISMATCH", "SERVICE_BUSY", "EXPIRED",
          "DATA_ERROR", "PERM_DATA_ERROR", "REMOTE_CONNECTION_ERROR", "NO_SPACE",
          "NO_SUCH_HMAC_ALGORITHM", "INVALID_REQUEST", "INVALID_STATUS_CODE",
          "NESTED_OPERATION_ERRORS"}
    BY DEF CodeTable
<1>2. \A x \in DOMAIN CodeTable \ {"SUCCESS"} : CodeTable[x] # "OK"
    BY <1>1 DEF CodeTable
<1>3. QED
    BY <1>2 DEF ConvertFromProtoStatus

LEMMA HeardTruly ==
    ASSUME NEW op, NEW r, Heard(op, r).status = "OK"
    PROVE  r.code = "SUCCESS"
<1>1. CASE r.code # "SUCCESS"
  <2>1. KineticStatus(r).status = ConvertFromProtoStatus(r.code)
      BY DEF KineticStatus, Failure, Told
  <2>2. QED
      BY <1>1, <2>1, OnlySuccessIsOK DEF Heard
<1>2. QED
    BY <1>1

-----------------------------------------------------------------------------
(* The inductive invariant.                                                 *)
Answered(t)  == response[t] # NotYet
Succeeded(t) == Answered(t) /\ response[t].code = "SUCCESS"
Stores(t, k, v) == IsWrite(t, {"Put"}, k) /\ asked[t].call.version = v

(* The writes that required version v of a key, are persistent, and that    *)
(* the drive carried out, whether or not anyone was told.                   *)
Swaps(k, v) ==
    {t \in Tickets : /\ IsWrite(t, {"Put", "Delete"}, k)
                     /\ asked[t].call.mode = "REQUIRE_SAME_VERSION"
                     /\ asked[t].call.current = v
                     /\ asked[t].call.persist \in {"WRITE_THROUGH", "FLUSH"}
                     /\ Succeeded(t)}

(* A call that was not made has no answer.                                  *)
Fresh ==
    /\ DOMAIN response = Tickets
    /\ \A t \in Tickets : /\ t > calls => asked[t] = NotYet
                          /\ Answered(t) => asked[t] # NotYet

ToldTruly ==
    /\ DOMAIN told = Tickets
    /\ \A t \in Tickets : told[t] # NotYet /\ told[t].status = "OK" => Succeeded(t)

(* The records of a key, now and after a crash.                             *)
RecordsOf(k) == {drive.store[k], drive.durable[k]}
StoredBefore(u, k, v) == u \in Tickets /\ Answered(u) /\ Stores(u, k, v)

(* A record with a version was put there, and its value says by which call. *)
Genuine ==
    \A k \in Keys, v \in Versions : \A e \in RecordsOf(k) :
        e.version = v => StoredBefore(e.value, k, v)

(* f gives every swap the call whose record it replaced: another one each,  *)
(* and one whose record is neither there nor comes back with a crash.       *)
Consumes(f, k, v) ==
    /\ f \in Injection(Swaps(k, v), Tickets)
    /\ \A t \in Swaps(k, v) :
          /\ StoredBefore(f[t], k, v)
          /\ \A e \in RecordsOf(k) : e.version = v => e.value # f[t]

Matched == \A k \in Keys, v \in Versions : \E f : Consumes(f, k, v)

SwapInv == Fresh /\ ToldTruly /\ Genuine /\ Matched

-----------------------------------------------------------------------------
(* The calls that have an answer stay what they are.                        *)
AnswersStay ==
    /\ UNCHANGED response
    /\ \A t \in Tickets : Answered(t) => asked'[t] = asked[t]

LEMMA SwapsStay ==
    ASSUME AnswersStay, NEW k, NEW v
    PROVE  /\ Swaps(k, v)' = Swaps(k, v)
           /\ \A u : StoredBefore(u, k, v) => StoredBefore(u, k, v)'
BY DEF AnswersStay, Swaps, StoredBefore, Stores, IsWrite, Answered, Succeeded

(* A step that brings no new record consumes nothing.                       *)
LEMMA RecordsStay ==
    ASSUME Genuine, Matched, AnswersStay, \A k \in Keys : RecordsOf(k)' \subseteq RecordsOf(k)
    PROVE  (Genuine /\ Matched)'
<1>1. Genuine'
    BY SwapsStay DEF Genuine
<1>2. Matched'
  <2> SUFFICES ASSUME NEW k \in Keys, NEW v \in Versions
               PROVE  \E f : Consumes(f, k, v)'
      BY DEF Matched
  <2>1. PICK f : Consumes(f, k, v)
      BY DEF Matched
  <2>2. Consumes(f, k, v)'
      BY <2>1, SwapsStay DEF Consumes
  <2>3. QED
      BY <2>2
<1>3. QED
    BY <1>1, <1>2

(* What the drive does with a command.                                      *)
Executes(t, r) ==
    /\ t \in Tickets /\ ~ Answered(t) /\ Carried(t)
    /\ response' = [response EXCEPT ![t] = r[2]] /\ UNCHANGED asked
    /\ drive' = r[1]

LEMMA AnswersGrow ==
    ASSUME Fresh, NEW t, NEW r, Executes(t, r), NEW k \in Keys, NEW v
    PROVE  /\ t \notin Swaps(k, v)
           /\ Swaps(k, v)' \in {Swaps(k, v), Swaps(k, v) \cup {t}}
           /\ \A u : StoredBefore(u, k, v) => u # t /\ StoredBefore(u, k, v)'
<1>1. \A u \in Tickets \ {t} : response'[u] = response[u] /\ asked'[u] = asked[u]
    BY DEF Fresh, Executes
<1>2. \A u \in Tickets \ {t} : u \in Swaps(k, v)' <=> u \in Swaps(k, v)
    BY <1>1 DEF Swaps, IsWrite, Answered, Succeeded
<1>3. t \notin Swaps(k, v)
    BY DEF Executes, Swaps, Succeeded
<1>4. Swaps(k, v) \subseteq Tickets /\ Swaps(k, v)' \subseteq Tickets
    BY DEF Swaps
<1>5. Swaps(k, v)' \in {Swaps(k, v), Swaps(k, v) \cup {t}}
    BY <1>2, <1>3, <1>4
<1>6. \A u : StoredBefore(u, k, v) => u # t /\ StoredBefore(u, k, v)'
    BY <1>1 DEF Executes, StoredBefore, Stores, IsWrite, Answered
<1>7. QED
    BY <1>3, <1>5, <1>6

(* It turns it down.                                                        *)
LEMMA RefusalKeeps ==
    ASSUME SwapInv, NEW t, NEW r, Executes(t, r), r[1] = drive, r[2].code # "SUCCESS"
    PROVE  (Genuine /\ Matched)'
<1>1. \A k : RecordsOf(k)' = RecordsOf(k)
    BY DEF Executes, RecordsOf
<1>2. Genuine'
    BY <1>1, AnswersGrow DEF SwapInv, Genuine
<1>3. Matched'
  <2> SUFFICES ASSUME NEW k \in Keys, NEW v \in Versions
               PROVE  \E f : Consumes(f, k, v)'
      BY DEF Matched
  <2>1. PICK f : Consumes(f, k, v)
      BY DEF Matched, SwapInv
  <2>2. t \notin Swaps(k, v)' /\ t \notin Swaps(k, v)
      BY AnswersGrow DEF Swaps, Succeeded, Executes, SwapInv, Fresh
  <2>3. Swaps(k, v)' = Swaps(k, v)
      BY <2>2, AnswersGrow DEF SwapInv
  <2>4. Consumes(f, k, v)'
      BY <1>1, <2>1, <2>3, AnswersGrow DEF Consumes, SwapInv
  <2>5. QED
      BY <2>4
<1>4. QED
    BY <1>2, <1>3


(* It carries it out, and nothing is consumed: the new record, if any, has  *)
(* the value of the call, which nobody has replaced before.                 *)
LEMMA NewRecords ==
    ASSUME ClientInv, SwapInv, NEW t, Executes(t, DriveDoes(drive, command[t])),
           NEW k \in Keys, NEW v \in Versions, NEW e \in RecordsOf(k)', e.version = v
    PROVE  \/ e \in RecordsOf(k)
           \/ e.value = t /\ StoredBefore(t, k, v)'
<1> DEFINE m == command[t]
           r == DriveDoes(drive, m)
<1>1. /\ m.messagetype \in MessageTypes
      /\ m.messagetype = "PUT" =>
            /\ asked[t].call.op = "Put" /\ m.value = t
            /\ m.key = asked[t].call.key /\ m.newversion \in {Empty, asked[t].call.version}
    BY CommandWrites DEF Executes, Carried, Writing
<1>2. Records(drive, m, r)
    BY <1>1, DriveRecords DEF ClientInv
<1>3. drive' = r[1] /\ response'[t] = r[2] /\ t \in Tickets /\ UNCHANGED asked /\ asked[t] # NotYet
    BY DEF Executes, Carried, SwapInv, Fresh
<1> HIDE DEF r, m
<1>4. v # Empty
    BY ApiConstantsOK
<1>5. e \in RecordsOf(k) \/ (e.version = v /\ m.messagetype = "PUT" /\ m.key = k
                              /\ e.version = m.newversion /\ e.value = m.value)
    BY <1>2, <1>3, <1>4 DEF Records, StoredBy, RecordsOf
<1>6. ASSUME m.messagetype = "PUT", m.key = k, m.newversion = v
      PROVE  StoredBefore(t, k, v)'
  <2>1. response'[t] # NotYet
      BY <1>2, <1>3, <1>6 DEF Records
  <2>2. QED
      BY <1>1, <1>3, <1>4, <1>6, <2>1 DEF StoredBefore, Stores, IsWrite, Answered
<1>7. QED
    BY <1>1, <1>5, <1>6

(* A swap has found a record of the version it required and has left none.  *)
LEMMA SwapReplaces ==
    ASSUME ClientInv, SwapInv, NEW t, Executes(t, DriveDoes(drive, command[t])),
           NEW k \in Keys, NEW v \in Versions, t \in Swaps(k, v)'
    PROVE  /\ drive.store[k].version = v
           /\ \A e \in RecordsOf(k)' : e.version = v => e.value = t
<1> DEFINE m == command[t]
           r == DriveDoes(drive, m)
           c == asked[t].call
<1>1. /\ c.op \in {"Put", "Delete"} /\ c.key = k /\ c.mode = "REQUIRE_SAME_VERSION"
      /\ c.current = v /\ c.persist \in {"WRITE_THROUGH", "FLUSH"}
    BY DEF Swaps, IsWrite, Executes
<1>2. /\ drive' = r[1] /\ r[2].code = "SUCCESS" /\ c \in Interface
      /\ m = Command(t, asked[t].cluster, c)
    BY DEF Swaps, Succeeded, Executes, Carried, SwapInv, Fresh
<1> HIDE DEF c, m
<1>3. /\ m.messagetype \in MessageTypes
      /\ m.messagetype = "PUT" => c.op = "Put"
      /\ Writing(c) => /\ m.messagetype \in WriteTypes /\ m.key = c.key
                       /\ m.dbversion = c.current
                       /\ m.force = (c.mode = "IGNORE_VERSION")
      /\ Writing(c) /\ c.persist \in {"WRITE_THROUGH", "FLUSH"} =>
            m.synchronization \in {"WRITETHROUGH", "FLUSH"}
      /\ c.op = "Put" => m.value = t
    BY <1>2, CommandWrites
<1>4. /\ m.messagetype \in MessageTypes /\ m.messagetype \in WriteTypes
      /\ m.key = k /\ m.dbversion = v /\ m.force = FALSE
      /\ m.synchronization \in {"WRITETHROUGH", "FLUSH"}
      /\ m.messagetype = "PUT" => m.value = t
    BY <1>1, <1>3 DEF Writing
<1>5. Records(drive, m, r)
    BY <1>4, DriveRecords DEF ClientInv
<1> HIDE DEF r
<1>6. SwappedBy(drive, m, r[1], k)
    BY <1>2, <1>4, <1>5 DEF Records
<1>7. v # Empty
    BY ApiConstantsOK
<1>8. QED
    BY <1>2, <1>4, <1>6, <1>7 DEF SwappedBy, RecordsOf

LEMMA ExecutionMatches ==
    ASSUME ClientInv, SwapInv, NEW t, Executes(t, DriveDoes(drive, command[t]))
    PROVE  (Genuine /\ Matched)'
<1>1. ASSUME NEW k \in Keys, NEW v \in Versions, NEW e \in RecordsOf(k)', e.version = v
      PROVE  StoredBefore(e.value, k, v)'
  <2>1. CASE e \in RecordsOf(k)
    <3>1. StoredBefore(e.value, k, v)
        BY <1>1, <2>1 DEF SwapInv, Genuine
    <3>2. QED
        BY <3>1, AnswersGrow DEF SwapInv
  <2>2. CASE e.value = t /\ StoredBefore(t, k, v)'
      BY <2>2
  <2>3. QED
      BY <1>1, <2>1, <2>2, NewRecords
<1>2. ASSUME NEW k \in Keys, NEW v \in Versions
      PROVE  \E f : Consumes(f, k, v)'
  <2>1. PICK f : Consumes(f, k, v)
      BY DEF Matched, SwapInv
  <2> DEFINE D == Swaps(k, v)
  <2>2. /\ f \in [D -> Tickets] /\ \A a, b \in D : f[a] = f[b] => a = b
        /\ \A s \in D : /\ StoredBefore(f[s], k, v)
                        /\ \A e \in RecordsOf(k) : e.version = v => e.value # f[s]
      BY <2>1 DEF Consumes, Injection, IsInjective
  <2>3. /\ t \notin D /\ t \in Tickets
        /\ D' \in {D, D \cup {t}}
        /\ \A u : StoredBefore(u, k, v) => u # t /\ StoredBefore(u, k, v)'
      BY AnswersGrow DEF SwapInv, Executes
  <2>4. \A e \in RecordsOf(k)' : e.version = v => e \in RecordsOf(k) \/ e.value = t
      BY NewRecords
  <2>6. CASE D' = D
    <3> HIDE DEF D
    <3>1. f \in Injection(D', Tickets)
        BY <2>2, <2>6 DEF Injection, IsInjective
    <3>2. \A s \in D' : /\ StoredBefore(f[s], k, v)'
                        /\ \A e \in RecordsOf(k)' : e.version = v => e.value # f[s]
        BY <2>2, <2>3, <2>4, <2>6
    <3>3. QED
        BY <3>1, <3>2 DEF Consumes, D
  <2>7. CASE t \in D'
    <3>1. PICK u : u = drive.store[k].value
        OBVIOUS
    <3>2. /\ drive.store[k].version = v
          /\ \A e \in RecordsOf(k)' : e.version = v => e.value = t
        BY <2>7, SwapReplaces
    <3>3. StoredBefore(u, k, v) /\ \A s \in D : f[s] # u
        BY <2>2, <3>1, <3>2 DEF SwapInv, Genuine, RecordsOf
    <3>4. D' = D \cup {t} /\ u \in Tickets
        BY <2>3, <2>7, <3>3 DEF StoredBefore
    <3> HIDE DEF D
    <3>5. PICK g : g = [s \in D \cup {t} |-> IF s = t THEN u ELSE f[s]]
        OBVIOUS
    <3>6. g \in [D \cup {t} -> Tickets]
        BY <2>2, <3>4, <3>5
    <3>7. \A a, b \in D \cup {t} : g[a] = g[b] => a = b
        BY <2>2, <2>3, <3>3, <3>5
    <3>8. \A s \in D \cup {t} : StoredBefore(g[s], k, v)
        BY <2>2, <3>3, <3>5
    <3>9. g \in Injection(D', Tickets)
        BY <3>4, <3>6, <3>7 DEF Injection, IsInjective
    <3>10. \A s \in D' : /\ StoredBefore(g[s], k, v)'
                        /\ \A e \in RecordsOf(k)' : e.version = v => e.value # g[s]
        BY <2>3, <3>2, <3>4, <3>8
    <3>11. Consumes(g, k, v)'
        BY <3>9, <3>10 DEF Consumes, D
    <3>12. QED
        BY <3>11
  <2>8. QED
      BY <2>3, <2>6, <2>7
<1>3. QED
    BY <1>1, <1>2 DEF Genuine, Matched

-----------------------------------------------------------------------------
(* The steps.                                                               *)
LEMMA SwapInitially == ASSUME Init PROVE SwapInv
<1>1. Fresh /\ ToldTruly
    BY DEF Init, Fresh, ToldTruly, Answered
<1>2. Genuine
    BY ApiConstantsOK DEF Init, Genuine, RecordsOf, NewDrive, NoEntries, Nothing
<1>3. ASSUME NEW k \in Keys, NEW v \in Versions
      PROVE  \E f : Consumes(f, k, v)
  <2>1. Swaps(k, v) = {}
      BY DEF Init, Swaps, Succeeded, Answered
  <2>2. [t \in {} |-> 0] \in Injection({}, Tickets)
      BY DEF Injection, IsInjective
  <2>3. Consumes([t \in {} |-> 0], k, v)
      BY <2>1, <2>2 DEF Consumes
  <2>4. QED
      BY <2>3
<1>4. QED
    BY <1>1, <1>2, <1>3 DEF SwapInv, Matched

(* Steps that answer nothing, tell nothing and bring no record.             *)
LEMMA QuietKeeps ==
    ASSUME SwapInv, UNCHANGED <<response, calls, asked, told>>,
           \A k \in Keys : RecordsOf(k)' \subseteq RecordsOf(k)
    PROVE  SwapInv'
<1>1. AnswersStay
    BY DEF AnswersStay
<1>2. Fresh' /\ ToldTruly'
    BY DEF SwapInv, Fresh, ToldTruly, Answered, Succeeded
<1>3. QED
    BY <1>1, <1>2, RecordsStay DEF SwapInv

(* Callbacks that are told of an error, or of a success that is one.        *)
LEMMA TellingKeeps ==
    ASSUME SwapInv, UNCHANGED <<response, calls, asked, drive>>, DOMAIN told' = Tickets,
           \A t \in Tickets : \/ told'[t] = told[t]
                              \/ told'[t].status = "OK" => Succeeded(t)
    PROVE  SwapInv'
<1>1. AnswersStay /\ \A k : RecordsOf(k)' = RecordsOf(k)
    BY DEF AnswersStay, RecordsOf
<1>2. Fresh' /\ ToldTruly'
    BY DEF SwapInv, Fresh, ToldTruly, Answered, Succeeded
<1>3. QED
    BY <1>1, <1>2, RecordsStay DEF SwapInv

LEMMA ErrorsAreNoSuccess ==
    ASSUME SwapInv, UNCHANGED <<response, calls, asked, drive>>, NEW ts, NEW status \in ClientErrors,
           TellError(ts, status)
    PROVE  SwapInv'
<1>1. Failure(status, 0).status # "OK"
    BY DEF ClientErrors, Failure, Told
<1>2. DOMAIN told' = Tickets
      /\ \A t \in Tickets : told'[t] = told[t] \/ told'[t] = Failure(status, 0)
    BY DEF TellError
<1>3. \A t \in Tickets : \/ told'[t] = told[t]
                         \/ told'[t].status = "OK" => Succeeded(t)
    BY <1>1, <1>2
<1>4. QED
    BY <1>2, <1>3, TellingKeeps

LEMMA SubmitKeepsSwaps ==
    ASSUME ClientInv, SwapInv, NEW c \in Connections, Submit(c)
    PROVE  SwapInv'
<1>1. /\ UNCHANGED <<response, told, drive>> /\ calls \in Nat /\ calls' = calls + 1
      /\ DOMAIN asked = Tickets
    BY DEF Submit, ClientInv, RequestsOK
<1>2. \A t \in Tickets : t # calls + 1 => asked'[t] = asked[t]
    BY <1>1 DEF Submit
<1>3. \A t \in Tickets : Answered(t) => t # calls + 1
    BY <1>1 DEF SwapInv, Fresh, Tickets
<1>4. AnswersStay
    BY <1>1, <1>2, <1>3 DEF AnswersStay
<1>5. Fresh' /\ ToldTruly'
  <2>1. ASSUME NEW t \in Tickets, t > calls'
        PROVE  asked'[t] = NotYet
      BY <1>1, <1>2, <2>1 DEF SwapInv, Fresh, Tickets
  <2>2. \A t \in Tickets : Answered(t)' => asked'[t] # NotYet
      BY <1>1, <1>2, <1>3 DEF SwapInv, Fresh, Answered
  <2>3. QED
      BY <1>1, <2>1, <2>2 DEF SwapInv, Fresh, ToldTruly, Succeeded, Answered
<1>6. \A k : RecordsOf(k)' = RecordsOf(k)
    BY <1>1 DEF RecordsOf
<1>7. QED
    BY <1>4, <1>5, <1>6, RecordsStay DEF SwapInv

LEMMA TooLateKeepsSwaps ==
    ASSUME ClientInv, SwapInv, NEW c \in Connections, SubmitTooLate(c)
    PROVE  SwapInv'
<1>1. /\ UNCHANGED <<response, asked, drive>> /\ calls \in Nat /\ calls' = calls + 1
    BY DEF SubmitTooLate, ClientInv, RequestsOK
<1>2. Failure("CLIENT_SHUTDOWN", 0).status # "OK"
    BY DEF Failure, Told
<1>3. AnswersStay /\ \A k : RecordsOf(k)' = RecordsOf(k)
    BY <1>1 DEF AnswersStay, RecordsOf
<1>4. Fresh'
    BY <1>1 DEF SwapInv, Fresh, Answered, Tickets
<1>5. \A t \in Tickets : told'[t] = told[t] \/ told'[t] = Failure("CLIENT_SHUTDOWN", 0)
    BY DEF SubmitTooLate, SwapInv, ToldTruly
<1>6. DOMAIN told' = Tickets
    BY DEF SubmitTooLate, SwapInv, ToldTruly
<1>7. ToldTruly'
    BY <1>1, <1>2, <1>5, <1>6 DEF SwapInv, ToldTruly, Succeeded, Answered
<1>8. QED
    BY <1>3, <1>4, <1>7, RecordsStay DEF SwapInv

LEMMA CallbackKeepsSwaps ==
    ASSUME SwapInv, NEW c \in Connections, Callback(c)
    PROVE  SwapInv'
<1>1. PICK t, op : /\ response[t] # NotYet
                   /\ \/ UNCHANGED told
                      \/ told' = [told EXCEPT ![t] = Heard(op, response[t])]
    BY Zenon DEF Callback
<1>2. UNCHANGED <<response, calls, asked, drive>>
    BY DEF Callback, requests
<1>3. DOMAIN told' = Tickets
    BY <1>1 DEF SwapInv, ToldTruly
<1>4. Heard(op, response[t]).status = "OK" => Succeeded(t)
    BY <1>1, HeardTruly DEF Succeeded, Answered
<1>5. PICK heard : heard = Heard(op, response[t])
    OBVIOUS
<1>6. \A u \in Tickets : told'[u] = told[u] \/ (u = t /\ told'[u] = heard)
    BY <1>1, <1>5 DEF SwapInv, ToldTruly
<1>7. \A u \in Tickets : \/ told'[u] = told[u]
                         \/ told'[u].status = "OK" => Succeeded(u)
    BY <1>4, <1>5, <1>6
<1>8. QED
    BY <1>2, <1>3, <1>7, TellingKeeps

LEMMA ExecutionKeepsSwaps ==
    ASSUME ClientInv, SwapInv, NEW c \in Connections, DriveExecutes(c)
    PROVE  SwapInv'
<1>1. PICK i \in Unanswered(c) :
         LET t == pipeline[c][i].ticket
             r == DriveDoes(drive, command[t])
         IN \/ drive' = r[1] /\ response' = [response EXCEPT ![t] = r[2]]
            \/ /\ \E code \in DriveErrors : response' = [response EXCEPT ![t] = Fails(code)]
               /\ UNCHANGED drive
    BY DEF DriveExecutes
<1>2. PICK t \in Tickets : t = pipeline[c][i].ticket /\ Carried(t) /\ ~ Answered(t)
    BY <1>1, WaitingCalls DEF ClientInv, Unanswered, Answered
<1>3. UNCHANGED <<calls, asked, told>>
    BY DEF DriveExecutes, requests
<1>4. \A u \in Tickets \ {t} : response'[u] = response[u]
    BY <1>1, <1>2 DEF SwapInv, Fresh
<1>5. Fresh'
    BY <1>1, <1>2, <1>3, <1>4 DEF SwapInv, Fresh, Answered, Carried
<1>6. ToldTruly'
    BY <1>2, <1>3, <1>4 DEF SwapInv, ToldTruly, Succeeded, Answered
<1>7. (Genuine /\ Matched)'
  <2>1. CASE Executes(t, DriveDoes(drive, command[t]))
      BY <2>1, ExecutionMatches
  <2>2. ASSUME NEW code \in DriveErrors, Executes(t, <<drive, Fails(code)>>)
        PROVE  (Genuine /\ Matched)'
    <3>1. Fails(code).code # "SUCCESS"
        BY ApiConstantsOK DEF Fails, Reply
    <3>2. QED
        BY <2>2, <3>1, RefusalKeeps
  <2>3. QED
      BY <1>1, <1>2, <1>3, <2>1, <2>2 DEF Executes
<1>8. QED
    BY <1>5, <1>6, <1>7 DEF SwapInv

LEMMA SwapStep == ASSUME ClientInv, SwapInv, [Next]_vars PROVE SwapInv'
<1>1. UNCHANGED <<response, calls, asked, told, drive>> => SwapInv'
    BY QuietKeeps DEF RecordsOf
<1>2. ASSUME NEW c \in Connections, Connect(c) \/ SendWrites(c)
      PROVE  SwapInv'
    BY <1>1, <1>2 DEF Connect, SendWrites, requests
<1>3. ASSUME NEW c \in Connections, Submit(c)
      PROVE  SwapInv'
    BY <1>3, SubmitKeepsSwaps
<1>4. ASSUME NEW c \in Connections, SubmitTooLate(c)
      PROVE  SwapInv'
    BY <1>4, TooLateKeepsSwaps
<1>5. ASSUME NEW c \in Connections, DriveExecutes(c)
      PROVE  SwapInv'
    BY <1>5, ExecutionKeepsSwaps
<1>6. ASSUME NEW c \in Connections, Callback(c)
      PROVE  SwapInv'
    BY <1>6, CallbackKeepsSwaps
<1>7. ASSUME NEW c \in Connections, DamagedResponse(c)
      PROVE  SwapInv'
  <2>1. \E ts : TellError(ts, "CLIENT_RESPONSE_HMAC_VERIFICATION_ERROR")
      BY <1>7 DEF DamagedResponse
  <2>2. QED
      BY <1>7, <2>1, ErrorsAreNoSuccess DEF DamagedResponse, requests, ClientErrors
<1>8. ASSUME NEW c \in Connections, SendFails(c) \/ ReceiveFails(c) \/ Destroy(c)
      PROVE  SwapInv'
  <2>1. \E ts : TellError(ts, "CLIENT_IO_ERROR") \/ TellError(ts, "CLIENT_SHUTDOWN")
      BY <1>8 DEF SendFails, ReceiveFails, Destroy
  <2>2. UNCHANGED <<response, calls, asked, drive>>
      BY <1>8 DEF SendFails, ReceiveFails, Destroy, requests
  <2>3. QED
      BY <2>1, <2>2, ErrorsAreNoSuccess DEF ClientErrors
<1>9. ASSUME NEW c \in Connections, NEW version, SetClientClusterVersion(c, version)
      PROVE  SwapInv'
    BY <1>1, <1>9 DEF SetClientClusterVersion, requests
<1>10. ASSUME NEW c \in Connections, NEW i \in DOMAIN pipeline[c], RemoveHandler(c, i)
       PROVE  SwapInv'
    BY <1>1, <1>10 DEF RemoveHandler, requests
<1>11. ASSUME NEW k \in Keys, DriveWritesBack(k)
       PROVE  SwapInv'
  <2>1. /\ drive'.store = drive.store
        /\ \A l \in Keys : drive'.durable[l] \in {drive.store[l], drive.durable[l]}
      BY <1>11 DEF DriveWritesBack, Persist, ClientInv, Sound, Field
  <2>2. QED
      BY <1>11, <2>1, QuietKeeps DEF DriveWritesBack, requests, RecordsOf
<1>12. CASE DriveCrashes
  <2>1. drive'.store = drive.durable /\ drive'.durable = drive.durable
      BY <1>12 DEF DriveCrashes, ClientInv, Sound, Field
  <2>2. QED
      BY <1>12, <2>1, QuietKeeps DEF DriveCrashes, requests, RecordsOf
<1>13. CASE UNCHANGED vars
    BY <1>1, <1>13 DEF vars
<1>14. QED
    BY <1>2, <1>3, <1>4, <1>5, <1>6, <1>7, <1>8, <1>9, <1>10, <1>11, <1>12, <1>13 DEF Next

-----------------------------------------------------------------------------
(* As many swaps as were told of success, and no more than there are calls  *)
(* whose records they can have replaced.                                    *)
LEMMA MatchedIsOnce == ASSUME SwapInv PROVE SwappedOnce
<1> SUFFICES ASSUME NEW k \in Keys, NEW v \in Versions
             PROVE  Cardinality(Swapped(k, v))
                      <= Cardinality({t \in Tickets : Stores(t, k, v)})
    BY DEF SwappedOnce, Stores
<1> DEFINE P == {t \in Tickets : Stores(t, k, v)}
           D == Swaps(k, v)
<1>1. IsFiniteSet(Tickets)
    BY ApiConstantsOK, FS_Interval DEF Tickets
<1>2. IsFiniteSet(P) /\ IsFiniteSet(D)
    BY <1>1, FS_Subset DEF Swaps
<1>3. PICK f : Consumes(f, k, v)
    BY DEF SwapInv, Matched
<1>4. f \in Injection(D, P)
    BY <1>3 DEF Consumes, Injection, StoredBefore
<1>5. Cardinality(D) <= Cardinality(P)
    BY <1>2, <1>4, FS_Injection
<1>6. Swapped(k, v) \in SUBSET D
    BY DEF Swapped, Swaps, SwapInv, ToldTruly
<1>7. Cardinality(Swapped(k, v)) <= Cardinality(D)
    BY <1>2, <1>6, FS_Subset
<1>8. IsFiniteSet(Swapped(k, v))
    BY <1>2, <1>6, FS_Subset
<1> HIDE DEF P, D
<1>9. /\ Cardinality(P) \in Nat /\ Cardinality(D) \in Nat
      /\ Cardinality(Swapped(k, v)) \in Nat
    BY <1>2, <1>8, FS_CardinalityType
<1>10. QED
    BY <1>5, <1>7, <1>9 DEF P

(* Every conditional, persistent write that the drive carried out replaced  *)
(* the record of a call of its own, which no crash brings back.             *)
THEOREM SwapInvariance == Spec => []SwapInv
<1>1. Init => SwapInv
    BY SwapInitially
<1>2. ClientInv /\ SwapInv /\ [Next]_vars => SwapInv'
    BY SwapStep
<1>3. QED
    BY <1>1, <1>2, ClientInvariance, PTL DEF Spec

(* Compare-and-swap: of the persistent writes that required a version of a  *)
(* key, no more are reported as successes than calls stored that version,   *)
(* whatever connections they came from, and whatever crashed or failed.     *)
THEOREM SwapsSucceedOnce == Spec => []SwappedOnce
<1>1. SwapInv => SwappedOnce
    BY MatchedIsOnce
<1>2. QED
    BY <1>1, SwapInvariance, PTL
=============================================================================
