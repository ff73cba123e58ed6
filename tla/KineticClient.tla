---------------------------- MODULE KineticClient ----------------------------
(***************************************************************************)
(* kinetic::NonblockingKineticConnection                                   *)
(* (src/main/nonblocking_kinetic_connection.cc): every call becomes a      *)
(* command under the connection's cluster version, every response what its *)
(* callback is told.  Several connections share one drive; each sends its  *)
(* commands in the order of the calls and gets the responses in the order  *)
(* of the commands (PacketService).  A response may be damaged, the drive  *)
(* may crash, and either half of a connection may fail with commands on    *)
(* their way: the other half then keeps its handlers until the connection  *)
(* is destroyed.                                                           *)
(*                                                                         *)
(* A command, and a response, is a record of the protocol's fields; the    *)
(* fields that were not set have the values of Unset and of Reply.         *)
(***************************************************************************)
EXTENDS KineticApi

VARIABLES
    clusterVersion,  \* cluster_version_ of every connection
    failed,          \* whether the service of a connection has failed
    open,            \* whether the application has the connection
    link,            \* external: "closed", "up" or "down"
    pipeline,        \* the calls of a connection not answered yet, in order,
                     \* and whether their handlers are still there
    written,         \* how many of them, from the first, are written: their
                     \* handlers are the receiver's, the others the sender's
    command,         \* the commands of the calls made
    response,        \* external: the drive's responses
    drive,           \* external: the drive
    program,         \* the calls the applications make, in order
    calls,           \* how many of them have been made
    faults,          \* how many times something went wrong
    \* ghosts
    asked,           \* the calls made, and the version their connection had
    told,            \* what the callbacks were told
    covers,          \* the revisions a call's persist mode promises to keep
    promised         \* the revisions promised by the calls told of success

vars == <<clusterVersion, failed, open, link, pipeline, written, command, response,
          drive, program, calls, faults, asked, told, covers, promised>>

NotYet == [status |-> "notYet"]

-----------------------------------------------------------------------------
(* Commands.                                                               *)
Unset == [messagetype |-> "", clusterversion |-> 0, authtype |-> "HMACAUTH",
          priority |-> "NORMAL", pin |-> Empty, value |-> 0,
          key |-> NoKey, dbversion |-> Empty, newversion |-> Empty,
          force |-> FALSE, synchronization |-> Null,
          startkey |-> NoKey, startkeyinclusive |-> FALSE, endkey |-> NoKey,
          endkeyinclusive |-> FALSE, reverse |-> FALSE, maxreturned |-> 0,
          pinoptype |-> Null, newclusterversion |-> NoCluster,
          firmwaredownload |-> FALSE, acl |-> {},
          oldlockpin |-> Empty, newlockpin |-> Null,
          olderasepin |-> Empty, newerasepin |-> Null,
          types |-> {}, operation |-> << >>]

\* Seeded fault: the cluster version is left out of the header.
NewCommandBare(version, type) == [Unset EXCEPT !.messagetype = type]

NewCommand(version, type) ==
    [Unset EXCEPT !.messagetype = type, !.clusterversion = version]

\* Seeded fault: two of the cases are swapped.
SynchronizationSwapped(mode) ==
    CASE mode = "WRITE_BACK"    -> "WRITETHROUGH"
      [] mode = "WRITE_THROUGH" -> "WRITEBACK"
      [] mode = "FLUSH"         -> "FLUSH"

GetSynchronizationForPersistMode(mode) ==
    CASE mode = "WRITE_BACK"    -> "WRITEBACK"
      [] mode = "WRITE_THROUGH" -> "WRITETHROUGH"
      [] mode = "FLUSH"         -> "FLUSH"

(* What *pointer is set to, if the pointer points to anything.             *)
SetIf(pointer, unset) == IF pointer = Null THEN unset ELSE pointer

Persistence(c) == IF c.persist = Default THEN "WRITE_BACK" ELSE c.persist

\* Seeded fault: the write mode is understood the wrong way round.
PutForced(new, t, c) ==
    [new EXCEPT !.key = c.key, !.dbversion = c.current,
                !.force = (c.mode = "REQUIRE_SAME_VERSION"),
                !.newversion = SetIf(c.version, @), !.value = t,
                !.synchronization = GetSynchronizationForPersistMode(Persistence(c))]

PutCommand(new, t, c) ==
    [new EXCEPT !.key = c.key, !.dbversion = c.current,
                !.force = (c.mode = "IGNORE_VERSION"),
                !.newversion = SetIf(c.version, @), !.value = t,
                !.synchronization = GetSynchronizationForPersistMode(Persistence(c))]

DeleteCommand(new, c) ==
    [new EXCEPT !.key = c.key, !.dbversion = c.current,
                !.force = (c.mode = "IGNORE_VERSION"),
                !.synchronization = GetSynchronizationForPersistMode(Persistence(c))]

RangeCommand(new, c) ==
    [new EXCEPT !.startkey = c.start, !.startkeyinclusive = c.startInc,
                !.endkey = c.end, !.endkeyinclusive = c.endInc]

KeyRangeCommand(new, c) ==
    [RangeCommand(new, c) EXCEPT !.reverse = c.reverse, !.maxreturned = c.max]

MediaScanCommand(new, c) ==
    [RangeCommand(new, c) EXCEPT !.priority = "LOWER", !.maxreturned = c.max]

MediaOptimizeCommand(new, c) == [RangeCommand(new, c) EXCEPT !.priority = "LOWER"]

PinCommand(new, c, type) ==
    [new EXCEPT !.authtype = "PINAUTH", !.pin = SetIf(c.pin, @), !.pinoptype = type]

SetLockPinCommand(new, c) ==
    [new EXCEPT !.oldlockpin = SetIf(c.current, @), !.newlockpin = SetIf(c.new, @)]

SetErasePinCommand(new, c) ==
    [new EXCEPT !.olderasepin = SetIf(c.current, @), !.newerasepin = SetIf(c.new, @)]

GetLogCommand(new, c) ==
    [new EXCEPT !.types = IF c.types = {Default} THEN Sections ELSE c.types]

(* The permission of the protocol for each of the client's.                *)
PermissionTable ==
    [READ |-> "READ", WRITE |-> "WRITE", DELETE |-> "DELETE", RANGE |-> "RANGE",
     SETUP |-> "SETUP", P2POP |-> "P2POP", GETLOG |-> "GETLOG", SECURITY |-> "SECURITY"]

AclCommand(new, c) ==
    LET scope(s) == [offset |-> s.offset, value |-> s.value,
                     permission |-> {PermissionTable[p] : p \in s.permissions}]
    IN [new EXCEPT !.acl = {[identity |-> a.identity, key |-> a.hmac_key,
                             hmacalgorithm |-> "HmacSHA1",
                             scope |-> {scope(s) : s \in a.scopes}] : a \in c.acls}]

PopulateP2PMessage(operations) ==
    [i \in DOMAIN operations |->
        LET o == operations[i]
        IN [key |-> o.key, version |-> o.version, force |-> o.force,
            newkey |-> IF o.newKey # o.key THEN o.newKey ELSE NoKey]]

Command(t, version, c) ==
    LET new(type) == NewCommand(version, type) IN
    CASE c.op = "NoOp"        -> new("NOOP")
      [] c.op = "Flush"       -> new("FLUSHALLDATA")
      [] c.op = "Get"         -> [new("GET") EXCEPT !.key = c.key]
      [] c.op = "GetNext"     -> [new("GETNEXT") EXCEPT !.key = c.key]
      [] c.op = "GetPrevious" -> [new("GETPREVIOUS") EXCEPT !.key = c.key]
      [] c.op = "GetVersion"  -> [new("GETVERSION") EXCEPT !.key = c.key]
      [] c.op = "Put"         -> PutCommand(new("PUT"), t, c)
      [] c.op = "Delete"      -> DeleteCommand(new("DELETE"), c)
      [] c.op = "GetKeyRange" -> KeyRangeCommand(new("GETKEYRANGE"), c)
      [] c.op = "MediaScan"     -> MediaScanCommand(new("MEDIASCAN"), c)
      [] c.op = "MediaOptimize" -> MediaOptimizeCommand(new("MEDIAOPTIMIZE"), c)
      [] c.op = "InstantErase"  -> PinCommand(new("PINOP"), c, "ERASE_PINOP")
      [] c.op = "SecureErase"   -> PinCommand(new("PINOP"), c, "SECURE_ERASE_PINOP")
      [] c.op = "LockDevice"    -> PinCommand(new("PINOP"), c, "LOCK_PINOP")
      [] c.op = "UnlockDevice"  -> PinCommand(new("PINOP"), c, "UNLOCK_PINOP")
      [] c.op = "SetLockPIN"    -> SetLockPinCommand(new("SECURITY"), c)
      [] c.op = "SetErasePIN"   -> SetErasePinCommand(new("SECURITY"), c)
      [] c.op = "SetACLs"       -> AclCommand(new("SECURITY"), c)
      [] c.op = "SetClusterVersion" -> [new("SETUP") EXCEPT !.newclusterversion = c.new]
      [] c.op = "UpdateFirmware" -> [new("SETUP") EXCEPT !.firmwaredownload = TRUE, !.value = t]
      [] c.op = "GetLog"         -> GetLogCommand(new("GETLOG"), c)
      [] c.op = "P2PPush"        -> [new("PEER2PEERPUSH") EXCEPT
                                       !.operation = PopulateP2PMessage(c.operations)]

-----------------------------------------------------------------------------
(* External: what a drive does with a command, as the integration tests    *)
(* and the handlers expect of it.                                          *)
Reply == [code |-> "SUCCESS", clusterversion |-> 0, key |-> NoKey,
          dbversion |-> Empty, value |-> 0, keys |-> << >>, endkey |-> NoKey,
          operation |-> << >>, types |-> {}]

Fails(code) == [Reply EXCEPT !.code = code]

Synchronized(d, m) ==
    CASE m.synchronization = "WRITETHROUGH" -> Persist(d, {m.key})
      [] m.synchronization = "FLUSH"        -> Persist(d, Keys)
      [] OTHER                              -> d

Holds(entry, m) == m.force \/ entry.version = m.dbversion

DrivePut(d, m) ==
    IF Holds(d.store[m.key], m)
    THEN <<Synchronized(Store(d, m.key, m.newversion, m.value), m), Reply>>
    ELSE <<d, Fails("VERSION_MISMATCH")>>

DriveDelete(d, m) ==
    IF ~ m.force /\ ~ Has(d.store, m.key) THEN <<d, Fails("NOT_FOUND")>>
    ELSE IF Holds(d.store[m.key], m)
         THEN <<Synchronized(Drop(d, m.key), m), Reply>>
         ELSE <<d, Fails("VERSION_MISMATCH")>>

DriveGet(d, m) ==
    LET found == CASE m.messagetype = "GETNEXT"     -> NextKeys(d, m.key)
                   [] m.messagetype = "GETPREVIOUS" -> PreviousKeys(d, m.key)
                   [] OTHER -> {k \in {m.key} : Has(d.store, k)}
        k == CHOOSE k \in found : TRUE
    IN IF found = {} THEN <<d, Fails("NOT_FOUND")>>
       ELSE <<d, [Reply EXCEPT !.key = k, !.dbversion = d.store[k].version,
                    !.value = IF m.messagetype = "GETVERSION" THEN 0 ELSE d.store[k].value]>>

DriveRange(d, m) ==
    LET ks == {k \in Keys : Has(d.store, k) /\ Within(k, m.startkey, m.startkeyinclusive,
                                                      m.endkey, m.endkeyinclusive)}
    IN <<d, [Reply EXCEPT !.keys = FirstOf(ks, m.reverse, m.maxreturned), !.endkey = m.endkey]>>

DrivePinOperation(d, m) ==
    LET pin == IF m.pinoptype \in {"LOCK_PINOP", "UNLOCK_PINOP"} THEN d.lockPin ELSE d.erasePin
    IN IF m.authtype # "PINAUTH" \/ m.pin # pin THEN <<d, Fails("NOT_AUTHORIZED")>>
       ELSE <<CASE m.pinoptype = "LOCK_PINOP"   -> [d EXCEPT !.locked = TRUE]
                [] m.pinoptype = "UNLOCK_PINOP" -> [d EXCEPT !.locked = FALSE]
                [] OTHER                        -> Erase(d), Reply>>

DriveGrants(acl) ==
    UNION {UNION {{[identity |-> a.identity, key |-> a.key, offset |-> s.offset,
                    value |-> s.value, permission |-> p] : p \in s.permission}
                  : s \in a.scope} : a \in acl}

DriveSecurity(d, m) ==
    IF \/ m.newlockpin # Null /\ m.oldlockpin # d.lockPin
       \/ m.newerasepin # Null /\ m.olderasepin # d.erasePin
    THEN <<d, Fails("NOT_AUTHORIZED")>>
    ELSE <<[d EXCEPT !.lockPin = SetIf(m.newlockpin, @), !.erasePin = SetIf(m.newerasepin, @),
                     !.acls = IF m.acl = {} THEN @ ELSE DriveGrants(m.acl)], Reply>>

DriveSetup(d, m) ==
    <<[d EXCEPT !.cluster = IF m.newclusterversion = NoCluster THEN @ ELSE m.newclusterversion,
                !.firmware = IF m.firmwaredownload THEN m.value ELSE @], Reply>>

PushCode(came) ==
    CASE came = "missing"  -> "NOT_FOUND"
      [] came = "mismatch" -> "VERSION_MISMATCH"
      [] OTHER             -> "SUCCESS"

DrivePush(d, m) ==
    LET pushes == [i \in DOMAIN m.operation |->
            LET o == m.operation[i]
            IN [from |-> o.key, to |-> IF o.newkey = NoKey THEN o.key ELSE o.newkey,
                force |-> o.force, version |-> o.version]]
        r == PushAll(d, pushes)
        codes == [i \in DOMAIN r.came |-> PushCode(r.came[i])]
    IN <<[d EXCEPT !.peer = r.peer],
         [Reply EXCEPT !.operation = codes,
                       !.code = IF \E i \in DOMAIN codes : codes[i] # "SUCCESS"
                                THEN "NESTED_OPERATION_ERRORS" ELSE "SUCCESS"]>>

DriveDoes(d, m) ==
    CASE m.clusterversion # d.cluster ->
           <<d, [Fails("VERSION_FAILURE") EXCEPT !.clusterversion = d.cluster]>>
      [] m.clusterversion = d.cluster /\ d.locked /\ m.pinoptype # "UNLOCK_PINOP" ->
           <<d, Fails("DEVICE_LOCKED")>>
      [] OTHER ->
    CASE m.messagetype = "PUT"    -> DrivePut(d, m)
      [] m.messagetype = "DELETE" -> DriveDelete(d, m)
      [] m.messagetype \in {"GET", "GETNEXT", "GETPREVIOUS", "GETVERSION"}      -> DriveGet(d, m)
      [] m.messagetype \in {"GETKEYRANGE", "MEDIASCAN", "MEDIAOPTIMIZE"} -> DriveRange(d, m)
      [] m.messagetype = "PINOP"    -> DrivePinOperation(d, m)
      [] m.messagetype = "SECURITY" -> DriveSecurity(d, m)
      [] m.messagetype = "SETUP"    -> DriveSetup(d, m)
      [] m.messagetype = "FLUSHALLDATA"  -> <<Persist(d, Keys), Reply>>
      [] m.messagetype = "GETLOG"        -> <<d, [Reply EXCEPT !.types = m.types]>>
      [] m.messagetype = "PEER2PEERPUSH" -> DrivePush(d, m)
      [] m.messagetype = "NOOP"          -> <<d, Reply>>

-----------------------------------------------------------------------------
(* Responses.  A code the table does not have is some other error.         *)
CodeTable ==
    [SUCCESS |-> "OK", HMAC_FAILURE |-> "REMOTE_HMAC_ERROR",
     NOT_AUTHORIZED |-> "REMOTE_NOT_AUTHORIZED",
     VERSION_FAILURE |-> "REMOTE_CLUSTER_VERSION_MISMATCH",
     INTERNAL_ERROR |-> "REMOTE_INTERNAL_ERROR",
     HEADER_REQUIRED |-> "REMOTE_HEADER_REQUIRED",
     NOT_FOUND |-> "REMOTE_NOT_FOUND", VERSION_MISMATCH |-> "REMOTE_VERSION_MISMATCH",
     SERVICE_BUSY |-> "REMOTE_SERVICE_BUSY", EXPIRED |-> "REMOTE_EXPIRED",
     DATA_ERROR |-> "REMOTE_DATA_ERROR", PERM_DATA_ERROR |-> "REMOTE_PERM_DATA_ERROR",
     REMOTE_CONNECTION_ERROR |-> "REMOTE_REMOTE_CONNECTION_ERROR",
     NO_SPACE |-> "REMOTE_NO_SPACE",
     NO_SUCH_HMAC_ALGORITHM |-> "REMOTE_NO_SUCH_HMAC_ALGORITHM",
     INVALID_REQUEST |-> "REMOTE_INVALID_REQUEST",
     INVALID_STATUS_CODE |-> "CLIENT_INTERNAL_ERROR",
     NESTED_OPERATION_ERRORS |-> "REMOTE_NESTED_OPERATION_ERRORS"]

ConvertFromProtoStatus(code) ==
    IF code \in DOMAIN CodeTable THEN CodeTable[code] ELSE "REMOTE_OTHER_ERROR"

(* What a drive may turn any command down with is none of the codes that   *)
(* say something of the call.                                              *)
ASSUME DriveErrorsOK == \A code \in DriveErrors : ConvertFromProtoStatus(code) \in Refusals

(* GetKineticStatus: one status only carries the drive's cluster version.  *)
KineticStatus(r) ==
    LET code == ConvertFromProtoStatus(r.code)
    IN Failure(code, IF code = "REMOTE_CLUSTER_VERSION_MISMATCH" THEN r.clusterversion ELSE 0)

GetHandler(r) == [Told EXCEPT !.key = r.key, !.version = r.dbversion, !.value = r.value]

P2PPushHandler(r) ==
    [Told EXCEPT !.statuses = [i \in DOMAIN r.operation |->
                                  ConvertFromProtoStatus(r.operation[i])]]

Handle(op, r) ==
    CASE op \in {"Get", "GetNext", "GetPrevious"} -> GetHandler(r)
      [] op = "GetVersion"    -> [Told EXCEPT !.version = r.dbversion]
      [] op = "GetKeyRange"   -> [Told EXCEPT !.keys = r.keys]
      [] op = "MediaScan"     -> [Told EXCEPT !.keys = r.keys, !.last = r.endkey]
      [] op = "MediaOptimize" -> [Told EXCEPT !.last = r.endkey]
      [] op = "GetLog"        -> [Told EXCEPT !.sections = r.types]
      [] op = "P2PPush"       -> P2PPushHandler(r)
      [] OTHER                -> Told

Heard(op, r) == IF r.code = "SUCCESS" THEN Handle(op, r) ELSE KineticStatus(r)

-----------------------------------------------------------------------------
Init ==
    /\ clusterVersion = [c \in Connections |-> 0]
    /\ failed   = [c \in Connections |-> FALSE]
    /\ open     = [c \in Connections |-> FALSE]
    /\ link     = [c \in Connections |-> "closed"]
    /\ pipeline = [c \in Connections |-> << >>]
    /\ written  = [c \in Connections |-> 0]
    /\ command  = [t \in Tickets |-> NotYet]
    /\ response = [t \in Tickets |-> NotYet]
    /\ drive = NewDrive
    /\ program \in Workloads
    /\ calls = 0
    /\ faults = 0
    /\ asked = [t \in Tickets |-> NotYet]
    /\ told  = [t \in Tickets |-> NotYet]
    /\ covers   = [t \in Tickets |-> [k \in Keys |-> 0]]
    /\ promised = [k \in Keys |-> 0]

client   == <<clusterVersion, failed, open>>
requests == <<command, program, calls, asked>>
ghosts   == <<covers, promised>>

(* Bound: what a behaviour may see go wrong, which removing a handler and  *)
(* destroying a connection count as, unless the connection has failed.     *)
Goes(wrong) == IF wrong THEN faults < MaxFaults /\ faults' = faults + 1
                        ELSE UNCHANGED faults

(* The application opens a connection.                                     *)
Connect(c) ==
    /\ link[c] = "closed"
    /\ link' = [link EXCEPT ![c] = "up"]
    /\ open' = [open EXCEPT ![c] = TRUE]
    /\ calls < Len(program) /\ Goes(FALSE)
    /\ UNCHANGED <<clusterVersion, failed, pipeline, written, requests, response, drive,
                   told, ghosts>>

SetClientClusterVersion(c, version) ==
    /\ open[c] /\ clusterVersion[c] # version
    /\ ~ failed[c] /\ calls < Len(program) /\ Goes(FALSE)
    /\ clusterVersion' = [clusterVersion EXCEPT ![c] = version]
    /\ UNCHANGED <<failed, open, link, pipeline, written, requests, response, drive,
                   told, ghosts>>

(* Any of the calls: the command is made of the connection as it is now.   *)
Submit(c) ==
    LET t == calls + 1
        call == program[t]
    IN
    /\ open[c] /\ ~ failed[c] /\ calls < Len(program)
    /\ calls' = t /\ UNCHANGED program /\ Goes(FALSE)
    /\ command'  = [command EXCEPT ![t] = Command(t, clusterVersion[c], call)]
    /\ pipeline' = [pipeline EXCEPT ![c] = Append(@, [ticket |-> t, handler |-> TRUE])]
    /\ asked'    = [asked EXCEPT ![t] = [call |-> call, cluster |-> clusterVersion[c]]]
    /\ UNCHANGED <<client, link, written, response, drive, told, ghosts>>

(* The service has failed: the handler is called at once.                  *)
SubmitTooLate(c) ==
    LET t == calls + 1 IN
    /\ open[c] /\ failed[c] /\ calls < Len(program)
    /\ calls' = t /\ UNCHANGED program /\ Goes(FALSE)
    /\ told' = [told EXCEPT ![t] = Failure("CLIENT_SHUTDOWN", 0)]
    /\ UNCHANGED <<client, link, pipeline, written, command, asked, response, drive, ghosts>>

(* A request is written; its handler goes to the receiver.                 *)
SendWrites(c) ==
    /\ open[c] /\ ~ failed[c] /\ written[c] < Len(pipeline[c]) /\ Goes(FALSE)
    /\ written' = [written EXCEPT ![c] = @ + 1]
    /\ UNCHANGED <<client, link, pipeline, requests, response, drive, told, ghosts>>

(* A request still in the sender goes with its handler, one that is on its *)
(* way does not.  Handlers can be removed from a failed connection, too.   *)
RemoveHandler(c, i) ==
    /\ open[c] /\ pipeline[c][i].handler /\ Goes(~ failed[c])
    /\ pipeline' = IF i <= written[c]
                   THEN [pipeline EXCEPT ![c][i].handler = FALSE]
                   ELSE [pipeline EXCEPT ![c] = RemoveAt(@, i)]
    /\ UNCHANGED <<client, link, written, requests, response, drive, told, ghosts>>

(* External: the drive takes the next command of a connection, or turns it *)
(* down.                                                                   *)
Unanswered(c) == {i \in DOMAIN pipeline[c] : response[pipeline[c][i].ticket] = NotYet}

Covered(d, call) ==
    [k \in Keys |->
        IF \/ call.op = "Flush"
           \/ call.op \in {"Put", "Delete"} /\ call.persist = "FLUSH"
           \/ call.op \in {"Put", "Delete"} /\ call.persist = "WRITE_THROUGH" /\ call.key = k
        THEN d.store[k].rev ELSE 0]

DriveExecutes(c) ==
    /\ link[c] = "up"
    /\ \E i \in Unanswered(c) :
         /\ i <= written[c] /\ \A j \in Unanswered(c) : i <= j
         /\ LET t == pipeline[c][i].ticket
                r == DriveDoes(drive, command[t])
            IN \/ /\ Goes(FALSE)
                  /\ drive' = r[1]
                  /\ response' = [response EXCEPT ![t] = r[2]]
                  /\ covers' = [covers EXCEPT ![t] =
                       IF r[2].code = "SUCCESS" THEN Covered(r[1], asked[t].call) ELSE @]
               \/ /\ Goes(TRUE)
                  /\ \E code \in DriveErrors : response' = [response EXCEPT ![t] = Fails(code)]
                  /\ UNCHANGED <<drive, covers>>
    /\ UNCHANGED <<client, link, pipeline, written, requests, told, promised>>

DriveWritesBack(k) ==
    /\ drive.durable[k] # drive.store[k] /\ Goes(FALSE)
    /\ drive' = Persist(drive, {k})
    /\ UNCHANGED <<client, link, pipeline, written, requests, response, told, ghosts>>

DriveCrashes ==
    /\ \E c \in Connections : link[c] = "up"
    /\ Goes(TRUE)
    /\ link' = [c \in Connections |-> IF link[c] = "up" THEN "down" ELSE link[c]]
    /\ drive' = [drive EXCEPT !.store = drive.durable]
    /\ UNCHANGED <<client, pipeline, written, requests, response, told, ghosts>>

(* The receiver has the next response, and calls its handler.              *)
Callback(c) ==
    /\ open[c] /\ ~ failed[c] /\ written[c] > 0 /\ Goes(FALSE)
    /\ LET p == Head(pipeline[c])
           heard == Heard(asked[p.ticket].call.op, response[p.ticket])
       IN /\ response[p.ticket] # NotYet
          /\ IF p.handler
             THEN /\ told' = [told EXCEPT ![p.ticket] = heard]
                  /\ promised' = [k \in Keys |->
                        IF heard.status = "OK" /\ covers[p.ticket][k] > promised[k]
                        THEN covers[p.ticket][k] ELSE promised[k]]
             ELSE UNCHANGED <<told, promised>>
    /\ pipeline' = [pipeline EXCEPT ![c] = Tail(@)]
    /\ written'  = [written EXCEPT ![c] = @ - 1]
    /\ UNCHANGED <<client, link, requests, response, drive, covers>>

(* The calls at these positions whose handlers are still there.            *)
Untold(c, positions) ==
    {pipeline[c][i].ticket : i \in {i \in positions : pipeline[c][i].handler}}

InSender(c)   == written[c] + 1 .. Len(pipeline[c])
InReceiver(c) == 1 .. written[c]

TellError(ts, status) ==
    told' = [t \in Tickets |-> IF t \in ts THEN Failure(status, 0) ELSE told[t]]

(* The receiver forgets its handlers.                                      *)
WithoutHandlers(calling, n) ==
    [i \in DOMAIN calling |-> [calling[i] EXCEPT !.handler = @ /\ i > n]]

(* A response whose HMAC is wrong: the receiver tells all its handlers,    *)
(* and the connection goes on.                                             *)
DamagedResponse(c) ==
    /\ open[c] /\ ~ failed[c] /\ written[c] > 0
    /\ response[Head(pipeline[c]).ticket] # NotYet /\ Goes(TRUE)
    /\ TellError(Untold(c, InReceiver(c)), "CLIENT_RESPONSE_HMAC_VERIFICATION_ERROR")
    /\ pipeline' = [pipeline EXCEPT ![c] = Tail(WithoutHandlers(@, written[c]))]
    /\ written'  = [written EXCEPT ![c] = @ - 1]
    /\ UNCHANGED <<client, link, requests, response, drive, ghosts>>

(* Writing fails: the sender tells its handlers and drops their requests.  *)
(* The receiver keeps its handlers; the drive may still get what was       *)
(* written, but no response is read any more.                              *)
SendFails(c) ==
    /\ open[c] /\ ~ failed[c] /\ written[c] < Len(pipeline[c]) /\ Goes(link[c] = "up")
    /\ failed' = [failed EXCEPT ![c] = TRUE]
    /\ TellError(Untold(c, InSender(c)), "CLIENT_IO_ERROR")
    /\ pipeline' = [pipeline EXCEPT ![c] = SubSeq(@, 1, written[c])]
    /\ UNCHANGED <<clusterVersion, open, link, written, requests, response, drive, ghosts>>

\* Seeded fault: the receiver's handlers stay registered after they were told.
ReceiveFailsKeeps(c) ==
    /\ open[c] /\ ~ failed[c] /\ written[c] > 0 /\ Goes(link[c] = "up")
    /\ failed' = [failed EXCEPT ![c] = TRUE]
    /\ TellError(Untold(c, InReceiver(c)), "CLIENT_IO_ERROR")
    /\ UNCHANGED <<clusterVersion, open, link, pipeline, written, requests, response, drive,
                   ghosts>>

(* Reading fails, while a response is awaited: the receiver tells its      *)
(* handlers.  The sender keeps its own, but never writes again.            *)
ReceiveFails(c) ==
    /\ open[c] /\ ~ failed[c] /\ written[c] > 0 /\ Goes(link[c] = "up")
    /\ failed' = [failed EXCEPT ![c] = TRUE]
    /\ TellError(Untold(c, InReceiver(c)), "CLIENT_IO_ERROR")
    /\ pipeline' = [pipeline EXCEPT ![c] = WithoutHandlers(@, written[c])]
    /\ UNCHANGED <<clusterVersion, open, link, written, requests, response, drive, ghosts>>

(* The application destroys the connection: the sender's destructor tells  *)
(* the handlers that are queued, then the receiver's its own.  The first   *)
(* request in the sender may be half written: its handler is told by       *)
(* nobody.                                                                 *)
Destroy(c) ==
    /\ open[c] /\ Goes(~ failed[c])
    /\ open'   = [open EXCEPT ![c] = FALSE]
    /\ failed' = [failed EXCEPT ![c] = TRUE]
    /\ \E half \in {{}, {written[c] + 1}} :
          TellError(Untold(c, DOMAIN pipeline[c] \ half), "CLIENT_SHUTDOWN")
    /\ pipeline' = [pipeline EXCEPT ![c] = SubSeq(WithoutHandlers(@, written[c]), 1, written[c])]
    /\ UNCHANGED <<clusterVersion, link, written, requests, response, drive, ghosts>>

Next ==
    \/ \E c \in Connections :
          \/ Connect(c) \/ Submit(c) \/ SubmitTooLate(c) \/ SendWrites(c)
          \/ DriveExecutes(c) \/ Callback(c) \/ DamagedResponse(c)
          \/ SendFails(c) \/ ReceiveFails(c) \/ Destroy(c)
          \/ \E version \in ClusterVersions : SetClientClusterVersion(c, version)
          \/ \E i \in DOMAIN pipeline[c] : RemoveHandler(c, i)
    \/ \E k \in Keys : DriveWritesBack(k)
    \/ DriveCrashes

Spec == Init /\ [][Next]_vars

-----------------------------------------------------------------------------
Asked == [call : Calls, cluster : ClusterVersions]

(* Types; a call has a command once it was made, and what its optional     *)
(* arguments leave unset reaches the drive as unset.                       *)
ClientTypeOK ==
    /\ clusterVersion \in [Connections -> ClusterVersions]
    /\ failed \in [Connections -> BOOLEAN] /\ open \in [Connections -> BOOLEAN]
    /\ link \in [Connections -> {"closed", "up", "down"}]
    /\ written \in [Connections -> Nat]
    /\ drive \in Drives
    /\ program \in Workloads /\ calls \in 0 .. Len(program) /\ faults \in 0 .. MaxFaults
    /\ asked \in [Tickets -> Asked \cup {NotYet}]
    /\ \A t \in Tickets : (command[t] # NotYet) <=> (asked[t] # NotYet)

(* A callback is called once: whichever half fails, and whatever is        *)
(* removed or destroyed after that, no call whose handler a connection     *)
(* still has was told anything, so the other half, or a destructor, may    *)
(* tell it.  The calls of a connection are in the order they were made     *)
(* in; those the drive has answered are ahead of the others, and in the    *)
(* receiver.                                                               *)
ToldOnce ==
    \A c \in Connections :
        /\ written[c] <= Len(pipeline[c])
        /\ \A i \in DOMAIN pipeline[c] :
              /\ pipeline[c][i].ticket \in 1 .. calls
              /\ asked[pipeline[c][i].ticket] # NotYet
              /\ pipeline[c][i].handler => told[pipeline[c][i].ticket] = NotYet
              /\ response[pipeline[c][i].ticket] # NotYet => i <= written[c]
              /\ \A j \in i + 1 .. Len(pipeline[c]) :
                    /\ pipeline[c][i].ticket < pipeline[c][j].ticket
                    /\ response[pipeline[c][j].ticket] # NotYet =>
                          response[pipeline[c][i].ticket] # NotYet

(* What a drive would still have after a crash is never older than what an *)
(* application was told is persistent: its WRITE_THROUGH writes, and       *)
(* everything the drive had done when it did a FLUSH write or a Flush      *)
(* (PersistMode, GetSynchronizationForPersistMode).                        *)
AckedSurvives == \A k \in Keys : promised[k] <= drive.durable[k].rev

(* Compare-and-swap (REQUIRE_SAME_VERSION): of the writes that require     *)
(* version v of a key and are persistent, no more succeed than were calls  *)
(* that stored v there, whatever connections made them and whatever was    *)
(* lost with a crash.  The empty version is also that of a key which is    *)
(* not there, so nothing of the kind holds of it.                          *)
IsWrite(t, ops, k) ==
    asked[t] # NotYet /\ asked[t].call.op \in ops /\ asked[t].call.key = k

Swapped(k, v) ==
    {t \in Tickets : /\ IsWrite(t, {"Put", "Delete"}, k)
                     /\ asked[t].call.mode = "REQUIRE_SAME_VERSION"
                     /\ asked[t].call.current = v
                     /\ asked[t].call.persist \in {"WRITE_THROUGH", "FLUSH"}
                     /\ told[t] # NotYet /\ told[t].status = "OK"}

SwappedOnce ==
    \A k \in Keys, v \in Versions :
        Cardinality(Swapped(k, v))
          <= Cardinality({t \in Tickets : IsWrite(t, {"Put"}, k) /\ asked[t].call.version = v})

(* The client carries out what the interface promises.  What has come of a *)
(* call is what its handler would tell of the drive's response.            *)
Promise == INSTANCE AtomicStore WITH
    done <- [t \in Tickets |-> IF response[t] = NotYet THEN NotYet
                               ELSE Heard(asked[t].call.op, response[t])]

ImplementsStore == Promise!Spec
=============================================================================
