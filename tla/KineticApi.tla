----------------------------- MODULE KineticApi -----------------------------
(***************************************************************************)
(* The calls of the client's interface                                     *)
(* (include/kinetic/nonblocking_kinetic_connection_interface.h), what an   *)
(* application is told of each, and the state of the drive they are about. *)
(* AtomicStore says what the calls promise, KineticClient how the client   *)
(* carries them out; both are written with the vocabulary of this module.  *)
(***************************************************************************)
EXTENDS Integers, Sequences, FiniteSets, SequencesExt

CONSTANTS
    Keys,             \* the keys of records, as numbers in their order
    Versions,         \* the versions of records other than the empty one
    Pins,             \* the PINs other than the empty one
    Acls,             \* the access control lists applications set: sets of ACLs
    ClusterVersions,  \* the cluster versions of drives and clients
    Connections,      \* the connections, each opened once
    MaxCalls,         \* bound: calls in a behaviour
    MaxFaults,        \* bound: what goes wrong in a behaviour
    MaxReturned,      \* bound: keys asked for in one call
    Workloads,        \* bound: the sequences of calls applications make
    DriveErrors       \* the codes a drive turns any command down with

Null    == "null"     \* a pointer that points to nothing
Empty   == ""         \* the empty string: no version, no PIN
NoKey   == 0          \* the empty key
NoCluster == -1       \* a cluster version that is not set
Sections == {"UTILIZATIONS", "TEMPERATURES", "CAPACITIES", "CONFIGURATION",
             "STATISTICS", "MESSAGES", "LIMITS"}

WriteModes   == {"IGNORE_VERSION", "REQUIRE_SAME_VERSION"}
PersistModes == {"WRITE_THROUGH", "WRITE_BACK", "FLUSH"}
Default      == "default"   \* the overloads without a persist mode

Version == Versions \cup {Empty}
Pin     == Pins \cup {Empty}
Pointer(S) == S \cup {Null}

(* The n-th call is number n, its handler key is n, and so is the value it *)
(* stores, if it stores one: no two calls store the same.                  *)
Tickets == 1 .. MaxCalls

(* Who may do what to which keys, by an access control list.               *)
Permissions == {"READ", "WRITE", "DELETE", "RANGE", "SETUP", "P2POP", "GETLOG", "SECURITY"}
Grants(acls) ==
    UNION {UNION {{[identity |-> a.identity, key |-> a.hmac_key, offset |-> s.offset,
                    value |-> s.value, permission |-> p] : p \in s.permissions}
                  : s \in a.scopes} : a \in acls}

P2POperations == [key : Keys, version : Version, newKey : Keys \cup {NoKey},
                  force : BOOLEAN]

Calls == UNION {{w[i] : i \in DOMAIN w} : w \in Workloads}

Interface ==
    [op : {"NoOp", "Flush"}]
    \cup [op : {"Get", "GetNext", "GetPrevious", "GetVersion"}, key : Keys]
    \cup [op : {"Put"}, key : Keys, current : Version, mode : WriteModes,
          version : Pointer(Version), persist : PersistModes \cup {Default}]
    \cup [op : {"Delete"}, key : Keys, current : Version, mode : WriteModes,
          persist : PersistModes \cup {Default}]
    \cup [op : {"GetKeyRange"}, start : Keys, startInc : BOOLEAN, end : Keys,
          endInc : BOOLEAN, reverse : BOOLEAN, max : 0 .. MaxReturned]
    \cup [op : {"MediaScan"}, start : Keys, startInc : BOOLEAN, end : Keys,
          endInc : BOOLEAN, max : 0 .. MaxReturned]
    \cup [op : {"MediaOptimize"}, start : Keys, startInc : BOOLEAN, end : Keys,
          endInc : BOOLEAN]
    \cup [op : {"InstantErase", "SecureErase", "LockDevice", "UnlockDevice"},
          pin : Pointer(Pin)]
    \cup [op : {"SetLockPIN", "SetErasePIN"}, new : Pointer(Pin),
          current : Pointer(Pin)]
    \cup [op : {"SetACLs"}, acls : Acls]
    \cup [op : {"SetClusterVersion"}, new : ClusterVersions]
    \cup [op : {"UpdateFirmware"}]
    \cup [op : {"GetLog"}, types : (SUBSET Sections) \cup {{Default}}]
    \cup [op : {"P2PPush"}, operations : Seq(P2POperations)]

(* SetACLs with no ACL at all is a command the drive cannot tell from one  *)
(* that leaves the ACLs alone: no application makes that call.             *)
ASSUME ApiConstantsOK ==
    /\ Keys \subseteq Nat \ {NoKey} /\ IsFiniteSet(Keys)
    /\ ClusterVersions \subseteq Nat /\ 0 \in ClusterVersions
    /\ {} \notin Acls
    /\ \A l \in Acls : \A g \in Grants(l) : g.permission \in Permissions
    /\ Null \notin Version \cup Pin /\ Empty \notin Versions \cup Pins
    /\ "SUCCESS" \notin DriveErrors
    /\ MaxCalls \in Nat /\ MaxFaults \in Nat /\ MaxReturned \in Nat
    /\ Workloads \subseteq Seq(Interface)
    /\ \A w \in Workloads : Len(w) <= MaxCalls

-----------------------------------------------------------------------------
(* What a callback is told.                                                *)
Told == [status |-> "OK", expected |-> 0, key |-> NoKey, version |-> Empty,
         value |-> 0, keys |-> << >>, last |-> NoKey, statuses |-> << >>,
         sections |-> {}]

Failure(status, expected) == [Told EXCEPT !.status = status, !.expected = expected]

(* The statuses that say nothing of what the drive did, and those a drive  *)
(* may turn a call down with whatever the call is.                         *)
ClientErrors == {"CLIENT_IO_ERROR", "CLIENT_SHUTDOWN",
                 "CLIENT_RESPONSE_HMAC_VERIFICATION_ERROR"}
Refusals == {"REMOTE_HMAC_ERROR", "REMOTE_INVALID_REQUEST", "REMOTE_INTERNAL_ERROR",
             "REMOTE_HEADER_REQUIRED", "REMOTE_SERVICE_BUSY", "REMOTE_EXPIRED",
             "REMOTE_DATA_ERROR", "REMOTE_PERM_DATA_ERROR",
             "REMOTE_REMOTE_CONNECTION_ERROR", "REMOTE_NO_SPACE",
             "REMOTE_NO_SUCH_HMAC_ALGORITHM", "REMOTE_OTHER_ERROR",
             "CLIENT_INTERNAL_ERROR"}

-----------------------------------------------------------------------------
(* External: a drive.  durable is what it finds again after a crash; rev   *)
(* counts what happened to a key, a deletion included.                     *)
Nothing == [rev |-> 0, here |-> FALSE, version |-> Empty, value |-> 0]
Entries == [rev : Nat, here : BOOLEAN, version : Version, value : Tickets \cup {0}]
NoEntries == [k \in Keys |-> Nothing]

Drives == [store : [Keys -> Entries], durable : [Keys -> Entries],
           peer : [Keys -> Entries], cluster : ClusterVersions,
           lockPin : Pin, erasePin : Pin, locked : BOOLEAN,
           acls : SUBSET UNION {Grants(l) : l \in Acls}, firmware : Tickets \cup {0}]

NewDrive == [store |-> NoEntries, durable |-> NoEntries, peer |-> NoEntries,
             cluster |-> 0, lockPin |-> Empty, erasePin |-> Empty,
             locked |-> FALSE, acls |-> {}, firmware |-> 0]

Has(s, k) == s[k].here

Store(d, k, version, value) ==
    [d EXCEPT !.store[k] = [rev |-> @.rev + 1, here |-> TRUE,
                            version |-> version, value |-> value]]
Drop(d, k) == [d EXCEPT !.store[k] = [Nothing EXCEPT !.rev = d.store[k].rev + 1]]

Persist(d, ks) ==
    [d EXCEPT !.durable = [k \in Keys |-> IF k \in ks THEN d.store[k] ELSE @[k]]]

Erase(d) == LET gone == [k \in Keys |-> [Nothing EXCEPT !.rev = d.store[k].rev + 1]]
            IN [d EXCEPT !.store = gone, !.durable = gone]

Within(k, start, startInc, end, endInc) ==
    /\ start < k \/ (startInc /\ start = k)
    /\ k < end \/ (endInc /\ k = end)

(* The first max keys of a set, in ascending or descending order: a key is *)
(* left out only where max others come before it.                          *)
FirstOf(ks, reverse, max) ==
    LET before(k, l) == IF reverse THEN k > l ELSE k < l
    IN CHOOSE s \in UNION {[1 .. n -> ks] : n \in 0 .. max} :
          /\ \A i, j \in DOMAIN s : i < j => before(s[i], s[j])
          /\ \A k \in ks : \/ \E i \in DOMAIN s : s[i] = k
                         \/ /\ Len(s) = max
                            /\ \A i \in DOMAIN s : before(s[i], k)

(* The next and the previous key that is there; at most one.               *)
NextKeys(d, key) ==
    {k \in Keys : /\ Has(d.store, k) /\ key < k
                  /\ \A l \in Keys : Has(d.store, l) /\ key < l => k <= l}
PreviousKeys(d, key) ==
    {k \in Keys : /\ Has(d.store, k) /\ k < key
                  /\ \A l \in Keys : Has(d.store, l) /\ l < key => l <= k}

(* The records pushed to the peer one after the other, each under the      *)
(* version the peer has then: what the peer has in the end, and what came  *)
(* of each push.                                                           *)
PushAll(d, pushes) ==
    LET cameOf(peer, p) ==
          IF ~ Has(d.store, p.from) THEN "missing"
          ELSE IF p.force \/ peer[p.to].version = p.version THEN "done" ELSE "mismatch"
        after[n \in 0 .. Len(pushes)] ==
          IF n = 0 THEN [peer |-> d.peer, came |-> << >>]
          ELSE LET p == pushes[n]
                   was == after[n - 1]
                   came == cameOf(was.peer, p)
               IN [peer |-> IF came = "done" THEN [was.peer EXCEPT ![p.to] = d.store[p.from]]
                                             ELSE was.peer,
                   came |-> Append(was.came, came)]
    IN after[Len(pushes)]
=============================================================================
