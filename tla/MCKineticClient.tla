--------------------------- MODULE MCKineticClient ---------------------------
(* Two connections and one drive: a call of every kind the interface has   *)
(* after one that matters to it, or three calls about one key; and one     *)
(* thing going wrong.                                                      *)
EXTENDS KineticClient, TLC

Put(k, cur, mode, version, persist) ==
    [op |-> "Put", key |-> k, current |-> cur, mode |-> mode, version |-> version,
     persist |-> persist]
Delete(k, cur, mode, persist) ==
    [op |-> "Delete", key |-> k, current |-> cur, mode |-> mode, persist |-> persist]

Acl == {[identity |-> 1, hmac_key |-> "key",
         scopes |-> {[offset |-> 0, value |-> "", permissions |-> Permissions \ {"SECURITY"}],
                     [offset |-> 3, value |-> "log", permissions |-> {"READ"}]}]}
SomeAcls == {Acl}

Writes == {Put(1, Empty, "REQUIRE_SAME_VERSION", "v1", "WRITE_THROUGH"),
           Put(1, "v1", "REQUIRE_SAME_VERSION", Null, "WRITE_THROUGH"),
           Put(2, "v1", "IGNORE_VERSION", "v1", Default),
           Delete(1, "v1", "REQUIRE_SAME_VERSION", "FLUSH"),
           Delete(2, Empty, "IGNORE_VERSION", "WRITE_BACK")}

Reads == {[op |-> "Get", key |-> 1], [op |-> "GetNext", key |-> 1],
          [op |-> "GetPrevious", key |-> 2], [op |-> "GetVersion", key |-> 1],
          [op |-> "GetKeyRange", start |-> 1, startInc |-> TRUE, end |-> 2, endInc |-> TRUE,
           reverse |-> TRUE, max |-> 1],
          [op |-> "MediaScan", start |-> 1, startInc |-> FALSE, end |-> 2, endInc |-> TRUE,
           max |-> 2],
          [op |-> "MediaOptimize", start |-> 1, startInc |-> TRUE, end |-> 2, endInc |-> FALSE],
          [op |-> "GetLog", types |-> {Default}], [op |-> "GetLog", types |-> {"LIMITS"}]}

Copies == {[op |-> "Flush"], [op |-> "InstantErase", pin |-> Null],
           [op |-> "P2PPush", operations |->
              << [key |-> 1, version |-> Empty, newKey |-> 2, force |-> FALSE],
                 [key |-> 2, version |-> Empty, newKey |-> 2, force |-> TRUE] >>]}

Others == {[op |-> "NoOp"], [op |-> "SecureErase", pin |-> "p"],
           [op |-> "LockDevice", pin |-> "p"], [op |-> "UnlockDevice", pin |-> Empty],
           [op |-> "SetLockPIN", new |-> Empty, current |-> "p"],
           [op |-> "SetErasePIN", new |-> Null, current |-> Empty],
           [op |-> "SetACLs", acls |-> Acl], [op |-> "SetClusterVersion", new |-> 0],
           [op |-> "UpdateFirmware"]}

\* Every call after those that change what it would find, and three
\* conditional writes of one key.
Data == {Put(1, Empty, "REQUIRE_SAME_VERSION", "v1", "WRITE_THROUGH"),
         Put(2, "v1", "IGNORE_VERSION", "v1", Default)}
Device == {[op |-> "LockDevice", pin |-> Empty],
           [op |-> "SetLockPIN", new |-> "p", current |-> Null],
           [op |-> "SetErasePIN", new |-> "p", current |-> Empty],
           [op |-> "SetClusterVersion", new |-> 1]}

Conditional == {Put(1, "v1", "REQUIRE_SAME_VERSION", Null, "WRITE_THROUGH"),
                Delete(1, "v1", "REQUIRE_SAME_VERSION", "FLUSH")}

Create(persist) == Put(1, Empty, "REQUIRE_SAME_VERSION", "v1", persist)
OneKey == {<<Create("WRITE_THROUGH"), d, e>> : d \in Conditional, e \in Conditional}
          \cup {<<Create(Default), [op |-> "Flush"], [op |-> "Get", key |-> 1]>>}
SomeWorkloads == (Data \X (Writes \cup Reads \cup Copies)) \cup (Device \X Others) \cup OneKey

Symmetry == Permutations(Connections)
=============================================================================
