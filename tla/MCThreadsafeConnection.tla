----------------------- MODULE MCThreadsafeConnection -----------------------
(* Threads on one connection of either class, with a few of its calls.     *)
EXTENDS ThreadsafeConnection, TLC
=============================================================================
