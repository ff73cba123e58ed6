------------------------ MODULE MCNonblockingSender ------------------------
(* NonblockingSender with four handlers under three keys: one request      *)
(* being written, two queued behind it, and one submitted by a handler     *)
(* while the queue is drained; two queued requests may share a key.        *)
EXTENDS NonblockingSender

CONSTANTS h1, h2, h3, h4

MCHandlers == {h1, h2, h3, h4}
MCKeys     == 0 .. 2
MCIds      == {7}

Symmetry == Permutations(MCHandlers)
=============================================================================
