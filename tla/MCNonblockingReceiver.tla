----------------------- MODULE MCNonblockingReceiver -----------------------
(* NonblockingReceiver with three handlers over two sequence numbers and   *)
(* two keys: enough for a sequence number and a key to be reused, for a    *)
(* handler to be refused for either, and for a handler to remove the one   *)
(* the error loop has still to come to.                                    *)
EXTENDS NonblockingReceiver, TLC

CONSTANTS h1, h2, h3

MCHandlers == {h1, h2, h3}
MCKeys     == 0 .. 1
MCSeqs     == 0 .. 1
MCIds      == {7}

Symmetry == Permutations(MCHandlers)
=============================================================================
