------------------------ MODULE MCKeyRangeIterator ------------------------
(* KeyRangeIterator over four keys, in frames of one, two or three: a      *)
(* range of one frame, of several, and one that ends between two frames.   *)
EXTENDS KeyRangeIterator

MCKeys       == 1 .. 4
MCFrameSizes == 1 .. 3
=============================================================================
