------------------------ MODULE MCBlockingConnection ------------------------
(* BlockingConnection with an operation that times out, and one after it   *)
(* during which late callbacks run.                                        *)
EXTENDS BlockingConnection
=============================================================================
