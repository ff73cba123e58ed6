-------------------------- MODULE MCMessageStream --------------------------
(* A small instance of MessageStream: bits for bytes, two-bit lengths.     *)
EXTENDS MessageStream

CONSTANT unserializable

MCPackets ==
    {[message |-> <<1>>, value |-> << >>],      \* an empty value
     [message |-> << >>, value |-> <<0, 1>>],   \* an empty message
     [message |-> <<1, 0>>, value |-> <<1, 1>>], \* looks like a new packet
     [message |-> <<0>>, value |-> <<1>>],      \* does not parse
     [message |-> unserializable, value |-> << >>]}

MCParses(m) == m # <<0>>
=============================================================================
