------------------------- MODULE MCMultiRingBuffer -------------------------
(* Instances of MultiRingBuffer for TLC. *)
EXTENDS MultiRingBuffer
=============================================================================
