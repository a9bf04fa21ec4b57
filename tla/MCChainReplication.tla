------------------------- MODULE MCChainReplication -------------------------
(* Model checking of the chain: writes are interchangeable model values. *)
EXTENDS ChainReplication

WriteSymmetry == Permutations(Writes)
=============================================================================
