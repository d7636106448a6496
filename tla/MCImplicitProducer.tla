------------------------- MODULE MCImplicitProducer -------------------------
(* Values of the constants of ImplicitProducer for TLC. *)
EXTENDS ImplicitProducer, TLC

Sym == Permutations(Consumers) \cup Permutations(Blocks)
=============================================================================
