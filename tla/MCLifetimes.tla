---------------------------- MODULE MCLifetimes ----------------------------
(* Two iterators over one transaction and the store, and two blocks.       *)
EXTENDS Lifetimes, TLC

MCSymmetry == Permutations(Iters) \cup Permutations(Blocks)
=============================================================================
