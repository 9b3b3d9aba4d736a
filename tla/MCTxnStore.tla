----------------------------- MODULE MCTxnStore -----------------------------
(* A usize narrower than the numbers an option can hold, enumerations with *)
(* a value no level has.                                                   *)
EXTENDS TxnStore, TLC

MCSymmetry == Permutations(Keys) \cup Permutations(Txns)
=============================================================================
