---------------------------- MODULE MCBoundary ----------------------------
(* A boundary whose C.int holds every batch of keys but the largest.       *)
EXTENDS Boundary

MCStrings == UNION {[1..n -> Bytes] : n \in 0..2}
=============================================================================
