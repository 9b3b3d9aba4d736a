----------------------------- MODULE MCFfiIter -----------------------------
(* Small instances of FfiIter. *)
EXTENDS FfiIter

MCStarts == {NoBound, 1}
MCEnds   == {NoBound, 2}
=============================================================================
