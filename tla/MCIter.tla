------------------------------- MODULE MCIter -------------------------------
(* Small instances of Iter. *)
EXTENDS Iter

MCStarts == {NoBound, 1}
MCEnds   == {NoBound, 2}
=============================================================================
