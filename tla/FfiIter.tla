------------------------------ MODULE FfiIter ------------------------------
(***************************************************************************)
(* A C caller of the iterator handle.  The header lets it mix the single   *)
(* steps of regolith_iter_next with the batches of                         *)
(* regolith_iter_next_batch freely: they share one cursor, and differ only *)
(* in what they make of the entry a seek landed on.                        *)
(***************************************************************************)
EXTENDS RegolithIter

VARIABLES bounds, live,
          h,       \* the handle
          call,    \* the last call: "none", "next", "batch", "seek", "reset"
          out,     \* what it answered
          got,     \* the keys it delivered, in order
          framed,  \* history: the keys of the batch that is addressable
          mark,    \* history: the last key the walk delivered or landed on,
          landed   \* history: and whether the last call was a seek to it

vars == <<bounds, live, h, call, out, got, framed, mark, landed>>

MarkStart     == IF bounds.reverse THEN MaxKey + 1 ELSE -1
MarkBefore(k) == IF bounds.reverse THEN k + 1 ELSE k - 1

Init ==
  /\ bounds \in Bounds
  /\ live \in ViewsOf(bounds)
  /\ h = NewHandle(live)
  /\ call = "none" /\ out = "none" /\ got = <<>> /\ framed = <<>>
  /\ mark = MarkStart /\ landed = FALSE

Called(c, answer, keys) == call' = c /\ out' = answer /\ got' = keys

FfiNext == \E fail \in BOOLEAN :
  LET a == NextHandle(bounds, h, live, fail) IN
  /\ h' = a.h
  /\ Called("next", a.r, IF a.r = "more" THEN <<a.h.cur>> ELSE <<>>)
  /\ mark' = IF a.r = "more" THEN a.h.cur ELSE mark
  /\ landed' = FALSE
  /\ UNCHANGED <<bounds, live, framed>>

FfiNextBatch == \E failAt \in 1..MaxEntries + 1 :
  LET batch == NextBatch(bounds, h, live, failAt) IN
  /\ h' = batch.h
  /\ Called("batch", IF ~batch.ok THEN "error" ELSE IF batch.keys = <<>> THEN "end" ELSE "more",
            batch.keys)
  /\ framed' = batch.keys
  /\ mark' = IF batch.keys = <<>> THEN mark ELSE batch.keys[Len(batch.keys)]
  /\ landed' = FALSE
  /\ UNCHANGED <<bounds, live>>

FfiSeek == \E t \in Keys, fail \in BOOLEAN :
  LET a == SeekHandle(bounds, h, live, t, fail) IN
  /\ h' = a.h
  /\ Called("seek", a.r, IF a.r = "more" THEN <<a.h.cur>> ELSE <<>>)
  /\ framed' = <<>>
  /\ mark' = IF a.r = "more" THEN a.h.cur ELSE MarkBefore(t)
  /\ landed' = (a.r = "more")
  /\ UNCHANGED <<bounds, live>>

FfiReset ==
  /\ h' = ResetHandle(h)
  /\ Called("reset", "none", <<>>)
  /\ framed' = <<>>
  /\ mark' = MarkStart /\ landed' = FALSE
  /\ UNCHANGED <<bounds, live>>

(* regolith_txn_set and regolith_txn_delete on the transaction beneath.    *)
FfiWriteInTxn ==
  /\ bounds.txn
  /\ live' \in Written(live)
  /\ UNCHANGED <<bounds, h, call, out, got, framed, mark, landed>>

Next == FfiNext \/ FfiNextBatch \/ FfiSeek \/ FfiReset \/ FfiWriteInTxn

Spec == Init /\ [][Next]_vars
-----------------------------------------------------------------------------
TypeOK ==
  /\ bounds \in Bounds /\ live \in ViewsOf(bounds) /\ h \in Handle
  /\ call \in {"none", "next", "batch", "seek", "reset"}
  /\ out \in {"none", "more", "end", "error"}
  /\ got \in Seq(Keys) /\ Len(got) <= MaxEntries
  /\ framed \in Seq(Keys) /\ mark \in -1..MaxKey + 1 /\ landed \in BOOLEAN

(* keys is the beginning of an in-order walk over S: no gap, no repeat.    *)
WalkOver(keys, S) == \A i \in 1..Len(keys) :
  keys[i] = FirstOf(bounds, S \ {keys[j] : j \in 1..i - 1})

(* A step that is a call of next or next_batch.                            *)
Advances == call' \in {"next", "batch"} /\ UNCHANGED live

(* However single steps and batches are mixed, each delivers the entries   *)
(* right after the last one delivered; a batch right after a seek starts   *)
(* on the entry sought, a single step goes past it.                        *)
WalkContinues == [][
  Advances =>
    WalkOver(got', IF landed /\ call' = "batch" THEN FromOn(bounds, h'.view, mark)
                                                ELSE Beyond(bounds, h'.view, mark))]_vars

(* A walk ends, without an error, only when nothing is left of it, unless  *)
(* an error broke it off before.  (broken off: an invalid cursor that is   *)
(* not waiting for a reset.)                                               *)
EndMeansExhausted == [][
  (Advances /\ out' = "end" /\ (h.reset \/ h.cur # NoKey)) =>
    Beyond(bounds, h'.view, mark) = {}]_vars

(* The values of a batch stay addressable under their indices while single *)
(* steps move the cursor on, and no index outside it reaches a value.      *)
BatchAddressable ==
  /\ \A i \in 1..Len(framed) :
       BatchValue(h, i - 1) = IF bounds.keysOnly THEN -1 ELSE h.view[framed[i]]
  /\ BatchValue(h, Len(framed)) = BadIndex

(* "a read error is being held back so the entries already walked are not  *)
(* lost - that error is returned from the next call"                       *)
(* (regolith_ffi.h:525-527), and next and next_batch "may be mixed freely" *)
(* (regolith_ffi.h:471).                                                   *)
HeldErrorIsNext == [][
  Advances /\ h.pending => out' = "error"]_vars

(* "The set of buffered writes is captured when the iterator is created,   *)
(* so writes made afterwards are not visible to it" (ffi/src/txn.rs:203).  *)
(* A handle's view is the transaction's at its creation.                   *)
CapturedAtCreation == [][h'.view = h.view]_vars
=============================================================================
