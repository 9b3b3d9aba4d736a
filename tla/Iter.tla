-------------------------------- MODULE Iter --------------------------------
(***************************************************************************)
(* Iter of iter.go: the Go half of an iterator, which serves Next out of   *)
(* the last batch of keys and crosses into the FFI layer (RegolithIter)    *)
(* for the next batch, for a seek and for a reset.  Two positions have to  *)
(* stay in step across the boundary: pos in the batch on this side, the    *)
(* engine's cursor, a batch ahead, on the other.                           *)
(*                                                                         *)
(* One goroutine uses an iterator; between its calls the same goroutine    *)
(* may write in the transaction (live) or the store may be closed.         *)
(***************************************************************************)
EXTENDS RegolithIter

VARIABLES bounds, live, closed,
          h,      \* the FFI handle
          ents,   \* keys of the current batch (ents and buf)
          pos,    \* 0-based index of the current entry
          done,   \* a refill came back empty
          out,    \* what the last call answered
          mark    \* history: the walk has delivered everything up to mark

goVars  == <<ents, pos, done>>
vars == <<bounds, live, closed, h, goVars, out, mark>>

Outcomes == {"none", "true", "false", "error", "closed"}

(* mark at the start of a walk, and just before key k.                     *)
MarkStart     == IF bounds.reverse THEN MaxKey + 1 ELSE -1
MarkBefore(k) == IF bounds.reverse THEN k + 1 ELSE k - 1

Init ==
  /\ bounds \in Bounds
  /\ live \in ViewsOf(bounds)
  /\ closed = FALSE
  /\ h = NewHandle(live)
  /\ ents = <<>> /\ pos = 0 /\ done = FALSE
  /\ out = "none"
  /\ mark = MarkStart

Positioned == pos < Len(ents)

(* Key *)
CurrentKey == ents[pos + 1]

(* Value: nil under KeysOnly, else the value the FFI layer retained at pos. *)
CurrentValue == IF bounds.keysOnly THEN -1 ELSE BatchValue(h, pos)

(* refill, from handle g, with done and mark as the call has left them.    *)
Refill(g, d, m) == \E failAt \in 1..MaxEntries + 1 :
  LET batch == NextBatch(bounds, g, live, failAt)
      empty == batch.keys = <<>>
  IN  /\ h' = batch.h
      /\ ents' = batch.keys /\ pos' = 0
      /\ done' = (d \/ (batch.ok /\ empty))
      /\ out' = IF ~batch.ok THEN "error" ELSE IF empty THEN "false" ELSE "true"
      /\ mark' = IF empty THEN m ELSE batch.keys[1]

Refuse == out' = "closed" /\ UNCHANGED <<h, goVars, mark>>

NextInBatch ==
  /\ pos + 1 < Len(ents)
  /\ pos' = pos + 1
  /\ out' = "true" /\ mark' = ents[pos + 2]
  /\ UNCHANGED <<h, ents, done>>

(* Mutant: Next goes on counting past the end.                             *)
NextPastEnd ==
  /\ pos + 1 >= Len(ents) /\ done
  /\ pos' = pos + 1
  /\ out' = "false"
  /\ UNCHANGED <<h, ents, done, mark>>

NextExhausted ==
  /\ pos + 1 >= Len(ents) /\ done
  /\ pos' = Len(ents)
  /\ out' = "false"
  /\ UNCHANGED <<h, ents, done, mark>>

NextRefill == pos + 1 >= Len(ents) /\ ~done /\ Refill(h, done, mark)

CallNext ==
  /\ IF closed THEN Refuse ELSE NextInBatch \/ NextExhausted \/ NextRefill
  /\ UNCHANGED <<bounds, live, closed>>

(* Seek invalidates the batch, seeks, and refills if there is an entry.    *)
SeekTo(t) == \E fail \in BOOLEAN :
  LET a == SeekHandle(bounds, h, live, t, fail) IN
  \/ a.r = "more" /\ Refill(a.h, FALSE, MarkBefore(t))
  \/ /\ a.r # "more"
     /\ h' = a.h
     /\ ents' = <<>> /\ pos' = 0 /\ done' = (a.r = "end")
     /\ out' = IF a.r = "end" THEN "false" ELSE "error"
     /\ mark' = MarkBefore(t)

CallSeek == \E t \in Keys :
  /\ IF closed THEN Refuse ELSE SeekTo(t)
  /\ UNCHANGED <<bounds, live, closed>>

(* Reset works on a closed store too.                                      *)
CallReset ==
  /\ h' = ResetHandle(h)
  /\ ents' = <<>> /\ pos' = 0 /\ done' = FALSE
  /\ out' = "none" /\ mark' = MarkStart
  /\ UNCHANGED <<bounds, live, closed>>

(* Txn.Set and Txn.Delete of the goroutine that owns the iterator.         *)
WriteInTxn ==
  /\ bounds.txn
  /\ live' \in Written(live)
  /\ UNCHANGED <<bounds, closed, h, goVars, out, mark>>

CloseStore ==
  /\ ~closed /\ closed' = TRUE
  /\ UNCHANGED <<bounds, live, h, goVars, out, mark>>

Next == CallNext \/ CallSeek \/ CallReset \/ WriteInTxn \/ CloseStore

Spec == Init /\ [][Next]_vars
-----------------------------------------------------------------------------
TypeOK ==
  /\ bounds \in Bounds
  /\ live \in ViewsOf(bounds)
  /\ closed \in BOOLEAN
  /\ h \in Handle
  /\ ents \in Seq(Keys) /\ Len(ents) <= MaxEntries
  /\ pos \in 0..MaxEntries
  /\ done \in BOOLEAN
  /\ out \in Outcomes
  /\ mark \in -1..MaxKey + 1

(* The two halves hold the same batch: every key Go can hand out has its   *)
(* own value retained on the other side, and nothing else is retained.     *)
BatchAgrees ==
  /\ h.count = Len(ents)
  /\ Len(h.values) = IF bounds.keysOnly THEN 0 ELSE Len(ents)
  /\ Positioned => CurrentValue = IF bounds.keysOnly THEN -1 ELSE h.view[CurrentKey]

(* A batch pins no more than MaxBytes of values, save for the one value    *)
(* that reached the cap.                                                   *)
PinnedBounded ==
  LET bytes[i \in 0..Len(h.values)] ==
        IF i = 0 THEN 0 ELSE bytes[i - 1] + h.values[i]
  IN  \A i \in 0..Len(h.values) - 1 : bytes[i] < MaxBytes

(* A read failure held back by a batch leaves only by being reported, or   *)
(* by the Seek or Reset that abandons the walk.                            *)
HeldErrorReported ==
  [][h.pending /\ ~h'.pending => out' = "error" \/ CallSeek \/ CallReset]_vars

(* "An empty batch - and only an empty batch - means the range is          *)
(* exhausted" (iter.go:114): when done is set no entry is left beyond the  *)
(* ones delivered.                                                         *)
EmptyMeansExhausted ==
  done => {k \in InRange(bounds, h.view) :
             IF bounds.reverse THEN k < mark ELSE k > mark} = {}

(* An iterator is a Cursor.                                                *)
C == INSTANCE Cursor WITH
       view <- h.view,
       at <- IF Positioned THEN CurrentKey
             ELSE IF done THEN -2 ELSE IF h.reset THEN -1 ELSE -3,
       entry <- IF Positioned THEN <<CurrentKey, CurrentValue>> ELSE <<>>

IsCursor == C!Spec
=============================================================================
