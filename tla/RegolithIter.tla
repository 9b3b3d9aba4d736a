---------------------------- MODULE RegolithIter ----------------------------
(***************************************************************************)
(* The FFI iterator handle (struct RegolithIter, ffi/src/iter.rs) and its  *)
(* operations, as functions from a handle to a handle and an answer.  A    *)
(* handle h is a record:                                                   *)
(*   reset    the next advance starts the range                            *)
(*   include  a seek has positioned the cursor (include_current)           *)
(*   view     the entries the source holds: the snapshot's, or the ones    *)
(*            the transaction's scan stream was built from                 *)
(*   cur      the key the snapshot cursor, or `current`, stands on         *)
(*   rest     transaction only: the keys the stream has yet to yield       *)
(*   values   values retained for the last batch (batch_values)            *)
(*   count    entries in the last batch (batch_count)                      *)
(*   pending  a read failure held back for the next call                   *)
(*                                                                         *)
(* The engine's cursor and stream are external.  Every move of them may    *)
(* fail to read, which leaves them without a current entry; `fail` says    *)
(* whether the move at hand does.                                          *)
(***************************************************************************)
EXTENDS KeyRange, Sequences

CONSTANTS MaxEntries,   \* batchEntries of iter.go
          MaxBytes      \* MAX_BATCH_VALUE_BYTES

ASSUME BatchAssumption == MaxEntries \in Nat \ {0} /\ MaxBytes \in Nat \ {0}

Handle == [ reset : BOOLEAN, include : BOOLEAN, view : Views,
            cur : Keys \cup {NoKey}, rest : SUBSET Keys,
            values : Seq(Values), count : 0..MaxEntries, pending : BOOLEAN ]

(* over_snapshot, over_txn: nothing is read until the first advance.       *)
NewHandle(v) == [ reset |-> TRUE, include |-> FALSE, view |-> v,
                  cur |-> NoKey, rest |-> {},
                  values |-> <<>>, count |-> 0, pending |-> FALSE ]

(* What an advance answers: "more", "end" or "error".                      *)
Answer(h, r) == [h |-> h, r |-> r]

OnEntry(b, h) == h.cur # NoKey /\ (b.txn \/ Contains(b, h.cur))

Position(b, h, k, fail) ==
  LET moved == [h EXCEPT !.cur = IF fail THEN NoKey ELSE k]
  IN  Answer(moved, IF fail THEN "error"
                    ELSE IF OnEntry(b, moved) THEN "more" ELSE "end")
-----------------------------------------------------------------------------
(* The snapshot cursor: seek, seek_for_prev, next and prev go over every   *)
(* key of the store, in the range or not.                                  *)

AtOrAbove(h, k) == Smallest({j \in DOMAIN h.view : j >= k})
AtOrBelow(h, k) == Largest({j \in DOMAIN h.view : j <= k})

(* Mutant: a reverse walk may start on the exclusive end.                  *)
SnapshotRestartOnEnd(b, h, fail) ==
  Position(b, h,
    IF b.reverse THEN AtOrBelow(h, IF b.end = NoBound THEN MaxKey ELSE b.end)
                 ELSE AtOrAbove(h, IF b.start = NoBound THEN 0 ELSE b.start),
    fail)

SnapshotRestart(b, h, fail) ==
  LET top == AtOrBelow(h, IF b.end = NoBound THEN MaxKey ELSE b.end)
  IN  Position(b, h,
        IF b.reverse
          THEN IF top # NoKey /\ top = b.end THEN AtOrBelow(h, top - 1) ELSE top
          ELSE AtOrAbove(h, IF b.start = NoBound THEN 0 ELSE b.start),
        fail)

(* A cursor that has left the range is not moved, and answers "end".       *)
SnapshotStep(b, h, fail) ==
  IF ~OnEntry(b, h) THEN Answer(h, "end")
  ELSE Position(b, h, IF b.reverse THEN AtOrBelow(h, h.cur - 1)
                                   ELSE AtOrAbove(h, h.cur + 1), fail)
-----------------------------------------------------------------------------
(* The transaction's scan stream: it only yields, so it is rebuilt over    *)
(* [lo, hi) of the transaction's current writes to move anywhere else.     *)
(* The transaction is unresolved as long as its iterators are open, so     *)
(* rebuilding finds it; the first read may fail.                           *)

Pull(b, h, fail) ==
  LET k == FirstOf(b, h.rest)
  IN  Position(b, [h EXCEPT !.rest = IF fail THEN {} ELSE @ \ {k}], k, fail)

RebuildAndPull(b, h, live, lo, hi, fail) ==
  LET within == {k \in DOMAIN live : /\ lo # NoBound => k >= lo
                                     /\ hi # NoBound => k < hi}
  IN  Pull(b, [h EXCEPT !.view = live, !.rest = within, !.cur = NoKey], fail)
-----------------------------------------------------------------------------
Restart(b, h, live, fail) ==
  IF b.txn THEN RebuildAndPull(b, h, live, b.start, b.end, fail)
             ELSE SnapshotRestart(b, h, fail)

Step(b, h, fail) == IF b.txn THEN Pull(b, h, fail) ELSE SnapshotStep(b, h, fail)

(* Mutant: the values of the last batch are kept.                          *)
InvalidatedCount(h) == [h EXCEPT !.count = 0]

Invalidated(h) == [h EXCEPT !.values = <<>>, !.count = 0]

SeekForward(b, h, live, t, fail) ==
  LET clamped == IF b.start # NoBound /\ t < b.start THEN b.start ELSE t
  IN  IF b.txn THEN RebuildAndPull(b, h, live, clamped, b.end, fail)
                 ELSE Position(b, h, AtOrAbove(h, clamped), fail)

(* Mutant: a rebuilt reverse scan leaves out the target.                   *)
SeekBelow(b, h, live, t, fail) ==
  LET aboveEnd == b.end # NoBound /\ t >= b.end
  IN  IF b.txn
        THEN RebuildAndPull(b, h, live, b.start, IF aboveEnd THEN b.end ELSE t, fail)
        ELSE IF aboveEnd THEN Restart(b, h, live, fail)
                         ELSE Position(b, h, AtOrBelow(h, t), fail)

SeekReverse(b, h, live, t, fail) ==
  LET aboveEnd == b.end # NoBound /\ t >= b.end
  IN  IF b.txn
        THEN RebuildAndPull(b, h, live, b.start, IF aboveEnd THEN b.end ELSE t + 1, fail)
        ELSE IF aboveEnd THEN Restart(b, h, live, fail)
                         ELSE Position(b, h, AtOrBelow(h, t), fail)

(* regolith_iter_seek                                                      *)
SeekHandle(b, h, live, t, fail) ==
  LET ready == [Invalidated(h) EXCEPT !.reset = FALSE, !.pending = FALSE, !.include = TRUE]
  IN  IF b.reverse THEN SeekReverse(b, ready, live, t, fail)
                   ELSE SeekForward(b, ready, live, t, fail)

(* regolith_iter_reset                                                     *)
ResetHandle(h) ==
  [Invalidated(h) EXCEPT !.reset = TRUE, !.include = FALSE, !.pending = FALSE]

(* Mutants: a single step leaves include set, or drops the last batch.     *)
NextKeepsInclude(b, h, live, fail) ==
  IF h.reset THEN Restart(b, [h EXCEPT !.reset = FALSE, !.include = FALSE], live, fail)
             ELSE Step(b, h, fail)

NextInvalidates(b, h, live, fail) ==
  IF h.reset
    THEN Restart(b, [Invalidated(h) EXCEPT !.reset = FALSE, !.include = FALSE], live, fail)
    ELSE Step(b, [Invalidated(h) EXCEPT !.include = FALSE], fail)

(* regolith_iter_next: a single advance, which steps past a sought entry.  *)
NextHandle(b, h, live, fail) ==
  IF h.reset THEN Restart(b, [h EXCEPT !.reset = FALSE, !.include = FALSE], live, fail)
             ELSE Step(b, [h EXCEPT !.include = FALSE], fail)

(* One advance of a batch: a sought entry is framed, not stepped past.     *)
AdvanceInBatch(b, h, live, fail) ==
  IF ~h.reset /\ h.include
    THEN Answer([h EXCEPT !.include = FALSE], IF OnEntry(b, h) THEN "more" ELSE "end")
    ELSE NextHandle(b, h, live, fail)

(* Mutant: nothing ends a batch for the bytes it retains.                  *)
FrameUncapped(b, w, h) ==
  LET v == h.view[h.cur]
  IN  [ h |-> IF b.keysOnly THEN h ELSE [h EXCEPT !.values = Append(@, v)],
        keys |-> Append(w.keys, h.cur),
        bytes |-> IF b.keysOnly THEN w.bytes ELSE w.bytes + v,
        stopped |-> FALSE,
        failed |-> FALSE ]

(* Frame the current key and retain its value; a batch that has retained   *)
(* MaxBytes ends here.                                                     *)
Frame(b, w, h) ==
  LET v == h.view[h.cur]
      retained == IF b.keysOnly THEN w.bytes ELSE w.bytes + v
  IN  [ h |-> IF b.keysOnly THEN h ELSE [h EXCEPT !.values = Append(@, v)],
        keys |-> Append(w.keys, h.cur),
        bytes |-> retained,
        stopped |-> ~b.keysOnly /\ retained >= MaxBytes,
        failed |-> FALSE ]

(* One turn of the loop of next_batch.                                     *)
WalkOn(b, w, live, fail) ==
  LET a == AdvanceInBatch(b, w.h, live, fail)
  IN  IF w.stopped THEN w
      ELSE IF a.r = "more" THEN Frame(b, w, a.h)
      ELSE [w EXCEPT !.h = a.h, !.stopped = TRUE, !.failed = (a.r = "error")]

WalkFrom(h) == [h |-> h, keys |-> <<>>, bytes |-> 0, stopped |-> FALSE, failed |-> FALSE]

(* The loop; its failAt-th advance fails to read.                          *)
BatchWalk(b, h, live, failAt) ==
  LET walk[n \in 0..MaxEntries] ==
        IF n = 0 THEN WalkFrom(h) ELSE WalkOn(b, walk[n - 1], live, n = failAt)
  IN  walk[MaxEntries]

(* Mutants: a failure held back is forgotten; the count of the last batch  *)
(* is added to.                                                            *)
NextBatchForgets(b, h, live, failAt) ==
  LET w == BatchWalk(b, Invalidated(h), live, failAt)
      n == Len(w.keys)
  IN  [ h    |-> [w.h EXCEPT !.count = n, !.pending = w.failed /\ n > 0],
        keys |-> w.keys,
        ok   |-> ~(w.failed /\ n = 0) ]

NextBatchAddsUp(b, h, live, failAt) ==
  LET w == BatchWalk(b, [h EXCEPT !.values = <<>>], live, failAt)
      n == Len(w.keys)
  IN  IF h.pending
        THEN [h |-> [Invalidated(h) EXCEPT !.pending = FALSE], keys |-> <<>>, ok |-> FALSE]
        ELSE [ h    |-> [w.h EXCEPT !.count = @ + n, !.pending = w.failed /\ n > 0],
               keys |-> w.keys,
               ok   |-> ~(w.failed /\ n = 0) ]

(* regolith_iter_next_batch: a failure after at least one entry is held    *)
(* back, a failure before the first one is the answer.                     *)
NextBatch(b, h, live, failAt) ==
  LET w == BatchWalk(b, Invalidated(h), live, failAt)
      n == Len(w.keys)
  IN  IF h.pending
        THEN [h |-> [Invalidated(h) EXCEPT !.pending = FALSE], keys |-> <<>>, ok |-> FALSE]
        ELSE [ h    |-> [w.h EXCEPT !.count = n, !.pending = w.failed /\ n > 0],
               keys |-> w.keys,
               ok   |-> ~(w.failed /\ n = 0) ]

(* regolith_iter_batch_value of the 0-based entry i.                       *)
BadIndex == -2
BatchValue(h, i) == IF i >= h.count THEN BadIndex
                    ELSE IF i < Len(h.values) THEN h.values[i + 1] ELSE -1
=============================================================================
