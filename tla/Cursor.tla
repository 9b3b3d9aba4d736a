------------------------------- MODULE Cursor -------------------------------
(***************************************************************************)
(* What an iterator promises its caller: a cursor over the in-range        *)
(* entries of one view, one entry per Next, in order and without a gap.    *)
(* No batches, no prefetch, no positioning flags.                          *)
(*                                                                         *)
(* Over a transaction the view is sampled when a walk begins (the first    *)
(* Next after creation or Reset, and every Seek), so writes buffered in    *)
(* the middle of a walk do not show up in it.                              *)
(*                                                                         *)
(* Any advance may fail to read.  The walk is then over: until the next    *)
(* Seek or Reset the cursor delivers no further entry.                     *)
(***************************************************************************)
EXTENDS KeyRange

VARIABLES bounds,  \* the iterator's options
          live,    \* the transaction's writes over its snapshot, right now
          closed,  \* the store has been closed
          view,    \* what the current walk sees
          at,      \* the current key, or AtStart, AtEnd, AtFailure
          entry,   \* the current key and value, or NoEntry
          out      \* what the last call answered

curVars == <<bounds, live, closed, view, at, entry, out>>

NoEntry == <<>>
Nil     == -1       \* a nil value

AtStart   == -1     \* before the first entry
AtEnd     == -2     \* past the last one
AtFailure == -3     \* nowhere: the walk broke off

Entry(b, v, k) == <<k, IF b.keysOnly THEN Nil ELSE v[k]>>

Init ==
  /\ bounds \in Bounds
  /\ live \in ViewsOf(bounds)
  /\ closed = FALSE
  /\ view = live
  /\ at = AtStart
  /\ entry = NoEntry
  /\ out = "none"

(* Stand on the first of the entries S of view v, if there is one.         *)
Land(v, S) ==
  /\ view' = v
  /\ \/ /\ S = {}
        /\ at' = AtEnd /\ entry' = NoEntry /\ out' = "false"
     \/ /\ S # {}
        /\ at' = FirstOf(bounds, S)
        /\ entry' = Entry(bounds, v, FirstOf(bounds, S))
        /\ out' = "true"

Fail(v) == view' = v /\ at' = AtFailure /\ entry' = NoEntry /\ out' = "error"

Sampled == IF bounds.txn THEN live ELSE view

Advance ==
  \/ at = AtStart   /\ (Land(Sampled, InRange(bounds, Sampled)) \/ Fail(Sampled))
  \/ at \in Keys    /\ (Land(view, Beyond(bounds, view, at)) \/ Fail(view))
  \/ at = AtEnd     /\ Land(view, {})
  \/ at = AtFailure /\ (Land(view, {}) \/ Fail(view))

Refuse == out' = "closed" /\ UNCHANGED <<view, at, entry>>

CallNext == /\ IF closed THEN Refuse ELSE Advance
            /\ UNCHANGED <<bounds, live, closed>>

Seek(t) == /\ IF closed THEN Refuse
              ELSE Land(Sampled, FromOn(bounds, Sampled, t)) \/ Fail(Sampled)
           /\ UNCHANGED <<bounds, live, closed>>

Reset == /\ at' = AtStart /\ entry' = NoEntry /\ out' = "none"
         /\ UNCHANGED <<bounds, live, closed, view>>

(* The rest of the program: it writes in the transaction, or closes the DB. *)
Environment == \/ /\ bounds.txn /\ live' \in ViewsOf(bounds)
                  /\ UNCHANGED <<bounds, closed, view, at, entry, out>>
               \/ /\ closed' = TRUE
                  /\ UNCHANGED <<bounds, live, view, at, entry, out>>

Next == CallNext \/ (\E t \in Keys : Seek(t)) \/ Reset \/ Environment

Spec == Init /\ [][Next]_curVars
=============================================================================
