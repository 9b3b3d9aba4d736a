------------------------------ MODULE KeyRange ------------------------------
(***************************************************************************)
(* The keys an iterator ranges over, and what is fixed when it is created: *)
(* its source, a snapshot of the store or a transaction, and its resolved  *)
(* bounds (Source and Bounds in ffi/src/iter.rs).  Only the order of keys  *)
(* matters to an iterator, so a key is a number; the smallest key above    *)
(* target, which the code spells as "target with a zero byte appended", is *)
(* target + 1.  A view is what a snapshot or a transaction holds: a        *)
(* function from its keys to values.                                       *)
(***************************************************************************)
EXTENDS Integers

CONSTANTS MaxKey,     \* keys are 0..MaxKey
          TxnMaxKey,  \* bound: a transaction holds and writes 0..TxnMaxKey
          Values,     \* values, told apart by their length in bytes
          Starts,     \* lower bounds to try: keys or NoBound
          Ends        \* exclusive upper bounds to try: keys or NoBound

NoBound == -1
NoKey   == -1
Keys    == 0..MaxKey

ASSUME KeyRangeAssumption ==
  /\ MaxKey \in Nat /\ TxnMaxKey \in 0..MaxKey
  /\ Values \subseteq Nat
  /\ Starts \subseteq Keys \cup {NoBound}
  /\ Ends \subseteq Keys \cup {NoBound}

Views == UNION {[S -> Values] : S \in SUBSET Keys}

Bounds == [ txn : BOOLEAN,       \* the source is a transaction
            start : Starts, end : Ends, reverse : BOOLEAN, keysOnly : BOOLEAN ]

(* The views the source of b may hold.                                     *)
ViewsOf(b) == IF b.txn THEN UNION {[S -> Values] : S \in SUBSET (0..TxnMaxKey)}
                       ELSE Views

(* One more write, Set or Delete, buffered in a transaction that holds v.  *)
Written(v) == {[j \in DOMAIN v \cup {k} |-> IF j = k THEN x ELSE v[j]] :
                 k \in 0..TxnMaxKey, x \in Values}
              \cup {[j \in DOMAIN v \ {k} |-> v[j]] : k \in 0..TxnMaxKey}

Contains(b, k) == /\ b.start # NoBound => k >= b.start
                  /\ b.end   # NoBound => k < b.end

Smallest(S) == IF S = {} THEN NoKey ELSE CHOOSE k \in S : \A j \in S : k <= j
Largest(S)  == IF S = {} THEN NoKey ELSE CHOOSE k \in S : \A j \in S : k >= j

(* The key a walk in the direction of b meets first in S.                  *)
FirstOf(b, S) == IF b.reverse THEN Largest(S) ELSE Smallest(S)

(* The keys of a view that a walk over b is to deliver, the ones left of   *)
(* them beyond key k, and the ones a seek to t still leaves.               *)
InRange(b, view)   == {k \in DOMAIN view : Contains(b, k)}
Beyond(b, view, k) == {j \in InRange(b, view) : IF b.reverse THEN j < k ELSE j > k}
FromOn(b, view, t) == {j \in InRange(b, view) : IF b.reverse THEN j <= t ELSE j >= t}
=============================================================================
