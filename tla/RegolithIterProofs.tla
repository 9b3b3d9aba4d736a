------------------------- MODULE RegolithIterProofs -------------------------
(***************************************************************************)
(* What the operations of an iterator handle do, for every set of keys,    *)
(* every range and every failure: each advance yields the first of the     *)
(* keys left, and a batch is a gapless walk through them.                  *)
(***************************************************************************)
EXTENDS RegolithIter, WellFoundedInduction, SequenceTheorems, TLAPS

(* Induction over the natural numbers, for sets instead of predicates: the *)
(* provers instantiate a set with a comprehension, but no operator.        *)

(* A well-founded relation has a minimal element in every set.             *)
LEMMA Minimal ==
  ASSUME NEW R, NEW S, IsWellFoundedOn(R, Nat), S \subseteq Nat, S # {}
  PROVE  \E x \in S : \A y \in S : ~ (<<y, x>> \in R)
  BY WFMin, Zenon

(* A well-founded relation that contains < has a least element to offer.   *)
LEMMA LeastFor ==
  ASSUME NEW R, IsWellFoundedOn(R, Nat), \A m, n \in Nat : m < n => <<m, n>> \in R,
         NEW S, S \subseteq Nat, S # {}
  PROVE  \E n \in S : \A m \in S : n <= m
  <1>1. \E x \in S : \A y \in S : ~ (<<y, x>> \in R)
    BY Minimal
  <1>2. PICK n \in S : \A m \in S : ~ (<<m, n>> \in R)
    BY <1>1
  <1>3. \A m \in S : ~ (m < n)
    BY <1>2
  <1>4. QED
    BY <1>3

(* A set of natural numbers has a least element.                           *)
LEMMA LeastNat ==
  ASSUME NEW S, S \subseteq Nat, S # {}
  PROVE  \E n \in S : \A m \in S : n <= m
  <1> DEFINE R == OpToRel(<, Nat)
  <1>1. IsWellFoundedOn(R, Nat)
    BY NatLessThanWellFounded
  <1>2. \A m, n \in Nat : m < n => <<m, n>> \in R
    BY DEF OpToRel
  <1> HIDE DEF R
  <1>3. QED
    BY <1>1, <1>2, LeastFor

(* A set with 0 and the successor of each of its numbers holds them all.   *)
LEMMA Induction ==
  ASSUME NEW S, 0 \in S, \A n \in Nat : n \in S => n + 1 \in S
  PROVE  Nat \subseteq S
  <1> SUFFICES ASSUME Nat \ S # {} PROVE FALSE
    OBVIOUS
  <1>1. PICK n \in Nat \ S : \A m \in Nat \ S : n <= m
    BY LeastNat
  <1>2. n # 0 /\ n - 1 \in Nat
    BY <1>1
  <1>3. n - 1 \in S
    BY <1>1, <1>2
  <1>4. QED
    BY <1>1, <1>2, <1>3

(* N turns of a loop, the n-th of which leads from x to F[<<n, x>>], lead  *)
(* from w through W.                                                       *)
Runs(N, W, w, F) ==
  \E f \in [0..N -> W] : f[0] = w /\ \A n \in 1..N : f[n] = F[<<n, f[n - 1]>>]

(* They do if each turn leads from W to W.                                 *)
LEMMA Iteration ==
  ASSUME NEW N \in Nat, NEW W, NEW w \in W, NEW F \in [(1..N) \X W -> W]
  PROVE  Runs(N, W, w, F)
  <1> DEFINE Run(f, n) == /\ f \in [0..n -> W] /\ f[0] = w
                          /\ \A m \in 1..n : f[m] = F[<<m, f[m - 1]>>]
             S == {n \in Nat : n <= N => \E f : Run(f, n)}
  <1>1. 0 \in S
    <2>1. Run([i \in 0..0 |-> w], 0)
      OBVIOUS
    <2>2. QED
      BY <2>1
  <1>2. ASSUME NEW n \in Nat, n \in S
        PROVE  n + 1 \in S
    <2> SUFFICES ASSUME n + 1 <= N PROVE \E f : Run(f, n + 1)
      OBVIOUS
    <2>1. PICK f : Run(f, n)
      BY <1>2
    <2> DEFINE x == F[<<n + 1, f[n]>>]
               g == [i \in 0..n + 1 |-> IF i = n + 1 THEN x ELSE f[i]]
    <2>2. n + 1 \in 1..N /\ f[n] \in W
      BY <2>1
    <2>3. x \in W
      BY <2>2
    <2>4. g \in [0..n + 1 -> W] /\ g[0] = w
      BY <2>1, <2>3
    <2>5. ASSUME NEW m \in 1..n + 1
          PROVE  g[m] = F[<<m, g[m - 1]>>]
      <3>1. CASE m = n + 1
        <4>1. g[m] = x /\ g[m - 1] = f[n]
          BY <3>1
        <4>2. QED
          BY <3>1, <4>1
      <3>2. CASE m # n + 1
        <4>1. m \in 1..n /\ m - 1 \in 0..n
          BY <3>2
        <4>2. g[m] = f[m] /\ g[m - 1] = f[m - 1]
          BY <4>1
        <4>3. QED
          BY <2>1, <4>1, <4>2
      <3>3. QED
        BY <3>1, <3>2
    <2>6. QED
      BY <2>4, <2>5
  <1>3. Nat \subseteq S
    <2> HIDE DEF S
    <2> QED BY <1>1, <1>2, Induction
  <1>4. QED
    BY <1>3 DEF Runs
-----------------------------------------------------------------------------
(* The first key of a set.                                                 *)

USE KeyRangeAssumption, BatchAssumption

(* Smallest finds the least key of a set that has one.                     *)
LEMMA SmallestIs ==
  ASSUME NEW S, S \subseteq Keys, S # {}
  PROVE  Smallest(S) \in S /\ \A j \in S : Smallest(S) <= j
  <1>1. S \subseteq Nat
    BY DEF Keys
  <1>2. \E k \in S : \A j \in S : k <= j
    BY <1>1, LeastNat
  <1>3. QED
    BY <1>2 DEF Smallest

(* Largest finds the greatest one.                                         *)
LEMMA LargestIs ==
  ASSUME NEW S, S \subseteq Keys, S # {}
  PROVE  Largest(S) \in S /\ \A j \in S : Largest(S) >= j
  <1> DEFINE T == {n \in Nat : n <= MaxKey /\ MaxKey - n \in S}
  <1>1. T # {} /\ T \subseteq Nat
    <2>1. PICK k \in S : TRUE
      OBVIOUS
    <2>2. k \in 0..MaxKey
      BY DEF Keys
    <2>3. MaxKey - k \in Nat /\ MaxKey - k <= MaxKey /\ MaxKey - (MaxKey - k) = k
      BY <2>2
    <2>4. MaxKey - k \in T
      BY <2>3, <2>1
    <2>5. QED
      BY <2>4
  <1>2. PICK n \in T : \A m \in T : n <= m
    <2> HIDE DEF T
    <2> QED BY <1>1, LeastNat
  <1>3. ASSUME NEW j \in S
        PROVE  MaxKey - n >= j
    <2>1. j \in 0..MaxKey
      BY DEF Keys
    <2>2. MaxKey - j \in Nat /\ MaxKey - j <= MaxKey /\ MaxKey - (MaxKey - j) = j
      BY <2>1
    <2>3. MaxKey - j \in T
      BY <2>2
    <2>4. n <= MaxKey - j
      BY <2>3, <1>2
    <2>5. QED
      BY <2>1, <2>4, <1>2
  <1>4. \E k \in S : \A j \in S : k >= j
    BY <1>2, <1>3
  <1>5. QED
    BY <1>4 DEF Largest

(* The first key of a set, in the direction of b: it is one of its keys,   *)
(* and no other comes before it.                                           *)
LEMMA FirstOfIs ==
  ASSUME NEW b \in Bounds, NEW S, S \subseteq Keys, S # {}
  PROVE  /\ FirstOf(b, S) \in S
         /\ \A j \in S : IF b.reverse THEN FirstOf(b, S) >= j ELSE FirstOf(b, S) <= j
  <1>1. b.reverse \in BOOLEAN
    BY DEF Bounds
  <1>2. CASE b.reverse
    BY <1>2, LargestIs DEF FirstOf
  <1>3. CASE ~b.reverse
    BY <1>3, SmallestIs DEF FirstOf
  <1>4. QED
    BY <1>1, <1>2, <1>3

(* A key of a set that no other one comes before is the first.             *)
LEMMA FirstOfUnique ==
  ASSUME NEW b \in Bounds, NEW S, S \subseteq Keys, NEW k \in S,
         \A j \in S : IF b.reverse THEN k >= j ELSE k <= j
  PROVE  FirstOf(b, S) = k
  <1>1. FirstOf(b, S) \in S /\ IF b.reverse THEN FirstOf(b, S) >= k ELSE FirstOf(b, S) <= k
    BY FirstOfIs
  <1>2. IF b.reverse THEN k >= FirstOf(b, S) ELSE k <= FirstOf(b, S)
    BY <1>1
  <1>3. k \in Keys /\ FirstOf(b, S) \in Keys
    BY <1>1
  <1>4. QED
    BY <1>1, <1>2, <1>3 DEF Keys

(* No key is the first of none.                                            *)
LEMMA FirstOfNone ==
  ASSUME NEW b
  PROVE  FirstOf(b, {}) = NoKey
  BY DEF FirstOf, Smallest, Largest

(* The keys of a view are keys, and its entries values.                    *)
LEMMA ViewKeys ==
  ASSUME NEW v \in Views
  PROVE  DOMAIN v \subseteq Keys /\ \A k \in DOMAIN v : v[k] \in Values
  BY DEF Views

(* What a source may hold is a view.                                       *)
LEMMA SourceViews ==
  ASSUME NEW b \in Bounds
  PROVE  ViewsOf(b) \subseteq Views
  <1>1. SUBSET (0..TxnMaxKey) \subseteq SUBSET Keys
    BY DEF Keys
  <1>2. QED
    BY <1>1 DEF ViewsOf, Views

(* Every write in a transaction leaves it with a view it may hold.         *)
LEMMA WrittenViews ==
  ASSUME NEW b \in Bounds, b.txn, NEW v \in ViewsOf(b), NEW w \in Written(v)
  PROVE  w \in ViewsOf(b)
  <1> DEFINE Sets == {[j \in DOMAIN v \cup {k} |-> IF j = k THEN x ELSE v[j]] :
                        k \in 0..TxnMaxKey, x \in Values}
             Deletes == {[j \in DOMAIN v \ {k} |-> v[j]] : k \in 0..TxnMaxKey}
  <1>1. PICK S \in SUBSET (0..TxnMaxKey) : v \in [S -> Values]
    BY DEF ViewsOf
  <1>2. ASSUME w \in Sets
        PROVE  w \in ViewsOf(b)
    <2>1. PICK k \in 0..TxnMaxKey, x \in Values :
            w = [j \in DOMAIN v \cup {k} |-> IF j = k THEN x ELSE v[j]]
      BY <1>2
    <2>2. w \in [S \cup {k} -> Values] /\ S \cup {k} \in SUBSET (0..TxnMaxKey)
      BY <1>1, <2>1
    <2>3. QED
      BY <2>2 DEF ViewsOf
  <1>3. ASSUME w \in Deletes
        PROVE  w \in ViewsOf(b)
    <2>1. PICK k \in 0..TxnMaxKey : w = [j \in DOMAIN v \ {k} |-> v[j]]
      BY <1>3
    <2>2. w \in [S \ {k} -> Values] /\ S \ {k} \in SUBSET (0..TxnMaxKey)
      BY <1>1, <2>1
    <2>3. QED
      BY <2>2 DEF ViewsOf
  <1>4. w \in Sets \cup Deletes
    BY DEF Written
  <1> HIDE DEF Sets, Deletes
  <1>5. QED
    BY <1>2, <1>3, <1>4
-----------------------------------------------------------------------------
(* One advance.                                                            *)

(* Where a handle stands: a cursor over a snapshot is on a key of it, in   *)
(* the range or not; a scan stream is on a key of the range, and has yet   *)
(* to yield the ones beyond it.                                            *)
HandleOk(b, h) ==
  /\ h.cur # NoKey => h.cur \in DOMAIN h.view
  /\ b.txn => IF h.cur = NoKey THEN h.rest = {}
              ELSE /\ h.cur \in InRange(b, h.view)
                   /\ h.rest = Beyond(b, h.view, h.cur)

(* The keys a handle that is not waiting to start has yet to deliver.      *)
Left(b, h) == IF ~OnEntry(b, h) THEN {}
              ELSE IF h.include THEN FromOn(b, h.view, h.cur)
                                ELSE Beyond(b, h.view, h.cur)

(* The view a handle is about to walk, and the keys of it still ahead.     *)
Seen(b, h, live) == IF h.reset /\ b.txn THEN live ELSE h.view

Ahead(b, h, live) == IF h.reset THEN InRange(b, Seen(b, h, live)) ELSE Left(b, h)

(* g is h moved to some place of view v.                                   *)
MovedIn(b, h, v, g) ==
  /\ g \in Handle /\ HandleOk(b, g) /\ g.view = v
  /\ g.reset = h.reset /\ g.include = h.include
  /\ g.values = h.values /\ g.count = h.count /\ g.pending = h.pending

(* a is what comes of moving h to the first of the keys A of view v.       *)
LandsOn(b, h, v, A, a) ==
  /\ MovedIn(b, h, v, a.h)
  /\ a.r \in {"more", "end", "error"}
  /\ a.r = "more" => A # {} /\ a.h.cur = FirstOf(b, A) /\ OnEntry(b, a.h)
  /\ a.r # "more" => ~OnEntry(b, a.h)
  /\ a.r = "end" => A = {}
  /\ a.r = "error" => a.h.cur = NoKey

(* Keys in the range, or beyond another, are keys.                         *)
LEMMA RangeKeys ==
  ASSUME NEW b, NEW v \in Views
  PROVE  /\ InRange(b, v) \subseteq Keys
         /\ \A k : Beyond(b, v, k) \subseteq Keys /\ FromOn(b, v, k) \subseteq Keys
  BY ViewKeys DEF InRange, Beyond, FromOn

(* A cursor over a snapshot, sent to the first key in the store at or past *)
(* t, lands on the first key of the range there, if no key of the store    *)
(* from t on comes before the range.                                       *)
LEMMA CursorLands ==
  ASSUME NEW b \in Bounds, ~b.txn, NEW h \in Handle, NEW fail \in BOOLEAN, NEW t \in Int,
         IF b.reverse THEN b.end # NoBound => t < b.end
                      ELSE b.start # NoBound => t >= b.start,
         NEW k, k = IF b.reverse THEN AtOrBelow(h, t) ELSE AtOrAbove(h, t)
  PROVE  LandsOn(b, h, h.view, FromOn(b, h.view, t), Position(b, h, k, fail))
  <1> DEFINE T == {j \in DOMAIN h.view : IF b.reverse THEN j <= t ELSE j >= t}
             A == FromOn(b, h.view, t)
             moved == [h EXCEPT !.cur = IF fail THEN NoKey ELSE k]
             a == Position(b, h, k, fail)
  <1>1. b.reverse \in BOOLEAN /\ b.start \in Keys \cup {NoBound} /\ b.end \in Keys \cup {NoBound}
    BY DEF Bounds
  <1>2. h.view \in Views /\ T \subseteq Keys /\ A \subseteq T
    BY ViewKeys, <1>1 DEF Handle, FromOn, InRange
  <1>3. k = FirstOf(b, T)
    BY <1>1 DEF FirstOf, AtOrBelow, AtOrAbove
  <1>4. T = {} => k = NoKey
    BY <1>3, FirstOfNone
  <1>5. T # {} => k \in T /\ \A j \in T : IF b.reverse THEN k >= j ELSE k <= j
    BY <1>2, <1>3, FirstOfIs
  <1>6. A = {j \in T : Contains(b, j)}
    BY <1>1 DEF FromOn, InRange
  <1>7. A # {} => T # {} /\ k \in A
    <2> SUFFICES ASSUME A # {} PROVE T # {} /\ k \in A
      OBVIOUS
    <2>1. PICK j \in A : TRUE
      OBVIOUS
    <2>2. j \in T /\ Contains(b, j) /\ k \in T /\ IF b.reverse THEN k >= j ELSE k <= j
      BY <1>5, <1>6, <2>1
    <2>3. j \in 0..MaxKey /\ k \in 0..MaxKey /\ IF b.reverse THEN k <= t ELSE k >= t
      BY <1>2, <2>2 DEF Keys
    <2>4. Contains(b, k)
      BY <2>2, <2>3, <1>1 DEF Contains, Keys, NoBound
    <2>5. QED
      BY <2>2, <2>4, <1>6
  <1>8. A # {} => k = FirstOf(b, A)
    BY <1>2, <1>5, <1>7, FirstOfUnique
  <1>9. A = {} => k = NoKey \/ ~Contains(b, k)
    BY <1>4, <1>5, <1>6
  <1>10. k \in Keys \cup {NoKey} /\ (k # NoKey => k \in DOMAIN h.view)
    BY <1>2, <1>4, <1>5
  <1>11. /\ moved \in Handle /\ moved.view = h.view
         /\ moved.cur = IF fail THEN NoKey ELSE k
         /\ moved.reset = h.reset /\ moved.include = h.include
         /\ moved.values = h.values /\ moved.count = h.count /\ moved.pending = h.pending
    BY <1>10 DEF Handle
  <1>12. A # {} => k # NoKey /\ Contains(b, k)
    BY <1>2, <1>6, <1>7 DEF Keys, NoKey
  <1>13. a.h = moved /\ a.r = IF fail THEN "error" ELSE IF OnEntry(b, moved) THEN "more" ELSE "end"
    BY DEF Position, Answer
  <1>14. OnEntry(b, moved) <=> ~fail /\ A # {}
    <2>1. OnEntry(b, moved) <=> moved.cur # NoKey /\ Contains(b, moved.cur)
      BY DEF OnEntry
    <2> HIDE DEF moved, A
    <2>2. CASE fail
      BY <2>1, <2>2, <1>11
    <2>3. CASE ~fail
      BY <2>1, <2>3, <1>11, <1>9, <1>12
    <2>4. QED
      BY <2>2, <2>3
  <1>15. HandleOk(b, moved)
    BY <1>10, <1>11 DEF HandleOk
  <1> HIDE DEF moved, A, a
  <1>16. MovedIn(b, h, h.view, a.h)
    BY <1>11, <1>13, <1>15 DEF MovedIn
  <1>17. a.r = "more" => A # {} /\ a.h.cur = FirstOf(b, A) /\ OnEntry(b, a.h)
    BY <1>8, <1>11, <1>13, <1>14
  <1>18. /\ a.r \in {"more", "end", "error"}
         /\ a.r # "more" => ~OnEntry(b, a.h)
         /\ a.r = "end" => A = {}
         /\ a.r = "error" => a.h.cur = NoKey
    BY <1>11, <1>13, <1>14
  <1>19. QED
    BY <1>16, <1>17, <1>18 DEF LandsOn, A, a

(* A scan stream that has yet to yield the keys of the range from t on     *)
(* yields the first of them.                                               *)
LEMMA StreamYields ==
  ASSUME NEW b \in Bounds, b.txn, NEW h \in Handle, NEW fail \in BOOLEAN, NEW t \in Int,
         h.rest = FromOn(b, h.view, t)
  PROVE  LandsOn(b, h, h.view, h.rest, Pull(b, h, fail))
  <1> DEFINE A == h.rest
             k == FirstOf(b, A)
             moved == [h EXCEPT !.cur = IF fail THEN NoKey ELSE k,
                                !.rest = IF fail THEN {} ELSE @ \ {k}]
             a == Pull(b, h, fail)
  <1>1. b.reverse \in BOOLEAN /\ h.view \in Views /\ A \subseteq Keys
    BY DEF Bounds, Handle
  <1>2. A = {} => k = NoKey
    BY FirstOfNone
  <1>3. A # {} => k \in A /\ \A j \in A : IF b.reverse THEN k >= j ELSE k <= j
    BY <1>1, FirstOfIs
  <1>4. k \in Keys \cup {NoKey}
    BY <1>1, <1>2, <1>3
  <1>5. /\ moved \in Handle /\ moved.view = h.view
        /\ moved.cur = IF fail THEN NoKey ELSE k
        /\ moved.rest = IF fail THEN {} ELSE A \ {k}
        /\ moved.reset = h.reset /\ moved.include = h.include
        /\ moved.values = h.values /\ moved.count = h.count /\ moved.pending = h.pending
    BY <1>4 DEF Handle
  <1>6. a.h = moved /\ a.r = IF fail THEN "error" ELSE IF OnEntry(b, moved) THEN "more" ELSE "end"
    <2>1. /\ [h EXCEPT !.rest = IF fail THEN {} ELSE @ \ {k}] \in Handle
          /\ [[h EXCEPT !.rest = IF fail THEN {} ELSE @ \ {k}] EXCEPT !.cur = IF fail THEN NoKey ELSE k]
             = moved
      BY <1>4 DEF Handle
    <2>2. QED
      BY <2>1 DEF Pull, Position, Answer
  <1>7. A # {} => k # NoKey
    BY <1>1, <1>3 DEF Keys, NoKey
  <1>8. OnEntry(b, moved) <=> ~fail /\ A # {}
    BY <1>2, <1>5, <1>7 DEF OnEntry
  <1>9. A # {} => k \in InRange(b, h.view) /\ A \ {k} = Beyond(b, h.view, k)
    <2> SUFFICES ASSUME A # {}
                 PROVE  k \in InRange(b, h.view) /\ A \ {k} = Beyond(b, h.view, k)
      OBVIOUS
    <2>1. k \in A /\ A = {j \in InRange(b, h.view) : IF b.reverse THEN j <= t ELSE j >= t}
      BY <1>3 DEF FromOn
    <2>2. k \in InRange(b, h.view) /\ IF b.reverse THEN k <= t ELSE k >= t
      BY <2>1
    <2>3. \A j \in InRange(b, h.view) : j \in 0..MaxKey
      BY <1>1, RangeKeys DEF Keys
    <2>4. ASSUME NEW j \in A \ {k}
          PROVE  IF b.reverse THEN j < k ELSE j > k
      <3>1. j \in 0..MaxKey /\ k \in 0..MaxKey /\ j # k
        BY <2>1, <2>3
      <3>2. IF b.reverse THEN k >= j ELSE k <= j
        BY <1>3, <2>1
      <3>3. QED
        BY <3>1, <3>2
    <2>5. \A j \in InRange(b, h.view) :
             (IF b.reverse THEN j < k ELSE j > k) => j \in A /\ j # k
      BY <2>1, <2>2, <2>3
    <2>6. A \ {k} = Beyond(b, h.view, k)
      BY <2>1, <2>4, <2>5 DEF Beyond
    <2>7. QED
      BY <2>2, <2>6
  <1>10. HandleOk(b, moved)
    <2>1. CASE fail \/ A = {}
      BY <2>1, <1>2, <1>5 DEF HandleOk
    <2>2. CASE ~fail /\ A # {}
      BY <2>2, <1>5, <1>7, <1>9 DEF HandleOk, InRange
    <2>3. QED
      BY <2>1, <2>2
  <1> HIDE DEF moved, A, a
  <1>11. MovedIn(b, h, h.view, a.h)
    BY <1>5, <1>6, <1>10 DEF MovedIn
  <1>12. a.r = "more" => A # {} /\ a.h.cur = FirstOf(b, A) /\ OnEntry(b, a.h)
    BY <1>5, <1>6, <1>8
  <1>13. /\ a.r \in {"more", "end", "error"}
         /\ a.r # "more" => ~OnEntry(b, a.h)
         /\ a.r = "end" => A = {}
         /\ a.r = "error" => a.h.cur = NoKey
    BY <1>5, <1>6, <1>8
  <1>14. QED
    BY <1>11, <1>12, <1>13 DEF LandsOn, A, a

(* Landing depends on no more of where it starts from than what it keeps.  *)
LEMMA LandsFrom ==
  ASSUME NEW b, NEW h, NEW g, NEW v, NEW A, NEW a, LandsOn(b, g, v, A, a),
         g.reset = h.reset, g.include = h.include,
         g.values = h.values, g.count = h.count, g.pending = h.pending
  PROVE  LandsOn(b, h, v, A, a)
  BY DEF LandsOn, MovedIn

(* A stream rebuilt over [lo, hi) of the transaction's current writes      *)
(* yields the first of them that are in the range, from t on.              *)
LEMMA RebuildLands ==
  ASSUME NEW b \in Bounds, b.txn, NEW h \in Handle, NEW live \in Views, NEW fail \in BOOLEAN,
         NEW lo, NEW hi, NEW t \in Int,
         {k \in DOMAIN live : (lo # NoBound => k >= lo) /\ (hi # NoBound => k < hi)}
           = FromOn(b, live, t)
  PROVE  LandsOn(b, h, live, FromOn(b, live, t), RebuildAndPull(b, h, live, lo, hi, fail))
  <1> DEFINE A == FromOn(b, live, t)
             g == [h EXCEPT !.view = live, !.rest = A, !.cur = NoKey]
  <1>1. A \subseteq Keys
    BY RangeKeys
  <1>2. /\ g \in Handle /\ g.view = live /\ g.rest = A
        /\ g.reset = h.reset /\ g.include = h.include
        /\ g.values = h.values /\ g.count = h.count /\ g.pending = h.pending
    BY <1>1 DEF Handle
  <1>3. RebuildAndPull(b, h, live, lo, hi, fail) = Pull(b, g, fail)
    BY DEF RebuildAndPull
  <1> HIDE DEF g, A
  <1>4. LandsOn(b, g, live, A, Pull(b, g, fail))
    <2>1. g.rest = FromOn(b, g.view, t)
      BY <1>2 DEF A
    <2>2. QED
      BY <1>2, <2>1, StreamYields
  <1>5. LandsOn(b, h, live, A, Pull(b, g, fail))
    BY <1>2, <1>4, LandsFrom
  <1>6. QED
    BY <1>3, <1>5 DEF A

(* Every key of a view is on or after the first place a walk may start.    *)
LEMMA WholeRange ==
  ASSUME NEW b \in Bounds, NEW v \in Views, NEW t \in Int,
         \A k \in InRange(b, v) : IF b.reverse THEN k <= t ELSE k >= t
  PROVE  FromOn(b, v, t) = InRange(b, v)
  BY DEF FromOn

(* Starting lands on the first key of the range.                           *)
LEMMA RestartLands ==
  ASSUME NEW b \in Bounds, NEW h \in Handle, NEW live \in Views, NEW fail \in BOOLEAN
  PROVE  LET v == IF b.txn THEN live ELSE h.view
         IN  LandsOn(b, h, v, InRange(b, v), Restart(b, h, live, fail))
  <1>1. /\ b.reverse \in BOOLEAN /\ b.txn \in BOOLEAN
        /\ b.start \in Keys \cup {NoBound} /\ b.end \in Keys \cup {NoBound}
    BY DEF Bounds
  <1>2. h.view \in Views
    BY DEF Handle
  <1>3. CASE b.txn
    <2> DEFINE t == IF b.reverse THEN MaxKey ELSE 0
    <2>1. t \in Int
      OBVIOUS
    <2>2. FromOn(b, live, t) = InRange(b, live)
      <3>1. \A k \in InRange(b, live) : k \in 0..MaxKey
        BY RangeKeys DEF Keys
      <3>2. QED
        BY <1>1, <3>1, <2>1, WholeRange
    <2>3. {k \in DOMAIN live : (b.start # NoBound => k >= b.start) /\ (b.end # NoBound => k < b.end)}
            = InRange(b, live)
      BY DEF InRange, Contains
    <2> HIDE DEF t
    <2>4. LandsOn(b, h, live, FromOn(b, live, t), RebuildAndPull(b, h, live, b.start, b.end, fail))
      BY <1>3, <2>1, <2>2, <2>3, RebuildLands
    <2>5. QED
      BY <1>3, <2>2, <2>4 DEF Restart
  <1>4. CASE ~b.txn /\ ~b.reverse
    <2> DEFINE t == IF b.start = NoBound THEN 0 ELSE b.start
               k == AtOrAbove(h, t)
    <2>1. t \in Int /\ (b.start # NoBound => t >= b.start)
      BY <1>1 DEF Keys, NoBound
    <2>2. FromOn(b, h.view, t) = InRange(b, h.view)
      <3>1. \A j \in InRange(b, h.view) : j \in 0..MaxKey /\ Contains(b, j)
        BY <1>2, RangeKeys DEF Keys, InRange
      <3>2. \A j \in InRange(b, h.view) : j >= t
        BY <3>1, <1>1 DEF Contains, Keys, NoBound
      <3>3. QED
        BY <1>2, <1>4, <2>1, <3>2, WholeRange
    <2>3. Restart(b, h, live, fail) = Position(b, h, k, fail)
      BY <1>4 DEF Restart, SnapshotRestart
    <2> HIDE DEF t
    <2>4. LandsOn(b, h, h.view, FromOn(b, h.view, t), Position(b, h, k, fail))
      BY <1>4, <2>1, CursorLands
    <2>5. QED
      BY <1>4, <2>2, <2>3, <2>4
  <1>5. CASE ~b.txn /\ b.reverse
    <2> DEFINE t == IF b.end = NoBound THEN MaxKey ELSE b.end - 1
               u == IF b.end = NoBound THEN MaxKey ELSE b.end
               top == AtOrBelow(h, u)
               k == IF top # NoKey /\ top = b.end THEN AtOrBelow(h, top - 1) ELSE top
    <2>1. t \in Int /\ (b.end # NoBound => t < b.end)
      BY <1>1 DEF Keys, NoBound
    <2>2. FromOn(b, h.view, t) = InRange(b, h.view)
      <3>1. \A j \in InRange(b, h.view) : j \in 0..MaxKey /\ Contains(b, j)
        BY <1>2, RangeKeys DEF Keys, InRange
      <3>2. \A j \in InRange(b, h.view) : j <= t
        BY <3>1, <1>1 DEF Contains, Keys, NoBound
      <3>3. QED
        BY <1>2, <1>5, <2>1, <3>2, WholeRange
    <2>3. Restart(b, h, live, fail) = Position(b, h, k, fail)
      BY <1>5 DEF Restart, SnapshotRestart
    <2>4. k = AtOrBelow(h, t)
      <3>1. CASE b.end = NoBound
        <4>1. top = AtOrBelow(h, t)
          BY <3>1
        <4>2. k = top
          BY <3>1 DEF NoBound, NoKey
        <4>3. QED
          BY <4>1, <4>2
      <3>2. CASE b.end # NoBound /\ top = b.end
        <4>1. top # NoKey
          BY <3>2 DEF NoBound, NoKey
        <4>2. QED
          BY <3>2, <4>1
      <3>3. CASE b.end # NoBound /\ top # b.end
        <4> DEFINE S == {j \in DOMAIN h.view : j <= b.end}
                   T == {j \in DOMAIN h.view : j <= b.end - 1}
        <4>1. top = Largest(S) /\ AtOrBelow(h, t) = Largest(T)
          BY <3>3 DEF AtOrBelow
        <4>2. DOMAIN h.view \subseteq 0..MaxKey /\ b.end \in 0..MaxKey
          BY <1>1, <1>2, <3>3, ViewKeys DEF Keys
        <4>3. b.end \notin S
          <5> SUFFICES ASSUME b.end \in S PROVE FALSE
            OBVIOUS
          <5>1. S \subseteq Keys /\ S # {}
            BY <4>2 DEF Keys
          <5>2. Largest(S) \in S /\ Largest(S) >= b.end
            BY <5>1, LargestIs
          <5>3. Largest(S) <= b.end /\ Largest(S) \in Int
            BY <5>2, <4>2
          <5>4. QED
            BY <4>1, <4>2, <5>2, <5>3, <3>3
        <4>4. S = T
          BY <4>2, <4>3
        <4>5. QED
          BY <3>3, <4>1, <4>4
      <3>4. QED
        BY <3>1, <3>2, <3>3
    <2> HIDE DEF t, k
    <2>5. LandsOn(b, h, h.view, FromOn(b, h.view, t), Position(b, h, k, fail))
      BY <1>5, <2>1, <2>4, CursorLands
    <2>6. QED
      BY <1>5, <2>2, <2>3, <2>5
  <1>6. QED
    BY <1>1, <1>3, <1>4, <1>5

(* A handle on an entry steps to the next one beyond it, one that is on    *)
(* none has nowhere to go.                                                 *)
LEMMA StepLands ==
  ASSUME NEW b \in Bounds, NEW h \in Handle, HandleOk(b, h), NEW fail \in BOOLEAN
  PROVE  LandsOn(b, h, h.view, IF OnEntry(b, h) THEN Beyond(b, h.view, h.cur) ELSE {},
                 Step(b, h, fail))
  <1>1. /\ b.reverse \in BOOLEAN /\ b.txn \in BOOLEAN
        /\ b.start \in Keys \cup {NoBound} /\ b.end \in Keys \cup {NoBound}
    BY DEF Bounds
  <1>2. h.view \in Views /\ h.cur \in Keys \cup {NoKey}
    BY DEF Handle
  <1> DEFINE t == IF b.reverse THEN h.cur - 1 ELSE h.cur + 1
             none == IF b.reverse THEN -1 ELSE MaxKey + 1
  <1>3. t \in Int /\ none \in Int
    BY <1>2 DEF Keys, NoKey
  <1>4. FromOn(b, h.view, t) = Beyond(b, h.view, h.cur) /\ FromOn(b, h.view, none) = {}
    <2>1. \A j \in InRange(b, h.view) : j \in 0..MaxKey
      BY <1>2, RangeKeys DEF Keys
    <2>2. h.cur \in Int
      BY <1>2 DEF Keys, NoKey
    <2>3. QED
      BY <1>1, <2>1, <2>2 DEF FromOn, Beyond
  <1>5. CASE b.txn
    <2>1. CASE h.cur = NoKey
      <3>1. h.rest = FromOn(b, h.view, none) /\ ~OnEntry(b, h)
        BY <1>4, <1>5, <2>1 DEF HandleOk, OnEntry
      <3> HIDE DEF none, t
      <3>2. LandsOn(b, h, h.view, h.rest, Pull(b, h, fail))
        BY <1>3, <1>5, <3>1, StreamYields
      <3>3. QED
        BY <1>4, <1>5, <3>1, <3>2 DEF Step
    <2>2. CASE h.cur # NoKey
      <3>1. h.rest = FromOn(b, h.view, t) /\ OnEntry(b, h)
        BY <1>4, <1>5, <2>2 DEF HandleOk, OnEntry
      <3> HIDE DEF none, t
      <3>2. LandsOn(b, h, h.view, h.rest, Pull(b, h, fail))
        BY <1>3, <1>5, <3>1, StreamYields
      <3>3. QED
        BY <1>4, <1>5, <3>1, <3>2 DEF Step
    <2>3. QED
      BY <2>1, <2>2
  <1>6. CASE ~b.txn /\ ~OnEntry(b, h)
    <2>1. Step(b, h, fail) = [h |-> h, r |-> "end"]
      BY <1>6 DEF Step, SnapshotStep, Answer
    <2>2. QED
      BY <1>6, <2>1 DEF LandsOn, MovedIn
  <1>7. CASE ~b.txn /\ OnEntry(b, h)
    <2>1. Contains(b, h.cur) /\ h.cur \in 0..MaxKey
      BY <1>2, <1>7 DEF OnEntry, Keys, NoKey
    <2>2. IF b.reverse THEN b.end # NoBound => t < b.end ELSE b.start # NoBound => t >= b.start
      BY <1>1, <2>1 DEF Contains, Keys, NoBound
    <2> DEFINE k == IF b.reverse THEN AtOrBelow(h, t) ELSE AtOrAbove(h, t)
    <2>3. Step(b, h, fail) = Position(b, h, k, fail)
      BY <1>7, <1>1 DEF Step, SnapshotStep
    <2> HIDE DEF t
    <2>4. LandsOn(b, h, h.view, FromOn(b, h.view, t), Position(b, h, k, fail))
      BY <1>3, <1>7, <2>2, CursorLands
    <2>5. QED
      BY <1>4, <1>7, <2>3, <2>4
  <1>8. QED
    BY <1>1, <1>5, <1>6, <1>7

(* A handle that is no longer waiting, of a walk that goes on.             *)
Running(h) == [h EXCEPT !.reset = FALSE, !.include = FALSE]

(* Clearing both flags leaves a handle where it stands.                    *)
LEMMA RunningIs ==
  ASSUME NEW b, NEW h \in Handle, HandleOk(b, h)
  PROVE  /\ Running(h) \in Handle /\ HandleOk(b, Running(h))
         /\ Running(h).reset = FALSE /\ Running(h).include = FALSE
         /\ Running(h).view = h.view /\ Running(h).cur = h.cur /\ Running(h).rest = h.rest
         /\ Running(h).values = h.values /\ Running(h).count = h.count
         /\ Running(h).pending = h.pending
         /\ OnEntry(b, Running(h)) <=> OnEntry(b, h)
  BY DEF Running, Handle, HandleOk, OnEntry

(* A single step goes to the first entry, or past the current one, an      *)
(* entry a seek landed on included.                                        *)
LEMMA NextLands ==
  ASSUME NEW b \in Bounds, NEW h \in Handle, HandleOk(b, h), NEW live \in Views,
         NEW fail \in BOOLEAN
  PROVE  LandsOn(b, Running(h), Seen(b, h, live),
                 IF h.reset THEN InRange(b, Seen(b, h, live))
                 ELSE IF OnEntry(b, h) THEN Beyond(b, h.view, h.cur) ELSE {},
                 NextHandle(b, h, live, fail))
  <1>1. h.reset \in BOOLEAN /\ b.txn \in BOOLEAN
    BY DEF Handle, Bounds
  <1> DEFINE g == Running(h)
  <1>2. g \in Handle /\ HandleOk(b, g) /\ g.view = h.view /\ g.cur = h.cur
        /\ (OnEntry(b, g) <=> OnEntry(b, h))
    BY RunningIs
  <1>3. CASE h.reset
    <2>1. NextHandle(b, h, live, fail) = Restart(b, g, live, fail)
      BY <1>3 DEF NextHandle, Running
    <2>2. Seen(b, h, live) = IF b.txn THEN live ELSE g.view
      BY <1>2, <1>3 DEF Seen
    <2> HIDE DEF g
    <2>3. LandsOn(b, g, IF b.txn THEN live ELSE g.view, InRange(b, IF b.txn THEN live ELSE g.view),
                  Restart(b, g, live, fail))
      BY <1>2, RestartLands
    <2>4. QED
      BY <1>3, <2>1, <2>2, <2>3 DEF g
  <1>4. CASE ~h.reset
    <2> DEFINE f == [h EXCEPT !.include = FALSE]
    <2>1. f = g
      BY <1>4 DEF Running, Handle
    <2>2. NextHandle(b, h, live, fail) = Step(b, g, fail)
      BY <1>4, <2>1 DEF NextHandle
    <2>3. Seen(b, h, live) = g.view
      BY <1>2, <1>4 DEF Seen
    <2> HIDE DEF f, g
    <2>4. LandsOn(b, g, g.view, IF OnEntry(b, g) THEN Beyond(b, g.view, g.cur) ELSE {},
                  Step(b, g, fail))
      BY <1>2, StepLands
    <2>5. QED
      BY <1>2, <1>4, <2>2, <2>3, <2>4 DEF g
  <1>5. QED
    BY <1>1, <1>3, <1>4

(* An advance of a batch lands on the first of the keys ahead, an entry a  *)
(* seek landed on included.                                                *)
LEMMA AdvanceLands ==
  ASSUME NEW b \in Bounds, NEW h \in Handle, HandleOk(b, h), NEW live \in Views,
         NEW fail \in BOOLEAN
  PROVE  LandsOn(b, Running(h), Seen(b, h, live), Ahead(b, h, live),
                 AdvanceInBatch(b, h, live, fail))
  <1>1. h.reset \in BOOLEAN /\ h.include \in BOOLEAN
    BY DEF Handle
  <1>2. CASE ~h.reset /\ h.include
    <2> DEFINE g == Running(h)
               A == IF OnEntry(b, h) THEN FromOn(b, h.view, h.cur) ELSE {}
    <2>1. /\ g \in Handle /\ HandleOk(b, g) /\ g.view = h.view /\ g.cur = h.cur
          /\ (OnEntry(b, g) <=> OnEntry(b, h))
      BY RunningIs
    <2>2. g = [h EXCEPT !.include = FALSE]
      BY <1>2 DEF Running, Handle
    <2>3. /\ AdvanceInBatch(b, h, live, fail).h = g
          /\ AdvanceInBatch(b, h, live, fail).r = IF OnEntry(b, h) THEN "more" ELSE "end"
      BY <1>2, <2>2 DEF AdvanceInBatch, Answer
    <2>4. Ahead(b, h, live) = A /\ Seen(b, h, live) = g.view
      BY <1>2, <2>1 DEF Ahead, Left, Seen
    <2>5. OnEntry(b, h) => A # {} /\ h.cur = FirstOf(b, A)
      <3> SUFFICES ASSUME OnEntry(b, h) PROVE A # {} /\ h.cur = FirstOf(b, A)
        OBVIOUS
      <3>1. h.cur \in InRange(b, h.view) /\ h.view \in Views
        BY DEF HandleOk, OnEntry, InRange, Handle
      <3>2. h.cur \in 0..MaxKey /\ A \subseteq Keys
        BY <3>1, RangeKeys DEF Keys
      <3>3. h.cur \in A
        BY <3>1, <3>2 DEF FromOn
      <3>4. \A j \in A : IF b.reverse THEN h.cur >= j ELSE h.cur <= j
        <4> TAKE j \in A
        <4>1. j \in 0..MaxKey /\ IF b.reverse THEN j <= h.cur ELSE j >= h.cur
          BY <3>2 DEF FromOn, Keys
        <4>2. QED
          BY <3>2, <4>1
      <3> HIDE DEF A
      <3>5. QED
        BY <3>2, <3>3, <3>4, FirstOfUnique
    <2> HIDE DEF g, A
    <2>6. MovedIn(b, g, g.view, g)
      BY <2>1 DEF MovedIn
    <2>7. ~OnEntry(b, h) => A = {}
      BY DEF A
    <2>8. LandsOn(b, g, g.view, A, AdvanceInBatch(b, h, live, fail))
      BY <2>1, <2>3, <2>5, <2>6, <2>7 DEF LandsOn
    <2>9. QED
      BY <2>4, <2>8 DEF g
  <1>3. CASE h.reset \/ ~h.include
    <2>1. AdvanceInBatch(b, h, live, fail) = NextHandle(b, h, live, fail)
      BY <1>3 DEF AdvanceInBatch
    <2>2. Ahead(b, h, live) = IF h.reset THEN InRange(b, Seen(b, h, live))
                              ELSE IF OnEntry(b, h) THEN Beyond(b, h.view, h.cur) ELSE {}
      BY <1>3, <1>1 DEF Ahead, Left
    <2>3. QED
      BY <2>1, <2>2, NextLands
  <1>4. QED
    BY <1>1, <1>2, <1>3

(* A handle that a failure left without an entry stays there, whatever an  *)
(* advance tries, until it is sought or reset.                             *)
LEMMA BrokenStays ==
  ASSUME NEW b \in Bounds, NEW h \in Handle, HandleOk(b, h), ~h.reset, h.cur = NoKey,
         NEW live, NEW fail \in BOOLEAN
  PROVE  /\ NextHandle(b, h, live, fail).h.cur = NoKey
         /\ AdvanceInBatch(b, h, live, fail).h.cur = NoKey
  <1> DEFINE g == [h EXCEPT !.include = FALSE]
             rest == IF fail THEN {} ELSE g.rest \ {FirstOf(b, g.rest)}
             f == [g EXCEPT !.rest = rest]
  <1>1. g \in Handle /\ g.cur = NoKey /\ g.rest = h.rest
    BY DEF Handle
  <1>2. b.txn \in BOOLEAN /\ (b.txn => g.rest = {})
    BY <1>1 DEF HandleOk, Bounds
  <1>3. CASE b.txn
    <2>1. FirstOf(b, g.rest) = NoKey
      BY <1>2, <1>3, FirstOfNone
    <2>2. f \in Handle
      BY <1>1 DEF Handle
    <2>3. Step(b, g, fail) = Position(b, f, NoKey, fail)
      BY <1>3, <2>1 DEF Step, Pull
    <2> HIDE DEF f
    <2>4. Position(b, f, NoKey, fail).h = [f EXCEPT !.cur = NoKey]
      BY DEF Position, Answer
    <2>5. [f EXCEPT !.cur = NoKey].cur = NoKey
      BY <2>2 DEF Handle
    <2>6. Step(b, g, fail).h.cur = NoKey
      BY <2>3, <2>4, <2>5
    <2>7. QED
      BY <1>1, <2>6 DEF NextHandle, AdvanceInBatch, Answer
  <1>4. CASE ~b.txn
    <2>1. Step(b, g, fail).h = g
      BY <1>1, <1>4 DEF Step, SnapshotStep, OnEntry, Answer
    <2> HIDE DEF g
    <2>2. Step(b, g, fail).h.cur = NoKey
      BY <1>1, <2>1
    <2>3. QED
      BY <1>1, <2>2 DEF NextHandle, AdvanceInBatch, Answer, g
  <1>5. QED
    BY <1>2, <1>3, <1>4

(* The handle a seek starts from.                                          *)
Sought(h) == [h EXCEPT !.values = <<>>, !.count = 0,
                       !.reset = FALSE, !.pending = FALSE, !.include = TRUE]

(* A seek lands on the first key of the range from its target on.          *)
LEMMA SeekLands ==
  ASSUME NEW b \in Bounds, NEW h \in Handle, NEW live \in Views, NEW t \in Keys,
         NEW fail \in BOOLEAN
  PROVE  LET v == IF b.txn THEN live ELSE h.view
         IN  LandsOn(b, Sought(h), v, FromOn(b, v, t), SeekHandle(b, h, live, t, fail))
  <1> DEFINE g == Sought(h)
             a == SeekHandle(b, h, live, t, fail)
  <1>1. /\ b.reverse \in BOOLEAN /\ b.txn \in BOOLEAN /\ t \in 0..MaxKey
        /\ b.start \in Keys \cup {NoBound} /\ b.end \in Keys \cup {NoBound}
    BY DEF Bounds, Keys
  <1>2. g \in Handle /\ g.view = h.view
    <2>1. <<>> \in Seq(Values) /\ 0 \in 0..MaxEntries
      BY EmptySeq
    <2>2. QED
      BY <2>1 DEF Sought, Handle
  <1>3. a = IF b.reverse THEN SeekReverse(b, g, live, t, fail) ELSE SeekForward(b, g, live, t, fail)
    <2>1. [Invalidated(h) EXCEPT !.reset = FALSE, !.pending = FALSE, !.include = TRUE] = g
      BY DEF Invalidated, Sought, Handle
    <2>2. QED
      BY <2>1 DEF SeekHandle
  <1> DEFINE aboveEnd == b.end # NoBound /\ t >= b.end
             clamped == IF b.start # NoBound /\ t < b.start THEN b.start ELSE t
  <1>4. clamped \in Int /\ clamped >= t /\ (b.start # NoBound => clamped >= b.start)
        /\ (clamped = t \/ (clamped = b.start /\ b.start # NoBound))
    BY <1>1 DEF Keys
  <1>5. ASSUME NEW v \in Views, ~b.reverse
        PROVE  FromOn(b, v, clamped) = FromOn(b, v, t)
    <2>1. \A j \in InRange(b, v) : j \in 0..MaxKey /\ (b.start # NoBound => j >= b.start)
      BY RangeKeys DEF Keys, InRange, Contains
    <2>2. \A j \in InRange(b, v) : j >= clamped <=> j >= t
      BY <2>1, <1>1, <1>4
    <2> HIDE DEF clamped
    <2>3. QED
      BY <1>5, <2>2 DEF FromOn
  <1>6. ASSUME NEW v \in Views, b.reverse, aboveEnd
        PROVE  FromOn(b, v, t) = InRange(b, v)
    <2>1. \A j \in InRange(b, v) : j \in 0..MaxKey /\ j < b.end
      BY <1>6, RangeKeys DEF Keys, InRange, Contains
    <2>2. \A j \in InRange(b, v) : j <= t
      BY <2>1, <1>1, <1>6 DEF Keys, NoBound
    <2>3. QED
      BY <1>1, <1>6, <2>2, WholeRange
  <1>7. CASE ~b.txn /\ ~b.reverse
    <2> HIDE DEF g
    <2>1. a = Position(b, g, AtOrAbove(g, clamped), fail)
      BY <1>3, <1>7 DEF SeekForward
    <2> HIDE DEF clamped, a
    <2>2. LandsOn(b, g, g.view, FromOn(b, g.view, clamped), Position(b, g, AtOrAbove(g, clamped), fail))
      BY <1>2, <1>4, <1>7, CursorLands
    <2>3. g.view \in Views
      BY <1>2 DEF Handle
    <2>4. FromOn(b, g.view, clamped) = FromOn(b, g.view, t)
      BY <1>5, <1>7, <2>3
    <2>5. LandsOn(b, g, g.view, FromOn(b, g.view, t), a)
      BY <2>1, <2>2, <2>4
    <2>6. QED
      BY <1>2, <1>7, <2>5 DEF a, g
  <1>8. CASE ~b.txn /\ b.reverse
    <2>1. CASE aboveEnd
      <3> HIDE DEF g
      <3>1. a = Restart(b, g, live, fail)
        BY <1>3, <1>8, <2>1 DEF SeekReverse
      <3>2. LandsOn(b, g, g.view, InRange(b, g.view), Restart(b, g, live, fail))
        BY <1>2, <1>8, RestartLands
      <3>3. g.view \in Views
        BY <1>2 DEF Handle
      <3>4. FromOn(b, g.view, t) = InRange(b, g.view)
        BY <1>6, <1>8, <2>1, <3>3
      <3> HIDE DEF a
      <3>5. LandsOn(b, g, g.view, FromOn(b, g.view, t), a)
        BY <3>1, <3>2, <3>4
      <3>6. QED
        BY <1>2, <1>8, <3>5 DEF a, g
    <2>2. CASE ~aboveEnd
      <3> HIDE DEF g
      <3>1. a = Position(b, g, AtOrBelow(g, t), fail)
        BY <1>3, <1>8, <2>2 DEF SeekReverse
      <3>2. b.end # NoBound => t < b.end
        BY <1>1, <2>2 DEF Keys, NoBound
      <3>3. LandsOn(b, g, g.view, FromOn(b, g.view, t), Position(b, g, AtOrBelow(g, t), fail))
        BY <1>1, <1>2, <1>8, <3>2, CursorLands
      <3>4. QED
        BY <1>2, <1>8, <3>1, <3>3 DEF g
    <2>3. QED
      BY <2>1, <2>2
  <1>9. CASE b.txn /\ ~b.reverse
    <2>1. {k \in DOMAIN live : (clamped # NoBound => k >= clamped) /\ (b.end # NoBound => k < b.end)}
            = FromOn(b, live, clamped)
      <3>1. DOMAIN live \subseteq 0..MaxKey /\ clamped # NoBound
        BY <1>1, <1>4, ViewKeys DEF Keys, NoBound
      <3>2. \A k \in DOMAIN live : k >= clamped => (b.start # NoBound => k >= b.start)
        BY <1>1, <1>4, <3>1 DEF Keys, NoBound
      <3> HIDE DEF clamped
      <3>3. QED
        BY <1>9, <3>1, <3>2 DEF FromOn, InRange, Contains
    <2> HIDE DEF g
    <2>2. a = RebuildAndPull(b, g, live, clamped, b.end, fail)
      BY <1>3, <1>9 DEF SeekForward
    <2> HIDE DEF clamped, a
    <2>3. LandsOn(b, g, live, FromOn(b, live, clamped), RebuildAndPull(b, g, live, clamped, b.end, fail))
      BY <1>2, <1>4, <1>9, <2>1, RebuildLands
    <2>4. FromOn(b, live, clamped) = FromOn(b, live, t)
      BY <1>5, <1>9
    <2>5. LandsOn(b, g, live, FromOn(b, live, t), a)
      BY <2>2, <2>3, <2>4
    <2>6. QED
      BY <1>9, <2>5 DEF a, g
  <1>10. CASE b.txn /\ b.reverse
    <2> DEFINE hi == IF aboveEnd THEN b.end ELSE t + 1
    <2>1. {k \in DOMAIN live : (b.start # NoBound => k >= b.start) /\ (hi # NoBound => k < hi)}
            = FromOn(b, live, t)
      <3>1. DOMAIN live \subseteq 0..MaxKey /\ hi # NoBound
        BY <1>1, ViewKeys DEF Keys, NoBound
      <3>2. \A k \in DOMAIN live : k < hi <=> k <= t /\ (b.end # NoBound => k < b.end)
        BY <1>1, <3>1 DEF Keys, NoBound
      <3> HIDE DEF hi
      <3>3. QED
        BY <1>10, <3>1, <3>2 DEF FromOn, InRange, Contains
    <2> HIDE DEF g
    <2>2. a = RebuildAndPull(b, g, live, b.start, hi, fail)
      BY <1>3, <1>10 DEF SeekReverse
    <2> HIDE DEF hi, a
    <2>3. LandsOn(b, g, live, FromOn(b, live, t), RebuildAndPull(b, g, live, b.start, hi, fail))
      BY <1>1, <1>2, <1>10, <2>1, RebuildLands
    <2>4. LandsOn(b, g, live, FromOn(b, live, t), a)
      BY <2>2, <2>3
    <2>5. QED
      BY <1>10, <2>4 DEF a, g
  <1>11. QED
    BY <1>1, <1>7, <1>8, <1>9, <1>10
-----------------------------------------------------------------------------
(* A batch.                                                                *)

WalkStates(b) ==
  {w \in [h : Handle, keys : Seq(Keys), bytes : Nat, stopped : BOOLEAN, failed : BOOLEAN] :
     HandleOk(b, w.h)}

(* keys walks the keys A of v from the first one on, without a gap.        *)
Gapless(b, v, A, keys) == \A i \in 1..Len(keys) :
  LET S == IF i = 1 THEN A ELSE Beyond(b, v, keys[i - 1])
  IN  S # {} /\ keys[i] = FirstOf(b, S)

(* The keys left of A once keys have been walked.                          *)
After(b, v, A, keys) == IF Len(keys) = 0 THEN A ELSE Beyond(b, v, keys[Len(keys)])

(* What is retained of a batch: nothing, or the value of every key.        *)
Retained(b, v, keys, values) ==
  /\ Len(values) = IF b.keysOnly THEN 0 ELSE Len(keys)
  /\ ~b.keysOnly => \A i \in 1..Len(keys) : values[i] = v[keys[i]]

(* The values add up to total, and stay below the cap but for the last.    *)
Capped(values, total) ==
  \E s \in [0..Len(values) -> Nat] :
    /\ s[0] = 0 /\ s[Len(values)] = total
    /\ \A i \in 1..Len(values) : s[i] = s[i - 1] + values[i]
    /\ \A i \in 0..Len(values) - 1 : s[i] < MaxBytes

(* What holds of the loop of a batch that started from h.                  *)
Walked(b, h, live, w) ==
  LET v == Seen(b, h, live)
      A == Ahead(b, h, live)
  IN  /\ w \in WalkStates(b)
      /\ Gapless(b, v, A, w.keys)
      /\ Retained(b, v, w.keys, w.h.values)
      /\ Capped(w.h.values, w.bytes)
      /\ ~w.stopped => w.bytes < MaxBytes /\ Seen(b, w.h, live) = v
      /\ IF w.failed THEN w.stopped /\ ~OnEntry(b, w.h) /\ w.h.cur = NoKey
                     ELSE Ahead(b, w.h, live) = After(b, v, A, w.keys)
      /\ ~h.reset /\ h.cur = NoKey => ~w.h.reset /\ w.h.cur = NoKey
      /\ w.stopped \/ Len(w.keys) > 0 => ~w.h.reset /\ ~w.h.include /\ w.h.view = v
      /\ w.stopped /\ ~w.failed /\ Len(w.keys) = 0 => A = {}

(* Where a handle stands does not depend on what it retains.               *)
LEMMA SamePlace ==
  ASSUME NEW b, NEW live, NEW g, NEW h, g.reset = h.reset, g.include = h.include,
         g.view = h.view, g.cur = h.cur, g.rest = h.rest
  PROVE  /\ HandleOk(b, g) <=> HandleOk(b, h)
         /\ OnEntry(b, g) <=> OnEntry(b, h)
         /\ Seen(b, g, live) = Seen(b, h, live)
         /\ Ahead(b, g, live) = Ahead(b, h, live)
  BY DEF HandleOk, OnEntry, Seen, Ahead, Left

(* u is w with the entry g stands on framed: its key appended, and its     *)
(* value unless only keys are asked for.                                   *)
Framed(b, w, g, u) ==
  LET k == g.cur
      x == g.view[g.cur]
  IN  /\ u \in WalkStates(b) /\ k \in Keys /\ x \in Nat
      /\ u.keys = Append(w.keys, k)
      /\ u.h.values = IF b.keysOnly THEN w.h.values ELSE Append(w.h.values, x)
      /\ u.bytes = IF b.keysOnly THEN w.bytes ELSE w.bytes + x
      /\ u.stopped <=> ~b.keysOnly /\ u.bytes >= MaxBytes
      /\ u.failed = FALSE
      /\ u.h.reset = g.reset /\ u.h.include = g.include /\ u.h.view = g.view
      /\ u.h.cur = g.cur /\ u.h.rest = g.rest

(* Frame does that.                                                        *)
LEMMA FrameIs ==
  ASSUME NEW b \in Bounds, NEW w \in WalkStates(b), NEW g \in Handle, HandleOk(b, g),
         OnEntry(b, g), g.values = w.h.values
  PROVE  Framed(b, w, g, Frame(b, w, g))
  <1> DEFINE u == Frame(b, w, g)
             x == g.view[g.cur]
             f == IF b.keysOnly THEN g ELSE [g EXCEPT !.values = Append(@, x)]
  <1>1. b.keysOnly \in BOOLEAN
    BY DEF Bounds
  <1>2. /\ w.h \in Handle /\ w.keys \in Seq(Keys) /\ w.bytes \in Nat
        /\ w.stopped \in BOOLEAN /\ w.failed \in BOOLEAN
    BY DEF WalkStates
  <1>3. g.cur \in DOMAIN g.view /\ g.view \in Views
    BY DEF HandleOk, OnEntry, Handle
  <1>4. g.cur \in Keys /\ x \in Values /\ x \in Nat
    BY <1>3, ViewKeys
  <1>5. g.values \in Seq(Values)
    BY DEF Handle
  <1>6. Append(g.values, x) \in Seq(Values) /\ Append(w.keys, g.cur) \in Seq(Keys)
    BY <1>2, <1>4, <1>5
  <1>7. /\ f \in Handle
        /\ f.values = IF b.keysOnly THEN g.values ELSE Append(g.values, x)
        /\ f.reset = g.reset /\ f.include = g.include /\ f.view = g.view
        /\ f.cur = g.cur /\ f.rest = g.rest
    BY <1>1, <1>6 DEF Handle
  <1>8. HandleOk(b, f)
    BY <1>7, SamePlace
  <1>9. /\ u.h = f /\ u.keys = Append(w.keys, g.cur)
        /\ u.bytes = IF b.keysOnly THEN w.bytes ELSE w.bytes + x
        /\ u.stopped = (~b.keysOnly /\ u.bytes >= MaxBytes) /\ u.failed = FALSE
        /\ u = [h |-> u.h, keys |-> u.keys, bytes |-> u.bytes, stopped |-> u.stopped,
                failed |-> u.failed]
    BY DEF Frame
  <1>10. u.bytes \in Nat /\ u.stopped \in BOOLEAN
    BY <1>1, <1>2, <1>4, <1>9
  <1> HIDE DEF f, u
  <1>11. u \in WalkStates(b)
    BY <1>6, <1>7, <1>8, <1>9, <1>10 DEF WalkStates
  <1>12. QED
    BY <1>4, <1>7, <1>9, <1>11 DEF Framed, u

(* One value more keeps the sum capped, if it was below the cap.           *)
LEMMA CappedAppend ==
  ASSUME NEW vals \in Seq(Nat), NEW n \in Nat, NEW x \in Nat, Capped(vals, n), n < MaxBytes
  PROVE  Capped(Append(vals, x), n + x)
  <1> DEFINE L == Len(vals)
             more == Append(vals, x)
  <1>1. PICK s \in [0..L -> Nat] :
          /\ s[0] = 0 /\ s[L] = n
          /\ \A i \in 1..L : s[i] = s[i - 1] + vals[i]
          /\ \A i \in 0..L - 1 : s[i] < MaxBytes
    BY DEF Capped
  <1>2. L \in Nat /\ Len(more) = L + 1 /\ more[L + 1] = x
        /\ \A i \in 1..L : more[i] = vals[i]
    OBVIOUS
  <1> DEFINE t == [i \in 0..L + 1 |-> IF i = L + 1 THEN n + x ELSE s[i]]
  <1>3. t \in [0..L + 1 -> Nat] /\ t[0] = 0 /\ t[L + 1] = n + x /\ \A i \in 0..L : t[i] = s[i]
    BY <1>1, <1>2
  <1> HIDE DEF more, L, t
  <1>4. \A i \in 1..L + 1 : t[i] = t[i - 1] + more[i]
    <2> TAKE i \in 1..L + 1
    <2>1. CASE i = L + 1
      <3>1. i - 1 = L /\ L \in 0..L
        BY <1>2, <2>1
      <3>2. t[i - 1] = n
        BY <1>1, <1>3, <3>1
      <3>3. QED
        BY <1>2, <1>3, <2>1, <3>2
    <2>2. CASE i # L + 1
      <3>1. i \in 1..L /\ i \in 0..L /\ i - 1 \in 0..L
        BY <1>2, <2>2
      <3>2. QED
        BY <1>1, <1>2, <1>3, <3>1
    <2>3. QED
      BY <2>1, <2>2
  <1>5. \A i \in 0..L : t[i] < MaxBytes
    <2> TAKE i \in 0..L
    <2>1. t[i] = s[i] /\ (i = L \/ i \in 0..L - 1)
      BY <1>2, <1>3
    <2>2. QED
      BY <1>1, <2>1
  <1>6. L + 1 - 1 = L
    BY <1>2
  <1>7. /\ t \in [0..Len(more) -> Nat] /\ t[0] = 0 /\ t[Len(more)] = n + x
        /\ \A i \in 1..Len(more) : t[i] = t[i - 1] + more[i]
        /\ \A i \in 0..Len(more) - 1 : t[i] < MaxBytes
    BY <1>2, <1>3, <1>4, <1>5, <1>6
  <1>8. Capped(more, n + x)
    BY <1>7 DEF Capped
  <1>9. QED
    BY <1>8 DEF more

(* The first key of what is left continues a gapless walk.                 *)
LEMMA GaplessAppend ==
  ASSUME NEW b, NEW v, NEW A, NEW keys \in Seq(Keys), NEW k \in Keys,
         Gapless(b, v, A, keys), After(b, v, A, keys) # {},
         k = FirstOf(b, After(b, v, A, keys))
  PROVE  /\ Gapless(b, v, A, Append(keys, k))
         /\ After(b, v, A, Append(keys, k)) = Beyond(b, v, k)
  <1> DEFINE L == Len(keys)
             more == Append(keys, k)
  <1>1. L \in Nat /\ Len(more) = L + 1 /\ more[L + 1] = k /\ \A i \in 1..L : more[i] = keys[i]
    OBVIOUS
  <1>2. ASSUME NEW i \in 1..L + 1
        PROVE  LET S == IF i = 1 THEN A ELSE Beyond(b, v, more[i - 1])
               IN  S # {} /\ more[i] = FirstOf(b, S)
    <2>1. CASE i = L + 1
      <3>1. i # 1 => i - 1 \in 1..L /\ i - 1 = L
        BY <1>1, <2>1
      <3>2. i # 1 => more[i - 1] = keys[L]
        BY <1>1, <3>1
      <3>3. (IF i = 1 THEN A ELSE Beyond(b, v, more[i - 1])) = After(b, v, A, keys)
        BY <1>1, <2>1, <3>2 DEF After
      <3> HIDE DEF more
      <3>4. QED
        BY <1>1, <2>1, <3>3
    <2>2. CASE i # L + 1
      <3>1. i \in 1..L /\ (i # 1 => i - 1 \in 1..L)
        BY <1>1, <2>2
      <3>2. more[i] = keys[i] /\ (i # 1 => more[i - 1] = keys[i - 1])
        BY <1>1, <3>1
      <3> HIDE DEF more
      <3>3. QED
        BY <3>1, <3>2 DEF Gapless
    <2>3. QED
      BY <2>1, <2>2
  <1> HIDE DEF more
  <1>3. Gapless(b, v, A, more)
    BY <1>1, <1>2 DEF Gapless
  <1>4. After(b, v, A, more) = Beyond(b, v, k)
    BY <1>1 DEF After
  <1>5. QED
    BY <1>3, <1>4 DEF more

(* Retaining the value of the key appended keeps keys and values together. *)
LEMMA RetainedAppend ==
  ASSUME NEW b \in Bounds, NEW v, NEW keys \in Seq(Keys), NEW k \in Keys,
         NEW values \in Seq(Values), NEW x, x = v[k],
         Retained(b, v, keys, values)
  PROVE  Retained(b, v, Append(keys, k), IF b.keysOnly THEN values ELSE Append(values, x))
  <1>1. b.keysOnly \in BOOLEAN
    BY DEF Bounds
  <1>2. CASE b.keysOnly
    BY <1>2 DEF Retained
  <1>3. CASE ~b.keysOnly
    <2> DEFINE L == Len(keys)
    <2>1. L \in Nat /\ Len(values) = L /\ \A i \in 1..L : values[i] = v[keys[i]]
      BY <1>3 DEF Retained
    <2>2. Len(Append(values, x)) = L + 1 /\ Len(Append(keys, k)) = L + 1
      BY <2>1
    <2>3. ASSUME NEW i \in 1..L + 1
          PROVE  Append(values, x)[i] = v[Append(keys, k)[i]]
      <3>1. CASE i = L + 1
        BY <2>1, <3>1
      <3>2. CASE i # L + 1
        <4>1. i \in 1..L
          BY <2>1, <3>2
        <4>2. Append(values, x)[i] = values[i] /\ Append(keys, k)[i] = keys[i]
          BY <2>1, <4>1
        <4>3. QED
          BY <2>1, <4>1, <4>2
      <3>3. QED
        BY <3>1, <3>2
    <2>4. QED
      BY <1>3, <2>2, <2>3 DEF Retained
  <1>4. QED
    BY <1>1, <1>2, <1>3

(* A turn of the loop leads from a state of it to a state of it.           *)
LEMMA WalkOnType ==
  ASSUME NEW b \in Bounds, NEW live \in Views, NEW w \in WalkStates(b), NEW fail \in BOOLEAN
  PROVE  WalkOn(b, w, live, fail) \in WalkStates(b)
  <1> DEFINE a == AdvanceInBatch(b, w.h, live, fail)
  <1>1. /\ w.h \in Handle /\ HandleOk(b, w.h) /\ w.keys \in Seq(Keys) /\ w.bytes \in Nat
        /\ w.stopped \in BOOLEAN /\ w.failed \in BOOLEAN
        /\ w = [h |-> w.h, keys |-> w.keys, bytes |-> w.bytes, stopped |-> w.stopped,
                failed |-> w.failed]
    BY DEF WalkStates
  <1>2. /\ a.h \in Handle /\ HandleOk(b, a.h) /\ a.h.values = w.h.values
        /\ a.r = "more" => OnEntry(b, a.h)
    <2>1. LandsOn(b, Running(w.h), Seen(b, w.h, live), Ahead(b, w.h, live), a)
      BY <1>1, AdvanceLands
    <2>2. Running(w.h).values = w.h.values
      BY <1>1, RunningIs
    <2>3. QED
      BY <2>1, <2>2 DEF LandsOn, MovedIn
  <1> HIDE DEF a
  <1>3. CASE w.stopped
    BY <1>3 DEF WalkOn
  <1>4. CASE ~w.stopped /\ a.r = "more"
    <2> DEFINE u == WalkOn(b, w, live, fail)
               x == a.h.view[a.h.cur]
    <2>1. u = Frame(b, w, a.h)
      BY <1>4 DEF WalkOn, a
    <2> HIDE DEF u
    <2>2. u \in WalkStates(b)
      BY <1>2, <1>4, <2>1, FrameIs DEF Framed
    <2>3. QED
      BY <2>2 DEF u
  <1>5. CASE ~w.stopped /\ a.r # "more"
    <2>1. WalkOn(b, w, live, fail)
            = [w EXCEPT !.h = a.h, !.stopped = TRUE, !.failed = (a.r = "error")]
      BY <1>5 DEF WalkOn, a
    <2> DEFINE e == (a.r = "error")
               u == [w EXCEPT !.h = a.h, !.stopped = TRUE, !.failed = e]
    <2>2. e \in BOOLEAN
      OBVIOUS
    <2> HIDE DEF e
    <2>3. u \in WalkStates(b)
      BY <1>2, <2>2 DEF WalkStates
    <2>4. QED
      BY <2>1, <2>3 DEF e
  <1>6. QED
    BY <1>1, <1>3, <1>4, <1>5

(* A turn of the loop keeps what holds of it, and frames an entry unless   *)
(* the walk has stopped.                                                   *)
LEMMA WalkOnKeeps ==
  ASSUME NEW b \in Bounds, NEW h, NEW live \in Views, NEW w, Walked(b, h, live, w),
         NEW fail \in BOOLEAN
  PROVE  LET u == WalkOn(b, w, live, fail)
         IN  /\ Walked(b, h, live, u)
             /\ Len(u.keys) <= Len(w.keys) + 1
             /\ ~u.stopped => ~w.stopped /\ Len(u.keys) = Len(w.keys) + 1
  <1> DEFINE v == Seen(b, h, live)
             A == Ahead(b, h, live)
             a == AdvanceInBatch(b, w.h, live, fail)
             u == WalkOn(b, w, live, fail)
             S == After(b, v, A, w.keys)
             g == Running(w.h)
  <1>1. w \in WalkStates(b) /\ u \in WalkStates(b)
    BY WalkOnType DEF Walked
  <1>2. /\ w.h \in Handle /\ HandleOk(b, w.h) /\ w.keys \in Seq(Keys) /\ w.bytes \in Nat
        /\ w.stopped \in BOOLEAN /\ w.failed \in BOOLEAN /\ Len(w.keys) \in Nat
    BY <1>1 DEF WalkStates
  <1>3. CASE w.stopped
    <2>1. u = w
      BY <1>3 DEF WalkOn
    <2>2. QED
      BY <1>2, <1>3, <2>1
  <1>4. ASSUME ~w.stopped
        PROVE  /\ a.h \in Handle /\ HandleOk(b, a.h) /\ a.h.view = v
               /\ a.h.reset = FALSE /\ a.h.include = FALSE /\ a.h.values = w.h.values
               /\ a.r \in {"more", "end", "error"}
               /\ a.r = "more" => S # {} /\ a.h.cur = FirstOf(b, S) /\ OnEntry(b, a.h)
               /\ a.r # "more" => ~OnEntry(b, a.h)
               /\ a.r = "end" => S = {}
               /\ a.r = "error" => a.h.cur = NoKey
    <2>1. Seen(b, w.h, live) = v /\ Ahead(b, w.h, live) = S
      BY <1>4 DEF Walked
    <2> HIDE DEF v, S, a
    <2>2. LandsOn(b, g, v, S, a)
      BY <1>2, <2>1, AdvanceLands DEF a
    <2>3. g.reset = FALSE /\ g.include = FALSE /\ g.values = w.h.values
      BY <1>2, RunningIs
    <2> HIDE DEF g
    <2>4. QED
      BY <2>2, <2>3 DEF LandsOn, MovedIn
  <1> DEFINE Broken(x) == ~h.reset /\ h.cur = NoKey => ~x.reset /\ x.cur = NoKey
  <1>8. ~w.stopped => Broken(a.h)
    <2>1. Broken(w.h)
      BY DEF Walked
    <2>2. ~w.h.reset /\ w.h.cur = NoKey => a.h.cur = NoKey
      BY <1>2, BrokenStays
    <2> HIDE DEF a
    <2>3. QED
      BY <1>4, <2>1, <2>2
  <1>5. CASE ~w.stopped /\ a.r = "more"
    <2> DEFINE k == a.h.cur
               x == a.h.view[a.h.cur]
    <2>1. u = Frame(b, w, a.h)
      BY <1>5 DEF WalkOn
    <2> HIDE DEF a, u
    <2>0. a.h \in Handle /\ HandleOk(b, a.h) /\ OnEntry(b, a.h) /\ a.h.values = w.h.values
      BY <1>4, <1>5
    <2>2. /\ k \in Keys /\ x \in Nat
          /\ u.keys = Append(w.keys, k)
          /\ u.h.values = IF b.keysOnly THEN w.h.values ELSE Append(w.h.values, x)
          /\ u.bytes = IF b.keysOnly THEN w.bytes ELSE w.bytes + x
          /\ u.stopped <=> ~b.keysOnly /\ u.bytes >= MaxBytes
          /\ u.failed = FALSE
          /\ u.h.reset = a.h.reset /\ u.h.include = a.h.include /\ u.h.view = a.h.view
          /\ u.h.cur = a.h.cur /\ u.h.rest = a.h.rest
      <3>1. Framed(b, w, a.h, u)
        BY <1>1, <2>0, <2>1, FrameIs
      <3>2. QED
        BY <3>1 DEF Framed
    <2>3. Gapless(b, v, A, u.keys) /\ After(b, v, A, u.keys) = Beyond(b, v, k)
      <3>1. Gapless(b, v, A, w.keys) /\ S # {} /\ k = FirstOf(b, S)
        BY <1>4, <1>5 DEF Walked
      <3> HIDE DEF v, A
      <3>2. QED
        BY <1>2, <2>2, <3>1, GaplessAppend DEF S
    <2>4. Retained(b, v, u.keys, u.h.values)
      <3>1. Retained(b, v, w.keys, w.h.values) /\ x = v[k]
        BY <1>4, <1>5 DEF Walked
      <3>2. w.h.values \in Seq(Values)
        BY <1>2 DEF Handle
      <3> HIDE DEF v, k, x
      <3>3. QED
        BY <1>2, <2>2, <3>1, <3>2, RetainedAppend
    <2>5. Capped(u.h.values, u.bytes)
      <3>1. Capped(w.h.values, w.bytes) /\ w.bytes < MaxBytes
        BY <1>5 DEF Walked
      <3>2. w.h.values \in Seq(Nat)
        BY <1>2, SeqMonotonic DEF Handle
      <3>3. Capped(Append(w.h.values, x), w.bytes + x)
        BY <1>2, <2>2, <3>1, <3>2, CappedAppend
      <3> HIDE DEF x
      <3>4. QED
        BY <2>2, <3>1, <3>3
    <2>6. u.bytes \in Nat /\ u.h \in Handle
      BY <1>1 DEF WalkStates
    <2>7. b.keysOnly => u.bytes < MaxBytes
      BY <1>5, <2>2 DEF Walked
    <2>8. ~u.stopped => u.bytes < MaxBytes
      BY <2>2, <2>6, <2>7
    <2>9. Seen(b, u.h, live) = v /\ Ahead(b, u.h, live) = After(b, v, A, u.keys)
      <3>1. OnEntry(b, u.h) /\ ~u.h.reset /\ ~u.h.include /\ u.h.view = v /\ u.h.cur = k
        BY <1>4, <1>5, <2>2, SamePlace
      <3> HIDE DEF v, A, k
      <3>2. QED
        BY <2>3, <3>1 DEF Seen, Ahead, Left
    <2>10. Len(u.keys) = Len(w.keys) + 1
      BY <1>2, <2>2
    <2>11. ~u.h.reset /\ ~u.h.include /\ u.h.view = v
      BY <1>4, <1>5, <2>2
    <2>14. Broken(u.h)
      BY <1>5, <1>8, <2>2
    <2> HIDE DEF v, A, k, x
    <2>12. Len(u.keys) # 0
      BY <1>2, <2>10
    <2>13. Walked(b, h, live, u)
      BY <1>1, <2>2, <2>3, <2>4, <2>5, <2>8, <2>9, <2>11, <2>12, <2>14 DEF Walked, v, A
    <2>15. QED
      BY <1>2, <1>5, <2>10, <2>13 DEF u
  <1>6. CASE ~w.stopped /\ a.r # "more"
    <2>1. u = [w EXCEPT !.h = a.h, !.stopped = TRUE, !.failed = (a.r = "error")]
      BY <1>6 DEF WalkOn
    <2> HIDE DEF a, u
    <2>2. /\ u.h = a.h /\ u.keys = w.keys /\ u.bytes = w.bytes /\ u.stopped = TRUE
          /\ u.failed = (a.r = "error")
      BY <1>1, <2>1 DEF WalkStates
    <2>3. /\ Gapless(b, v, A, u.keys) /\ Retained(b, v, u.keys, u.h.values)
          /\ Capped(u.h.values, u.bytes)
      BY <1>4, <1>6, <2>2 DEF Walked
    <2>4. ~OnEntry(b, u.h) /\ ~u.h.reset /\ ~u.h.include /\ u.h.view = v
      BY <1>4, <1>6, <2>2
    <2>5. ~u.failed => S = {}
      BY <1>4, <1>6, <2>2
    <2>6. Ahead(b, u.h, live) = {}
      BY <2>4 DEF Ahead, Left
    <2>7. ~u.failed /\ Len(u.keys) = 0 => A = {}
      BY <2>2, <2>5 DEF After
    <2>8. ~u.failed => Ahead(b, u.h, live) = After(b, v, A, u.keys)
      BY <2>2, <2>5, <2>6
    <2>11. Broken(u.h) /\ (u.failed => u.h.cur = NoKey)
      BY <1>4, <1>6, <1>8, <2>2
    <2> HIDE DEF v, A
    <2>9. Walked(b, h, live, u)
      BY <1>1, <2>2, <2>3, <2>4, <2>7, <2>8, <2>11 DEF Walked, v, A
    <2>10. QED
      BY <1>2, <2>2, <2>9 DEF u
  <1>7. QED
    BY <1>2, <1>3, <1>4, <1>5, <1>6

(* The loop of a batch, turn by turn.                                      *)
LEMMA WalkTurns ==
  ASSUME NEW b \in Bounds, NEW h \in Handle, HandleOk(b, h), NEW live \in Views,
         NEW failAt \in Nat
  PROVE  \E f : /\ f[0] = WalkFrom(h)
                /\ \A n \in 1..MaxEntries : f[n] = WalkOn(b, f[n - 1], live, n = failAt)
                /\ BatchWalk(b, h, live, failAt) = f[MaxEntries]
  <1> DEFINE W == WalkStates(b)
             F == [p \in (1..MaxEntries) \X W |-> WalkOn(b, p[2], live, p[1] = failAt)]
             Body(f) == [n \in 0..MaxEntries |->
                           IF n = 0 THEN WalkFrom(h) ELSE WalkOn(b, f[n - 1], live, n = failAt)]
             g == CHOOSE f : f = Body(f)
  <1>1. WalkFrom(h) \in W
    BY EmptySeq DEF WalkFrom, WalkStates
  <1>2. F \in [(1..MaxEntries) \X W -> W]
    <2>1. ASSUME NEW p \in (1..MaxEntries) \X W
          PROVE  WalkOn(b, p[2], live, p[1] = failAt) \in W
      <3> DEFINE e == (p[1] = failAt)
      <3>1. e \in BOOLEAN /\ p[2] \in W
        OBVIOUS
      <3> HIDE DEF e
      <3>2. WalkOn(b, p[2], live, e) \in W
        BY <3>1, WalkOnType
      <3>3. QED
        BY <3>2 DEF e
    <2>2. QED
      BY <2>1
  <1> HIDE DEF W
  <1>3. PICK f \in [0..MaxEntries -> W] :
          f[0] = WalkFrom(h) /\ \A n \in 1..MaxEntries : f[n] = F[<<n, f[n - 1]>>]
    <2> HIDE DEF F
    <2>1. MaxEntries \in Nat
      OBVIOUS
    <2>2. Runs(MaxEntries, W, WalkFrom(h), F)
      BY <1>1, <1>2, <2>1, Iteration
    <2>3. QED
      BY <2>2 DEF Runs
  <1>4. f = Body(f)
    <2>1. ASSUME NEW n \in 0..MaxEntries
          PROVE  f[n] = IF n = 0 THEN WalkFrom(h) ELSE WalkOn(b, f[n - 1], live, n = failAt)
      <3>1. CASE n = 0
        BY <1>3, <3>1
      <3>2. CASE n # 0
        <4>1. n \in 1..MaxEntries /\ n - 1 \in 0..MaxEntries
          BY <3>2
        <4>2. f[n - 1] \in W
          BY <4>1
        <4>3. QED
          BY <1>3, <3>2, <4>1, <4>2
      <3>3. QED
        BY <3>1, <3>2
    <2> HIDE DEF F
    <2>2. QED
      BY <2>1
  <1>5. g = Body(g)
    BY <1>4
  <1>6. BatchWalk(b, h, live, failAt) = g[MaxEntries]
    BY DEF BatchWalk
  <1> HIDE DEF g
  <1>7. /\ g[0] = WalkFrom(h)
        /\ \A n \in 1..MaxEntries : g[n] = WalkOn(b, g[n - 1], live, n = failAt)
    <2>1. 0 \in 0..MaxEntries /\ \A n \in 1..MaxEntries : n \in 0..MaxEntries /\ n # 0
      OBVIOUS
    <2>2. QED
      BY <1>5, <2>1
  <1>8. QED
    BY <1>6, <1>7

(* Before the first turn nothing has been walked.                          *)
LEMMA WalkFromOk ==
  ASSUME NEW b \in Bounds, NEW h \in Handle, HandleOk(b, h), NEW live \in Views,
         Len(h.values) = 0
  PROVE  Walked(b, h, live, WalkFrom(h)) /\ Len(WalkFrom(h).keys) = 0 /\ ~WalkFrom(h).stopped
  <1> DEFINE w == WalkFrom(h)
             v == Seen(b, h, live)
             A == Ahead(b, h, live)
  <1>1. /\ w.h = h /\ w.keys = <<>> /\ w.bytes = 0 /\ w.stopped = FALSE /\ w.failed = FALSE
        /\ Len(w.keys) = 0
    BY DEF WalkFrom
  <1>2. w \in WalkStates(b)
    BY EmptySeq DEF WalkFrom, WalkStates
  <1> HIDE DEF w
  <1>3. Capped(w.h.values, w.bytes)
    <2> DEFINE s == [i \in 0..0 |-> 0]
    <2>1. /\ s \in [0..0 -> Nat] /\ s[0] = 0
          /\ \A i \in 1..0 : s[i] = s[i - 1] + h.values[i]
          /\ \A i \in 0..0 - 1 : s[i] < MaxBytes
      OBVIOUS
    <2> HIDE DEF s
    <2>2. QED
      BY <1>1, <2>1 DEF Capped
  <1>4. Gapless(b, v, A, w.keys) /\ Retained(b, v, w.keys, w.h.values)
    BY <1>1 DEF Gapless, Retained
  <1>5. After(b, v, A, w.keys) = A
    BY <1>1 DEF After
  <1>6. w.bytes < MaxBytes
    BY <1>1
  <1> HIDE DEF v, A
  <1>7. Walked(b, h, live, w)
    BY <1>1, <1>2, <1>3, <1>4, <1>5, <1>6 DEF Walked, v, A
  <1>8. QED
    BY <1>1, <1>7 DEF w

(* The loop of a batch walks the keys ahead, and either stops or frames as *)
(* many entries as a batch holds.                                          *)
LEMMA BatchWalked ==
  ASSUME NEW b \in Bounds, NEW h \in Handle, HandleOk(b, h), NEW live \in Views,
         NEW failAt \in Nat, Len(h.values) = 0
  PROVE  LET w == BatchWalk(b, h, live, failAt)
         IN  /\ Walked(b, h, live, w)
             /\ Len(w.keys) <= MaxEntries
             /\ w.stopped \/ Len(w.keys) > 0
  <1>1. PICK f : /\ f[0] = WalkFrom(h)
                 /\ \A n \in 1..MaxEntries : f[n] = WalkOn(b, f[n - 1], live, n = failAt)
                 /\ BatchWalk(b, h, live, failAt) = f[MaxEntries]
    BY WalkTurns
  <1> DEFINE S == {n \in Nat : n <= MaxEntries =>
                     /\ Walked(b, h, live, f[n])
                     /\ Len(f[n].keys) <= n
                     /\ ~f[n].stopped => Len(f[n].keys) = n}
  <1>2. 0 \in S
    BY <1>1, WalkFromOk
  <1>3. ASSUME NEW n \in Nat, n \in S
        PROVE  n + 1 \in S
    <2> SUFFICES ASSUME n + 1 <= MaxEntries
                 PROVE  /\ Walked(b, h, live, f[n + 1])
                        /\ Len(f[n + 1].keys) <= n + 1
                        /\ ~f[n + 1].stopped => Len(f[n + 1].keys) = n + 1
      OBVIOUS
    <2> DEFINE fail == (n + 1 = failAt)
               w == f[n]
               u == f[n + 1]
    <2>1. Walked(b, h, live, w) /\ Len(w.keys) <= n /\ (~w.stopped => Len(w.keys) = n)
      BY <1>3
    <2>2. u = WalkOn(b, w, live, fail)
      <3>1. n + 1 \in 1..MaxEntries /\ n + 1 - 1 = n
        OBVIOUS
      <3>2. QED
        BY <1>1, <3>1
    <2>3. fail \in BOOLEAN
      OBVIOUS
    <2> HIDE DEF fail, w, u
    <2>4. /\ Walked(b, h, live, u) /\ Len(u.keys) <= Len(w.keys) + 1
          /\ ~u.stopped => ~w.stopped /\ Len(u.keys) = Len(w.keys) + 1
      BY <2>1, <2>2, <2>3, WalkOnKeeps
    <2>5. Len(w.keys) \in Nat /\ Len(u.keys) \in Nat
      BY <2>1, <2>4 DEF Walked, WalkStates
    <2>6. QED
      BY <2>1, <2>4, <2>5 DEF u
  <1>4. MaxEntries \in S
    <2>1. Nat \subseteq S
      <3> HIDE DEF S
      <3> QED BY <1>2, <1>3, Induction
    <2> HIDE DEF S
    <2>2. QED
      BY <2>1
  <1>5. QED
    BY <1>1, <1>4

(* What a batch is: none if a failure is pending, which it answers;        *)
(* otherwise a gapless walk of the keys ahead, which leaves the handle     *)
(* ahead of the keys after them, or on none if it met a failure.           *)
BatchIs(b, h, live, batch) ==
  LET v == Seen(b, h, live)
      A == Ahead(b, h, live)
      g == batch.h
  IN  /\ g \in Handle /\ HandleOk(b, g)
      /\ batch.keys \in Seq(Keys) /\ Len(batch.keys) <= MaxEntries /\ batch.ok \in BOOLEAN
      /\ g.count = Len(batch.keys)
      /\ Retained(b, g.view, batch.keys, g.values)
      /\ \E total \in Nat : Capped(g.values, total)
      /\ ~batch.ok => Len(batch.keys) = 0
      /\ h.pending =>
           /\ ~batch.ok /\ ~g.pending
           /\ g.reset = h.reset /\ g.include = h.include
           /\ g.view = h.view /\ g.cur = h.cur /\ g.rest = h.rest
      /\ ~h.pending =>
           /\ Gapless(b, v, A, batch.keys)
           /\ ~g.reset /\ ~g.include /\ g.view = v
           /\ g.pending => Len(batch.keys) > 0
           /\ batch.ok /\ Len(batch.keys) = 0 => A = {}
           /\ IF g.pending \/ ~batch.ok THEN ~OnEntry(b, g) /\ g.cur = NoKey
                                        ELSE Left(b, g) = After(b, v, A, batch.keys)
           /\ ~h.reset /\ h.cur = NoKey => g.cur = NoKey

(* next_batch answers one.                                                 *)
LEMMA NextBatchIs ==
  ASSUME NEW b \in Bounds, NEW h \in Handle, HandleOk(b, h), NEW live \in Views,
         NEW failAt \in Nat
  PROVE  BatchIs(b, h, live, NextBatch(b, h, live, failAt))
  <1> DEFINE i == Invalidated(h)
             w == BatchWalk(b, i, live, failAt)
             n == Len(w.keys)
             batch == NextBatch(b, h, live, failAt)
             v == Seen(b, h, live)
             A == Ahead(b, h, live)
  <1>1. /\ i \in Handle /\ Len(i.values) = 0 /\ i.count = 0
        /\ i.reset = h.reset /\ i.include = h.include /\ i.view = h.view
        /\ i.cur = h.cur /\ i.rest = h.rest /\ i.pending = h.pending
    <2>1. <<>> \in Seq(Values) /\ 0 \in 0..MaxEntries /\ Len(<<>>) = 0
      BY EmptySeq
    <2>2. QED
      BY <2>1 DEF Invalidated, Handle
  <1>2. HandleOk(b, i) /\ Seen(b, i, live) = v /\ Ahead(b, i, live) = A
    BY <1>1, SamePlace
  <1>3. h.pending \in BOOLEAN
    BY DEF Handle
  <1>4. CASE h.pending
    <2> DEFINE g == [i EXCEPT !.pending = FALSE]
    <2>1. batch.h = g /\ batch.keys = <<>> /\ batch.ok = FALSE
      BY <1>4 DEF NextBatch
    <2>2. /\ g \in Handle /\ Len(g.values) = 0 /\ g.count = 0 /\ g.pending = FALSE
          /\ g.reset = h.reset /\ g.include = h.include /\ g.view = h.view
          /\ g.cur = h.cur /\ g.rest = h.rest
      BY <1>1 DEF Handle
    <2>3. HandleOk(b, g)
      BY <2>2, SamePlace
    <2>4. Len(batch.keys) = 0 /\ batch.keys \in Seq(Keys)
      BY <2>1, EmptySeq
    <2> HIDE DEF g, batch, i
    <2>5. Retained(b, g.view, batch.keys, g.values)
      BY <2>2, <2>4 DEF Retained
    <2>6. Capped(g.values, 0)
      <3> DEFINE s == [j \in 0..0 |-> 0]
      <3>1. /\ s \in [0..0 -> Nat] /\ s[0] = 0
            /\ \A j \in 1..0 : s[j] = s[j - 1] + g.values[j]
            /\ \A j \in 0..0 - 1 : s[j] < MaxBytes
        OBVIOUS
      <3> HIDE DEF s
      <3>2. QED
        BY <2>2, <3>1 DEF Capped
    <2>7. \E total \in Nat : Capped(g.values, total)
      BY <2>6
    <2> HIDE DEF v, A, w, n
    <2>8. /\ batch.h \in Handle /\ HandleOk(b, batch.h) /\ batch.h.count = Len(batch.keys)
          /\ Retained(b, batch.h.view, batch.keys, batch.h.values)
          /\ \E total \in Nat : Capped(batch.h.values, total)
          /\ ~batch.h.pending /\ batch.h.reset = h.reset /\ batch.h.include = h.include
          /\ batch.h.view = h.view /\ batch.h.cur = h.cur /\ batch.h.rest = h.rest
      BY <2>1, <2>2, <2>3, <2>4, <2>5, <2>7
    <2>9. Len(batch.keys) <= MaxEntries /\ batch.ok \in BOOLEAN /\ ~batch.ok
      <3>1. 0 <= MaxEntries
        OBVIOUS
      <3>2. QED
        BY <2>1, <2>4, <3>1
    <2>10. BatchIs(b, h, live, batch)
      BY <1>4, <2>4, <2>8, <2>9 DEF BatchIs
    <2>11. QED
      BY <2>10 DEF batch
  <1>5. CASE ~h.pending
    <2> HIDE DEF i
    <2>1. Walked(b, i, live, w) /\ n <= MaxEntries /\ (w.stopped \/ n > 0)
      BY <1>1, <1>2, BatchWalked
    <2> DEFINE e == (w.failed /\ n > 0)
               g == [w.h EXCEPT !.count = n, !.pending = e]
    <2>2. batch.h = g /\ batch.keys = w.keys /\ batch.ok = ~(w.failed /\ n = 0)
      BY <1>5 DEF NextBatch, i
    <2> HIDE DEF w, batch
    <2>3. /\ w \in WalkStates(b)
          /\ Gapless(b, v, A, w.keys) /\ Retained(b, v, w.keys, w.h.values)
          /\ Capped(w.h.values, w.bytes)
          /\ IF w.failed THEN w.stopped /\ ~OnEntry(b, w.h) /\ w.h.cur = NoKey
                         ELSE Ahead(b, w.h, live) = After(b, v, A, w.keys)
          /\ ~i.reset /\ i.cur = NoKey => w.h.cur = NoKey
          /\ ~w.h.reset /\ ~w.h.include /\ w.h.view = v
          /\ w.stopped /\ ~w.failed /\ n = 0 => A = {}
      <3> HIDE DEF n
      <3>1. QED
        BY <1>2, <2>1 DEF Walked, n
    <2>4. /\ w.h \in Handle /\ HandleOk(b, w.h) /\ w.keys \in Seq(Keys) /\ w.bytes \in Nat
          /\ w.failed \in BOOLEAN /\ n \in 0..MaxEntries
      BY <2>1, <2>3 DEF WalkStates
    <2>5. e \in BOOLEAN
      OBVIOUS
    <2> HIDE DEF n, e
    <2>6. /\ g \in Handle /\ g.count = n /\ g.pending = e /\ g.values = w.h.values
          /\ g.reset = w.h.reset /\ g.include = w.h.include /\ g.view = w.h.view
          /\ g.cur = w.h.cur /\ g.rest = w.h.rest
      BY <2>4, <2>5 DEF Handle
    <2> HIDE DEF g, v, A
    <2>7. HandleOk(b, g) /\ (OnEntry(b, g) <=> OnEntry(b, w.h)) /\ Ahead(b, g, live) = Ahead(b, w.h, live)
      <3> DEFINE u == w.h
      <3>1. /\ g.reset = u.reset /\ g.include = u.include /\ g.view = u.view
            /\ g.cur = u.cur /\ g.rest = u.rest /\ HandleOk(b, u)
        BY <2>4, <2>6
      <3> HIDE DEF u
      <3>2. HandleOk(b, g) /\ (OnEntry(b, g) <=> OnEntry(b, u)) /\ Ahead(b, g, live) = Ahead(b, u, live)
        BY <3>1, SamePlace
      <3>3. QED
        BY <3>2 DEF u
    <2>8. Left(b, g) = Ahead(b, g, live)
      BY <2>3, <2>6 DEF Ahead
    <2>9. e <=> w.failed /\ n > 0
      BY DEF e
    <2>10. n = 0 \/ n > 0
      BY <2>4
    <2>11. batch.ok \in BOOLEAN /\ (~batch.ok <=> w.failed /\ n = 0)
      BY <2>2
    <2>12. IF g.pending \/ ~batch.ok THEN ~OnEntry(b, g) /\ g.cur = NoKey
                                    ELSE Left(b, g) = After(b, v, A, batch.keys)
      BY <2>2, <2>3, <2>6, <2>7, <2>8, <2>9, <2>10, <2>11
    <2>13. Len(batch.keys) = n
      BY <2>2 DEF n
    <2>14. batch.ok /\ n = 0 => A = {}
      BY <2>1, <2>3, <2>11, <2>4
    <2>15. /\ g.count = Len(batch.keys) /\ Retained(b, g.view, batch.keys, g.values)
           /\ Capped(g.values, w.bytes) /\ w.bytes \in Nat /\ ~g.reset /\ ~g.include /\ g.view = v
           /\ Gapless(b, v, A, batch.keys) /\ (g.pending => n > 0) /\ (~batch.ok => n = 0)
           /\ batch.keys \in Seq(Keys) /\ n <= MaxEntries
      BY <2>2, <2>3, <2>4, <2>6, <2>9, <2>11, <2>13
    <2>18. ~h.reset /\ h.cur = NoKey => g.cur = NoKey
      BY <1>1, <2>3, <2>6
    <2>16. BatchIs(b, h, live, batch)
      BY <1>5, <2>2, <2>6, <2>7, <2>11, <2>12, <2>13, <2>14, <2>15, <2>18 DEF BatchIs, v, A
    <2>17. QED
      BY <2>16 DEF batch
  <1>6. QED
    BY <1>3, <1>4, <1>5
=============================================================================
