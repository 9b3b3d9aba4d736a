--------------------------- MODULE FfiIterProofs ---------------------------
(***************************************************************************)
(* A C caller of the iterator handle, for every set of keys, every range,  *)
(* batch size and byte cap: single steps and batches mixed freely are one  *)
(* walk, which ends without an error only when nothing is left of it, and  *)
(* the values of the last batch stay addressable.                          *)
(***************************************************************************)
EXTENDS FfiIter, RegolithIterProofs

USE KeyRangeAssumption, BatchAssumption

(* A handle that waits to start has no batch and no history.               *)
Waiting == h.reset =>
  Len(framed) = 0 /\ mark = MarkStart /\ ~landed /\ ~h.include /\ ~h.pending

(* What is beyond the handle's entry is what is beyond the mark, or the    *)
(* mark is that entry, sought and not stepped past.                        *)
OnMark ==
  OnEntry(bounds, h) =>
    IF h.include THEN landed /\ mark = h.cur
                 ELSE Beyond(bounds, h.view, h.cur) = Beyond(bounds, h.view, mark)

(* A handle that has left the range has nothing left of its walk.          *)
PastEnd ==
  h.cur # NoKey /\ ~OnEntry(bounds, h) => Beyond(bounds, h.view, mark) = {}

Marked ==
  /\ landed => h.include /\ OnEntry(bounds, h)
  /\ h.pending => ~h.include
  /\ ~h.reset => OnMark /\ PastEnd

FInv ==
  /\ TypeOK
  /\ HandleOk(bounds, h)
  /\ h.count = Len(framed)
  /\ Retained(bounds, h.view, framed, h.values)
  /\ Waiting
  /\ Marked
-----------------------------------------------------------------------------
(* Walks.                                                                  *)

(* T is what a walk over v has left at some place: whatever comes after    *)
(* one of its keys is in it.                                               *)
IsTail(b, v, T) ==
  /\ T \subseteq InRange(b, v)
  /\ \A k \in T, j \in InRange(b, v) : (IF b.reverse THEN j < k ELSE j > k) => j \in T

(* What is beyond a place, and what is from a place on, are such tails.    *)
LEMMA Tails ==
  ASSUME NEW b \in Bounds, NEW v \in Views, NEW m \in Int
  PROVE  IsTail(b, v, Beyond(b, v, m)) /\ IsTail(b, v, FromOn(b, v, m))
  <1>1. b.reverse \in BOOLEAN /\ \A j \in InRange(b, v) : j \in 0..MaxKey
    BY RangeKeys DEF Bounds, Keys
  <1>2. IsTail(b, v, Beyond(b, v, m))
    BY <1>1 DEF IsTail, Beyond
  <1>3. IsTail(b, v, FromOn(b, v, m))
    BY <1>1 DEF IsTail, FromOn
  <1>4. QED
    BY <1>2, <1>3

(* Without its first key, a tail is what is beyond that key.               *)
LEMMA TailAfter ==
  ASSUME NEW b \in Bounds, NEW v \in Views, NEW T, IsTail(b, v, T), T # {},
         NEW k, k = FirstOf(b, T)
  PROVE  T \ {k} = Beyond(b, v, k)
  <1>1. b.reverse \in BOOLEAN /\ T \subseteq InRange(b, v) /\ InRange(b, v) \subseteq Keys
    BY RangeKeys DEF Bounds, IsTail
  <1>2. k \in T /\ \A j \in T : IF b.reverse THEN k >= j ELSE k <= j
    BY <1>1, FirstOfIs
  <1>3. \A j \in InRange(b, v) : j \in 0..MaxKey /\ k \in 0..MaxKey
    BY <1>1, <1>2 DEF Keys
  <1>4. ASSUME NEW j \in T \ {k}
        PROVE  j \in Beyond(b, v, k)
    BY <1>1, <1>2, <1>3 DEF Beyond
  <1>5. ASSUME NEW j \in Beyond(b, v, k)
        PROVE  j \in T \ {k}
    <2>1. j \in InRange(b, v) /\ IF b.reverse THEN j < k ELSE j > k
      BY DEF Beyond
    <2>2. j \in T /\ j # k
      BY <1>1, <1>2, <1>3, <2>1 DEF IsTail
    <2>3. QED
      BY <2>2
  <1>6. QED
    BY <1>4, <1>5

(* A gapless walk of a tail removes its keys in order, each the first of   *)
(* the ones left.                                                          *)
LEMMA GaplessIsWalk ==
  ASSUME bounds \in Bounds, NEW v \in Views, NEW T, IsTail(bounds, v, T),
         NEW keys \in Seq(Keys), Gapless(bounds, v, T, keys)
  PROVE  WalkOver(keys, T)
  <1> DEFINE Rest(i) == T \ {keys[j] : j \in 1..i}
             Gone == {n \in Nat : n < Len(keys) =>
                        Rest(n) = IF n = 0 THEN T ELSE Beyond(bounds, v, keys[n])}
  <1>1. Len(keys) \in Nat /\ \A i \in 1..Len(keys) : keys[i] \in Keys
    OBVIOUS
  <1>2. 0 \in Gone
    OBVIOUS
  <1>3. ASSUME NEW n \in Nat, n \in Gone
        PROVE  n + 1 \in Gone
    <2> SUFFICES ASSUME n + 1 < Len(keys)
                 PROVE  Rest(n + 1) = Beyond(bounds, v, keys[n + 1])
      OBVIOUS
    <2> DEFINE S == IF n = 0 THEN T ELSE Beyond(bounds, v, keys[n])
               k == keys[n + 1]
    <2>1. n + 1 \in 1..Len(keys) /\ n + 1 - 1 = n /\ (n + 1 = 1 <=> n = 0)
      BY <1>1
    <2>2. S # {} /\ k = FirstOf(bounds, S)
      BY <2>1 DEF Gapless
    <2>3. IsTail(bounds, v, S)
      <3>1. CASE n = 0
        BY <3>1
      <3>2. CASE n # 0
        <4>1. n \in 1..Len(keys)
          BY <1>1, <3>2
        <4>2. keys[n] \in Int
          BY <1>1, <4>1 DEF Keys
        <4>3. IsTail(bounds, v, Beyond(bounds, v, keys[n]))
          BY <4>2, Tails
        <4>4. QED
          BY <3>2, <4>3
      <3>3. QED
        BY <3>1, <3>2
    <2>4. Rest(n) = S
      BY <1>1, <1>3
    <2>5. 1..n + 1 = (1..n) \cup {n + 1}
      OBVIOUS
    <2>6. {keys[j] : j \in 1..n + 1} = {keys[j] : j \in 1..n} \cup {k}
      BY <2>5
    <2>7. Rest(n + 1) = Rest(n) \ {k}
      BY <2>6
    <2> HIDE DEF S, k, Rest
    <2>8. S \ {k} = Beyond(bounds, v, k)
      BY <2>2, <2>3, TailAfter
    <2>9. QED
      BY <2>4, <2>7, <2>8 DEF k
  <1>4. Nat \subseteq Gone
    <2> HIDE DEF Gone
    <2> QED BY <1>2, <1>3, Induction
  <1>5. ASSUME NEW i \in 1..Len(keys)
        PROVE  keys[i] = FirstOf(bounds, Rest(i - 1))
    <2>1. i - 1 \in Nat /\ i - 1 < Len(keys) /\ (i - 1 = 0 <=> i = 1)
      BY <1>1
    <2>2. i - 1 \in Gone
      <3> HIDE DEF Gone
      <3> QED BY <1>4, <2>1
    <2>3. Rest(i - 1) = IF i = 1 THEN T ELSE Beyond(bounds, v, keys[i - 1])
      BY <2>1, <2>2
    <2> HIDE DEF Rest, Gone
    <2>4. QED
      BY <2>3 DEF Gapless
  <1>6. QED
    BY <1>5 DEF WalkOver

(* Everything is beyond the start.                                         *)
LEMMA BeyondStart ==
  ASSUME bounds \in Bounds, NEW v \in Views
  PROVE  Beyond(bounds, v, MarkStart) = InRange(bounds, v)
  <1>1. bounds.reverse \in BOOLEAN /\ \A j \in InRange(bounds, v) : j \in 0..MaxKey
    BY RangeKeys DEF Bounds, Keys
  <1>2. \A j \in InRange(bounds, v) :
          IF bounds.reverse THEN j < MarkStart ELSE j > MarkStart
    BY <1>1 DEF MarkStart
  <1>3. QED
    BY <1>2 DEF Beyond

(* Beyond the place just before a key is that key and what follows it.     *)
LEMMA BeyondBefore ==
  ASSUME bounds \in Bounds, NEW v \in Views, NEW t \in Keys
  PROVE  Beyond(bounds, v, MarkBefore(t)) = FromOn(bounds, v, t)
  <1>1. /\ bounds.reverse \in BOOLEAN /\ \A j \in InRange(bounds, v) : j \in 0..MaxKey
        /\ t \in 0..MaxKey
    BY RangeKeys DEF Bounds, Keys
  <1>2. \A j \in InRange(bounds, v) :
          (IF bounds.reverse THEN j < MarkBefore(t) ELSE j > MarkBefore(t))
            <=> (IF bounds.reverse THEN j <= t ELSE j >= t)
    BY <1>1 DEF MarkBefore
  <1>3. QED
    BY <1>2 DEF Beyond, FromOn
-----------------------------------------------------------------------------
(* What lies ahead of a call.                                              *)

(* The keys a single step has ahead.                                       *)
NextAhead == IF h.reset THEN InRange(bounds, Seen(bounds, h, live))
             ELSE IF OnEntry(bounds, h) THEN Beyond(bounds, h.view, h.cur) ELSE {}

(* The walk was not broken off by an error.                                *)
Unbroken == h.reset \/ h.cur # NoKey

(* What the invariant says of types.                                       *)
LEMMA Typed ==
  ASSUME FInv
  PROVE  /\ bounds \in Bounds /\ live \in ViewsOf(bounds) /\ live \in Views /\ h \in Handle
         /\ h.view \in Views /\ h.reset \in BOOLEAN /\ h.include \in BOOLEAN
         /\ h.pending \in BOOLEAN /\ landed \in BOOLEAN
         /\ Seen(bounds, h, live) \in Views
         /\ mark \in -1..MaxKey + 1 /\ framed \in Seq(Keys)
  <1>1. TypeOK
    BY DEF FInv
  <1>2. live \in Views /\ h.view \in Views
    BY <1>1, SourceViews DEF TypeOK, Handle
  <1>3. Seen(bounds, h, live) \in Views
    BY <1>2 DEF Seen
  <1>4. QED
    BY <1>1, <1>2, <1>3 DEF TypeOK, Handle

(* A single step has ahead what is beyond the mark.                        *)
LEMMA StepFromMark ==
  ASSUME FInv
  PROVE  /\ Unbroken => NextAhead = Beyond(bounds, Seen(bounds, h, live), mark)
         /\ ~Unbroken => NextAhead = {}
  <1>1. Waiting /\ Marked
    BY DEF FInv
  <1>2. CASE h.reset
    BY <1>1, <1>2, Typed, BeyondStart DEF NextAhead, Unbroken, Waiting
  <1>3. CASE ~h.reset
    <2>1. Seen(bounds, h, live) = h.view /\ OnMark /\ PastEnd
      BY <1>1, <1>3 DEF Seen, Marked
    <2>2. CASE OnEntry(bounds, h)
      <3>1. Beyond(bounds, h.view, h.cur) = Beyond(bounds, h.view, mark)
        BY <2>1, <2>2 DEF OnMark
      <3>2. h.cur # NoKey
        BY <2>2 DEF OnEntry
      <3>3. QED
        BY <1>3, <2>1, <2>2, <3>1, <3>2 DEF NextAhead, Unbroken
    <2>3. CASE ~OnEntry(bounds, h)
      BY <1>3, <2>1, <2>3 DEF NextAhead, Unbroken, PastEnd
    <2>4. QED
      BY <2>2, <2>3
  <1>4. QED
    BY <1>2, <1>3

(* A batch has ahead what is beyond the mark, or, right after a seek, what *)
(* is from the mark on.                                                    *)
LEMMA BatchFromMark ==
  ASSUME FInv
  PROVE  LET v == Seen(bounds, h, live)
         IN  /\ Unbroken => Ahead(bounds, h, live) = IF landed THEN FromOn(bounds, v, mark)
                                                               ELSE Beyond(bounds, v, mark)
             /\ ~Unbroken => Ahead(bounds, h, live) = {}
  <1>1. Waiting /\ Marked
    BY DEF FInv
  <1>2. CASE h.reset
    BY <1>1, <1>2, Typed, BeyondStart DEF Ahead, Unbroken, Waiting
  <1>3. CASE ~h.reset
    <2>1. /\ Seen(bounds, h, live) = h.view /\ OnMark /\ PastEnd
          /\ landed => h.include /\ OnEntry(bounds, h)
          /\ Ahead(bounds, h, live) = Left(bounds, h)
      BY <1>1, <1>3 DEF Seen, Marked, Ahead
    <2>2. CASE OnEntry(bounds, h)
      <3>1. IF h.include THEN landed /\ mark = h.cur
                         ELSE Beyond(bounds, h.view, h.cur) = Beyond(bounds, h.view, mark)
        BY <2>1, <2>2 DEF OnMark
      <3>2. h.cur # NoKey
        BY <2>2 DEF OnEntry
      <3>3. QED
        BY <1>3, <2>1, <2>2, <3>1, <3>2 DEF Left, Unbroken
    <2>3. CASE ~OnEntry(bounds, h)
      BY <1>3, <2>1, <2>3 DEF Left, Unbroken, PastEnd
    <2>4. QED
      BY <2>2, <2>3
  <1>4. QED
    BY <1>2, <1>3

(* Nothing ahead of a batch of an unbroken walk: nothing beyond the mark.  *)
LEMMA NothingBeyond ==
  ASSUME FInv, Unbroken, Ahead(bounds, h, live) = {}
  PROVE  Beyond(bounds, Seen(bounds, h, live), mark) = {}
  <1> DEFINE v == Seen(bounds, h, live)
  <1>1. Beyond(bounds, v, mark) \subseteq FromOn(bounds, v, mark)
    <2>1. bounds.reverse \in BOOLEAN /\ mark \in Int
      BY Typed DEF Bounds
    <2>2. \A j \in InRange(bounds, v) : j \in 0..MaxKey
      BY Typed, RangeKeys DEF Keys
    <2> HIDE DEF v
    <2>3. QED
      BY <2>1, <2>2 DEF Beyond, FromOn
  <1>2. QED
    BY <1>1, BatchFromMark
-----------------------------------------------------------------------------
(* The calls.                                                              *)

(* A call delivers what is right beyond the mark, or, a batch right after  *)
(* a seek, what is from the mark on.                                       *)
Continues ==
  WalkOver(got', IF landed /\ call' = "batch" THEN FromOn(bounds, h'.view, mark)
                                              ELSE Beyond(bounds, h'.view, mark))

(* It answers "end" in an unbroken walk only when nothing is left of it.   *)
EndsRightly == out' = "end" /\ Unbroken => Beyond(bounds, h'.view, mark) = {}

(* A walk of no key, or of the first one.                                  *)
LEMMA ShortWalks ==
  ASSUME NEW S
  PROVE  WalkOver(<<>>, S) /\ (\A k : k = FirstOf(bounds, S) => WalkOver(<<k>>, S))
  <1>1. WalkOver(<<>>, S)
    BY EmptySeq DEF WalkOver
  <1>2. ASSUME NEW k, k = FirstOf(bounds, S)
        PROVE  WalkOver(<<k>>, S)
    <2>1. Len(<<k>>) = 1 /\ <<k>>[1] = k
      OBVIOUS
    <2>2. S \ {<<k>>[j] : j \in 1..1 - 1} = S
      OBVIOUS
    <2>3. ASSUME NEW i \in 1..1
          PROVE  <<k>>[i] = FirstOf(bounds, S \ {<<k>>[j] : j \in 1..i - 1})
      <3>1. i = 1
        OBVIOUS
      <3>2. QED
        BY <1>2, <2>1, <2>2, <3>1
    <2>4. QED
      BY <2>1, <2>3 DEF WalkOver
  <1>3. QED
    BY <1>1, <1>2

(* The invariant holds at first.                                           *)
LEMMA InitFInv == Init => FInv
  <1> SUFFICES ASSUME Init PROVE FInv
    OBVIOUS
  <1>1. /\ bounds \in Bounds /\ live \in ViewsOf(bounds) /\ h = NewHandle(live)
        /\ call = "none" /\ out = "none" /\ got = <<>> /\ framed = <<>>
        /\ mark = MarkStart /\ landed = FALSE
    BY DEF Init
  <1>2. /\ h.reset = TRUE /\ h.include = FALSE /\ h.view = live /\ h.cur = NoKey
        /\ h.rest = {} /\ h.values = <<>> /\ h.count = 0 /\ h.pending = FALSE
    BY <1>1 DEF NewHandle
  <1>3. Len(<<>>) = 0 /\ <<>> \in Seq(Keys) /\ <<>> \in Seq(Values)
    BY EmptySeq
  <1>4. h \in Handle
    <2>1. live \in Views /\ 0 \in 0..MaxEntries
      BY <1>1, SourceViews
    <2>2. QED
      BY <1>1, <1>3, <2>1 DEF NewHandle, Handle
  <1>5. mark \in -1..MaxKey + 1
    BY <1>1 DEF MarkStart, Bounds
  <1>6. TypeOK
    <2>1. 0 <= MaxEntries
      OBVIOUS
    <2>2. Len(got) <= MaxEntries
      BY <1>1, <1>3, <2>1
    <2>3. QED
      BY <1>1, <1>3, <1>4, <1>5, <2>2 DEF TypeOK
  <1>7. HandleOk(bounds, h)
    BY <1>2 DEF HandleOk
  <1>8. h.count = Len(framed) /\ Retained(bounds, h.view, framed, h.values)
    BY <1>1, <1>2, <1>3 DEF Retained
  <1>9. Waiting /\ Marked
    BY <1>1, <1>2, <1>3 DEF Waiting, Marked
  <1>10. QED
    BY <1>6, <1>7, <1>8, <1>9 DEF FInv

(* A single step goes past the mark.                                       *)
LEMMA NextOk ==
  ASSUME FInv, FfiNext
  PROVE  FInv' /\ Continues /\ EndsRightly
  <1> DEFINE v == Seen(bounds, h, live)
  <1>1. PICK fail \in BOOLEAN :
          LET a == NextHandle(bounds, h, live, fail)
          IN  /\ h' = a.h
              /\ Called("next", a.r, IF a.r = "more" THEN <<a.h.cur>> ELSE <<>>)
              /\ mark' = IF a.r = "more" THEN a.h.cur ELSE mark
              /\ landed' = FALSE
              /\ UNCHANGED <<bounds, live, framed>>
    BY DEF FfiNext
  <1> DEFINE a == NextHandle(bounds, h, live, fail)
             g == a.h
             r == Running(h)
  <1>2. /\ h' = g /\ call' = "next" /\ out' = a.r
        /\ got' = IF a.r = "more" THEN <<g.cur>> ELSE <<>>
        /\ mark' = IF a.r = "more" THEN g.cur ELSE mark
        /\ landed' = FALSE /\ UNCHANGED <<bounds, live, framed>>
    BY <1>1 DEF Called
  <1>3. /\ TypeOK /\ HandleOk(bounds, h) /\ h.count = Len(framed) /\ Waiting /\ Marked
        /\ Retained(bounds, h.view, framed, h.values)
    BY DEF FInv
  <1>4. LandsOn(bounds, r, v, NextAhead, a)
    BY <1>3, Typed, NextLands DEF NextAhead
  <1>5. r.reset = FALSE /\ r.include = FALSE /\ r.values = h.values /\ r.count = h.count
        /\ r.pending = h.pending
    BY <1>3, Typed, RunningIs
  <1>6. ~h.reset /\ h.cur = NoKey => g.cur = NoKey
    BY <1>3, Typed, BrokenStays
  <1> HIDE DEF a, r, v
  <1>7. /\ g \in Handle /\ HandleOk(bounds, g) /\ g.view = v
        /\ g.reset = FALSE /\ g.include = FALSE /\ g.values = h.values /\ g.count = h.count
        /\ g.pending = h.pending
        /\ a.r \in {"more", "end", "error"}
        /\ a.r = "more" => NextAhead # {} /\ g.cur = FirstOf(bounds, NextAhead) /\ OnEntry(bounds, g)
        /\ a.r # "more" => ~OnEntry(bounds, g)
        /\ a.r = "end" => NextAhead = {}
        /\ a.r = "error" => g.cur = NoKey
    BY <1>4, <1>5 DEF LandsOn, MovedIn
  <1>8. /\ Unbroken => NextAhead = Beyond(bounds, v, mark)
        /\ ~Unbroken => NextAhead = {}
    BY StepFromMark DEF v
  <1>9. g.cur # NoKey => g.cur \in Keys
    BY <1>7 DEF Handle
  <1>10. a.r = "more" => g.cur \in Keys
    BY <1>7, <1>9 DEF OnEntry
  <1> HIDE DEF g
  <1>11. Continues
    <2>1. a.r = "more" => g.cur = FirstOf(bounds, Beyond(bounds, v, mark))
      BY <1>7, <1>8
    <2>2. WalkOver(got', Beyond(bounds, v, mark))
      BY <1>2, <2>1, ShortWalks
    <2>3. QED
      BY <1>2, <1>7, <2>2 DEF Continues
  <1>12. EndsRightly
    BY <1>2, <1>7, <1>8 DEF EndsRightly
  <1>13. TypeOK'
    <2>1. mark' \in -1..MaxKey + 1
      <3>1. g.cur \in Keys => g.cur \in -1..MaxKey + 1
        BY DEF Keys
      <3>2. QED
        BY <1>2, <1>10, <3>1, Typed
    <2>2. got' \in Seq(Keys) /\ Len(got') <= MaxEntries
      <3>1. CASE a.r = "more"
        <4>1. got' = <<g.cur>> /\ g.cur \in Keys
          BY <1>2, <1>10, <3>1
        <4>2. <<g.cur>> \in Seq(Keys) /\ Len(<<g.cur>>) = 1
          BY <4>1
        <4>3. 1 <= MaxEntries
          OBVIOUS
        <4>4. QED
          BY <4>1, <4>2, <4>3
      <3>2. CASE a.r # "more"
        <4>1. got' = <<>> /\ 0 <= MaxEntries
          BY <1>2, <3>2
        <4>2. QED
          BY <4>1, EmptySeq
      <3>3. QED
        BY <3>1, <3>2
    <2>3. h' \in Handle /\ out' \in {"more", "end", "error"} /\ call' = "next" /\ landed' = FALSE
      BY <1>2, <1>7
    <2>4. bounds' \in Bounds /\ live' \in ViewsOf(bounds') /\ framed' \in Seq(Keys)
      BY <1>2, Typed
    <2>5. QED
      BY <2>1, <2>2, <2>3, <2>4 DEF TypeOK
  <1>14. Retained(bounds', h'.view, framed', h'.values)
    <2>1. CASE h.reset
      <3>1. Len(framed) = 0 /\ Len(h.values) = 0
        BY <1>3, <2>1 DEF Waiting, Retained
      <3>2. QED
        BY <1>2, <1>7, <3>1 DEF Retained
    <2>2. CASE ~h.reset
      <3>1. v = h.view
        BY <2>2 DEF v, Seen
      <3>2. QED
        BY <1>2, <1>3, <1>7, <3>1
    <2>3. QED
      BY <2>1, <2>2
  <1>15. Waiting'
    BY <1>2, <1>7 DEF Waiting
  <1>16. OnMark'
    BY <1>2, <1>7 DEF OnMark
  <1>17. PastEnd'
    <2> SUFFICES ASSUME g.cur # NoKey, ~OnEntry(bounds, g)
                 PROVE  Beyond(bounds, v, mark) = {}
      BY <1>2, <1>7 DEF PastEnd
    <2>1. a.r = "end"
      BY <1>7
    <2>2. Unbroken
      BY <1>6 DEF Unbroken
    <2>3. QED
      BY <1>7, <1>8, <2>1, <2>2
  <1>18. Marked'
    BY <1>2, <1>7, <1>16, <1>17 DEF Marked
  <1>19. QED
    BY <1>2, <1>3, <1>7, <1>11, <1>12, <1>13, <1>14, <1>15, <1>18 DEF FInv

(* A batch goes on from the mark.                                          *)
LEMMA BatchOk ==
  ASSUME FInv, FfiNextBatch
  PROVE  FInv' /\ Continues /\ EndsRightly
  <1> DEFINE v == Seen(bounds, h, live)
             A == Ahead(bounds, h, live)
  <1>1. PICK failAt \in 1..MaxEntries + 1 :
          LET batch == NextBatch(bounds, h, live, failAt)
          IN  /\ h' = batch.h
              /\ Called("batch", IF ~batch.ok THEN "error" ELSE IF batch.keys = <<>> THEN "end" ELSE "more",
                        batch.keys)
              /\ framed' = batch.keys
              /\ mark' = IF batch.keys = <<>> THEN mark ELSE batch.keys[Len(batch.keys)]
              /\ landed' = FALSE
              /\ UNCHANGED <<bounds, live>>
    BY DEF FfiNextBatch
  <1> DEFINE batch == NextBatch(bounds, h, live, failAt)
             g == batch.h
             n == Len(batch.keys)
  <1>2. /\ h' = g /\ call' = "batch" /\ got' = batch.keys /\ framed' = batch.keys
        /\ out' = IF ~batch.ok THEN "error" ELSE IF batch.keys = <<>> THEN "end" ELSE "more"
        /\ mark' = IF batch.keys = <<>> THEN mark ELSE batch.keys[n]
        /\ landed' = FALSE /\ UNCHANGED <<bounds, live>>
    BY <1>1 DEF Called
  <1>3. /\ TypeOK /\ HandleOk(bounds, h) /\ Waiting /\ Marked
        /\ Retained(bounds, h.view, framed, h.values)
    BY DEF FInv
  <1>4. BatchIs(bounds, h, live, batch)
    <2>1. failAt \in Nat
      OBVIOUS
    <2>2. QED
      BY <1>3, <2>1, Typed, NextBatchIs
  <1> HIDE DEF batch, v, A
  <1>5. /\ g \in Handle /\ HandleOk(bounds, g) /\ g.count = n
        /\ batch.keys \in Seq(Keys) /\ n <= MaxEntries /\ batch.ok \in BOOLEAN
        /\ Retained(bounds, g.view, batch.keys, g.values)
        /\ ~batch.ok => n = 0
    BY <1>4 DEF BatchIs
  <1>6. h.pending =>
          /\ ~batch.ok /\ ~g.pending
          /\ g.reset = h.reset /\ g.include = h.include
          /\ g.view = h.view /\ g.cur = h.cur /\ g.rest = h.rest
    BY <1>4 DEF BatchIs
  <1>7. ~h.pending =>
          /\ Gapless(bounds, v, A, batch.keys)
          /\ ~g.reset /\ ~g.include /\ g.view = v
          /\ batch.ok /\ n = 0 => A = {}
          /\ IF g.pending \/ ~batch.ok THEN ~OnEntry(bounds, g) /\ g.cur = NoKey
                                       ELSE Left(bounds, g) = After(bounds, v, A, batch.keys)
          /\ ~h.reset /\ h.cur = NoKey => g.cur = NoKey
    BY <1>4 DEF BatchIs, v, A
  <1> HIDE DEF g
  <1>8. n \in Nat /\ (batch.keys = <<>> <=> n = 0)
    BY <1>5, EmptySeq
  <1>9. h.pending => ~h.reset /\ ~h.include /\ ~landed /\ n = 0
    BY <1>3, <1>5, <1>6, Typed DEF Waiting, Marked
  <1>10. n > 0 => batch.keys[n] \in Keys
    BY <1>5, <1>8
  <1>11. h'.view = v
    <2>1. h.pending => v = h.view
      BY <1>9 DEF v, Seen
    <2>2. QED
      BY <1>2, <1>6, <1>7, <2>1, Typed
  <1>12. A = {} /\ Unbroken => Beyond(bounds, v, mark) = {}
    BY NothingBeyond DEF A, v
  <1>13. Continues
    <2> DEFINE T == IF landed THEN FromOn(bounds, v, mark) ELSE Beyond(bounds, v, mark)
    <2>1. n = 0 => WalkOver(batch.keys, T)
      BY <1>8, ShortWalks
    <2>2. ASSUME n > 0
          PROVE  WalkOver(batch.keys, T)
      <3>1. Gapless(bounds, v, A, batch.keys)
        BY <1>7, <1>9, <2>2
      <3>2. A # {}
        <4>1. 1 \in 1..n
          BY <1>8, <2>2
        <4>2. QED
          BY <3>1, <4>1 DEF Gapless
      <3>3. A = T
        BY <3>2, BatchFromMark DEF A, v
      <3>4. v \in Views /\ mark \in Int /\ bounds \in Bounds
        BY Typed DEF v
      <3>5. IsTail(bounds, v, T)
        BY <3>4, Tails
      <3> HIDE DEF T
      <3>6. Gapless(bounds, v, T, batch.keys)
        BY <3>1, <3>3
      <3>7. QED
        BY <1>5, <3>4, <3>5, <3>6, GaplessIsWalk
    <2>3. WalkOver(batch.keys, T)
      BY <1>8, <2>1, <2>2
    <2>4. QED
      BY <1>2, <1>11, <2>3 DEF Continues
  <1>14. EndsRightly
    <2> SUFFICES ASSUME out' = "end", Unbroken
                 PROVE  Beyond(bounds, h'.view, mark) = {}
      BY DEF EndsRightly
    <2>1. batch.ok /\ n = 0
      BY <1>2, <1>5, <1>8
    <2>2. A = {}
      BY <1>6, <1>7, <2>1, Typed
    <2>3. QED
      BY <1>11, <1>12, <2>2
  <1>15. TypeOK'
    <2>1. mark' \in -1..MaxKey + 1
      <3>1. n > 0 => batch.keys[n] \in -1..MaxKey + 1
        BY <1>10 DEF Keys
      <3>2. QED
        BY <1>2, <1>8, <3>1, Typed
    <2>2. out' \in {"error", "end", "more"}
      BY <1>2
    <2>3. /\ h' \in Handle /\ got' \in Seq(Keys) /\ Len(got') <= MaxEntries
          /\ framed' \in Seq(Keys) /\ call' = "batch" /\ landed' = FALSE
          /\ bounds' \in Bounds /\ live' \in ViewsOf(bounds')
      BY <1>2, <1>5, Typed
    <2>4. QED
      BY <2>1, <2>2, <2>3 DEF TypeOK
  <1>16. Waiting' /\ ~h'.reset /\ ~h'.include
    BY <1>2, <1>6, <1>7, <1>9, Typed DEF Waiting
  <1>17. OnMark' /\ PastEnd'
    <2>1. CASE h.pending
      <3>1. OnEntry(bounds, g) <=> OnEntry(bounds, h)
        BY <1>6, <2>1 DEF OnEntry
      <3>2. OnMark /\ PastEnd /\ mark' = mark
        BY <1>2, <1>3, <1>8, <1>9, <2>1 DEF Marked
      <3>3. OnMark'
        BY <1>2, <1>6, <1>9, <2>1, <3>1, <3>2 DEF OnMark
      <3>4. PastEnd'
        BY <1>2, <1>6, <2>1, <3>1, <3>2 DEF PastEnd
      <3>5. QED
        BY <3>3, <3>4
    <2>2. CASE ~h.pending /\ (g.pending \/ ~batch.ok)
      BY <1>2, <1>7, <2>2 DEF OnMark, PastEnd
    <2>3. CASE ~h.pending /\ ~g.pending /\ batch.ok
      <3>1. Left(bounds, g) = After(bounds, v, A, batch.keys)
        BY <1>7, <2>3
      <3>2. g.cur # NoKey => After(bounds, v, A, batch.keys) = Beyond(bounds, v, mark')
        <4> SUFFICES ASSUME g.cur # NoKey
                     PROVE  After(bounds, v, A, batch.keys) = Beyond(bounds, v, mark')
          OBVIOUS
        <4>1. CASE n > 0
          BY <1>2, <1>8, <4>1 DEF After
        <4>2. CASE n = 0
          <5>1. A = {} /\ Unbroken
            BY <1>7, <2>3, <4>2 DEF Unbroken
          <5>2. mark' = mark
            BY <1>2, <1>8, <4>2
          <5>3. QED
            BY <1>12, <4>2, <5>1, <5>2 DEF After
        <4>3. QED
          BY <1>8, <4>1, <4>2
      <3>3. OnEntry(bounds, g) => Left(bounds, g) = Beyond(bounds, v, g.cur) /\ g.cur # NoKey
        BY <1>7, <2>3 DEF Left, OnEntry
      <3>4. ~OnEntry(bounds, g) => Left(bounds, g) = {}
        BY DEF Left
      <3>5. OnMark'
        BY <1>2, <1>7, <2>3, <3>1, <3>2, <3>3 DEF OnMark
      <3>6. PastEnd'
        BY <1>2, <1>7, <2>3, <3>1, <3>2, <3>4 DEF PastEnd
      <3>7. QED
        BY <3>5, <3>6
    <2>4. g.pending \in BOOLEAN
      BY <1>5 DEF Handle
    <2>5. QED
      BY <1>5, <2>1, <2>2, <2>3, <2>4, Typed
  <1>18. Marked'
    BY <1>2, <1>16, <1>17 DEF Marked
  <1>19. QED
    BY <1>2, <1>5, <1>13, <1>14, <1>15, <1>16, <1>18 DEF FInv

(* A seek moves the mark to the entry it lands on, or just before its      *)
(* target.                                                                 *)
LEMMA SeekOk == ASSUME FInv, FfiSeek PROVE FInv'
  <1>1. PICK t \in Keys, fail \in BOOLEAN :
          LET a == SeekHandle(bounds, h, live, t, fail)
          IN  /\ h' = a.h
              /\ Called("seek", a.r, IF a.r = "more" THEN <<a.h.cur>> ELSE <<>>)
              /\ framed' = <<>>
              /\ mark' = IF a.r = "more" THEN a.h.cur ELSE MarkBefore(t)
              /\ landed' = (a.r = "more")
              /\ UNCHANGED <<bounds, live>>
    BY DEF FfiSeek
  <1> DEFINE a == SeekHandle(bounds, h, live, t, fail)
             g == a.h
             s == Sought(h)
             v == IF bounds.txn THEN live ELSE h.view
             A == FromOn(bounds, v, t)
  <1>2. /\ h' = g /\ call' = "seek" /\ out' = a.r
        /\ got' = IF a.r = "more" THEN <<g.cur>> ELSE <<>>
        /\ framed' = <<>>
        /\ mark' = IF a.r = "more" THEN g.cur ELSE MarkBefore(t)
        /\ landed' = (a.r = "more") /\ UNCHANGED <<bounds, live>>
    BY <1>1 DEF Called
  <1>3. LandsOn(bounds, s, v, A, a)
    BY Typed, SeekLands
  <1>4. /\ s.reset = FALSE /\ s.include = TRUE /\ Len(s.values) = 0 /\ s.count = 0
        /\ s.pending = FALSE
    <2>1. Len(<<>>) = 0
      BY EmptySeq
    <2>2. QED
      BY <2>1, Typed DEF Sought, Handle
  <1>5. v \in Views
    BY Typed
  <1> HIDE DEF a, s, v, A
  <1>6. /\ g \in Handle /\ HandleOk(bounds, g) /\ g.view = v
        /\ g.reset = FALSE /\ g.include = TRUE /\ Len(g.values) = 0 /\ g.count = 0
        /\ g.pending = FALSE
        /\ a.r \in {"more", "end", "error"}
        /\ a.r = "more" => OnEntry(bounds, g)
        /\ a.r # "more" => ~OnEntry(bounds, g)
        /\ a.r = "end" => A = {}
        /\ a.r = "error" => g.cur = NoKey
    BY <1>3, <1>4 DEF LandsOn, MovedIn
  <1>7. g.cur # NoKey => g.cur \in Keys
    BY <1>6 DEF Handle
  <1>8. a.r = "more" => g.cur \in Keys
    BY <1>6, <1>7 DEF OnEntry
  <1>9. Beyond(bounds, v, MarkBefore(t)) = A
    BY <1>5, Typed, BeyondBefore DEF A
  <1> HIDE DEF g
  <1>10. TypeOK'
    <2>1. mark' \in -1..MaxKey + 1
      <3>1. g.cur \in Keys => g.cur \in -1..MaxKey + 1
        BY DEF Keys
      <3>2. MarkBefore(t) \in -1..MaxKey + 1
        BY Typed DEF MarkBefore, Keys, Bounds
      <3>3. QED
        BY <1>2, <1>8, <3>1, <3>2
    <2>2. got' \in Seq(Keys) /\ Len(got') <= MaxEntries
      <3>1. CASE a.r = "more"
        <4>1. got' = <<g.cur>> /\ g.cur \in Keys
          BY <1>2, <1>8, <3>1
        <4>2. <<g.cur>> \in Seq(Keys) /\ Len(<<g.cur>>) = 1
          BY <4>1
        <4>3. 1 <= MaxEntries
          OBVIOUS
        <4>4. QED
          BY <4>1, <4>2, <4>3
      <3>2. CASE a.r # "more"
        <4>1. got' = <<>> /\ 0 <= MaxEntries
          BY <1>2, <3>2
        <4>2. QED
          BY <4>1, EmptySeq
      <3>3. QED
        BY <3>1, <3>2
    <2>3. /\ h' \in Handle /\ out' \in {"more", "end", "error"} /\ call' = "seek"
          /\ landed' \in BOOLEAN /\ framed' \in Seq(Keys)
          /\ bounds' \in Bounds /\ live' \in ViewsOf(bounds')
      BY <1>2, <1>6, Typed, EmptySeq
    <2>4. QED
      BY <2>1, <2>2, <2>3 DEF TypeOK
  <1>11. Len(framed') = 0
    BY <1>2, EmptySeq
  <1>12. Retained(bounds', h'.view, framed', h'.values)
    BY <1>2, <1>6, <1>11 DEF Retained
  <1>13. Waiting'
    BY <1>2, <1>6 DEF Waiting
  <1>14. OnMark'
    BY <1>2, <1>6 DEF OnMark
  <1>15. PastEnd'
    <2> SUFFICES ASSUME g.cur # NoKey, ~OnEntry(bounds, g)
                 PROVE  a.r # "more" /\ A = {}
      BY <1>2, <1>6, <1>9 DEF PastEnd
    <2>1. QED
      BY <1>6
  <1>16. Marked'
    BY <1>2, <1>6, <1>14, <1>15 DEF Marked
  <1>17. QED
    BY <1>2, <1>6, <1>10, <1>11, <1>12, <1>13, <1>16 DEF FInv

(* A reset goes back to the start.                                         *)
LEMMA ResetOk == ASSUME FInv, FfiReset PROVE FInv'
  <1> DEFINE g == ResetHandle(h)
  <1>1. /\ h' = g /\ call' = "reset" /\ out' = "none" /\ got' = <<>> /\ framed' = <<>>
        /\ mark' = MarkStart /\ landed' = FALSE /\ UNCHANGED <<bounds, live>>
    BY DEF FfiReset, Called
  <1>2. <<>> \in Seq(Values) /\ <<>> \in Seq(Keys) /\ Len(<<>>) = 0 /\ 0 \in 0..MaxEntries
        /\ 0 <= MaxEntries
    BY EmptySeq
  <1>3. /\ g \in Handle /\ g.reset = TRUE /\ g.include = FALSE /\ g.pending = FALSE
        /\ Len(g.values) = 0 /\ g.count = 0
        /\ g.view = h.view /\ g.cur = h.cur /\ g.rest = h.rest
    BY <1>2, Typed DEF ResetHandle, Invalidated, Handle
  <1> HIDE DEF g
  <1>4. HandleOk(bounds, g)
    BY <1>3 DEF FInv, HandleOk
  <1>5. mark' \in -1..MaxKey + 1
    BY <1>1, Typed DEF MarkStart, Bounds
  <1>6. Len(got') <= MaxEntries /\ Len(framed') = 0
    BY <1>1, <1>2
  <1>7. TypeOK'
    BY <1>1, <1>2, <1>3, <1>5, <1>6, Typed DEF TypeOK
  <1>8. Retained(bounds', h'.view, framed', h'.values)
    BY <1>1, <1>3, <1>6 DEF Retained
  <1>9. Waiting'
    BY <1>1, <1>3, <1>6 DEF Waiting, MarkStart
  <1>10. Marked'
    BY <1>1, <1>3 DEF Marked
  <1>11. QED
    BY <1>1, <1>3, <1>4, <1>6, <1>7, <1>8, <1>9, <1>10 DEF FInv

(* A write in the transaction is not the iterator's business until it is   *)
(* sought or reset.                                                        *)
LEMMA WriteOk == ASSUME FInv, FfiWriteInTxn PROVE FInv'
  <1>1. /\ bounds.txn /\ live' \in Written(live)
        /\ UNCHANGED <<bounds, h, call, out, got, framed, mark, landed>>
    BY DEF FfiWriteInTxn
  <1>2. live' \in ViewsOf(bounds)
    BY <1>1, Typed, WrittenViews
  <1>3. TypeOK'
    BY <1>1, <1>2 DEF FInv, TypeOK
  <1>4. Waiting' /\ Marked'
    BY <1>1 DEF FInv, Waiting, Marked, OnMark, PastEnd, MarkStart
  <1>5. QED
    BY <1>1, <1>3, <1>4 DEF FInv

(* Every step keeps the invariant.                                         *)
LEMMA NextFInv == FInv /\ [Next]_vars => FInv'
  <1>1. ASSUME FInv, UNCHANGED vars
        PROVE  FInv'
    <2>1. UNCHANGED <<bounds, live, h, call, out, got, framed, mark, landed>>
      BY <1>1 DEF vars
    <2>2. QED
      BY <1>1, <2>1 DEF FInv, TypeOK, Waiting, Marked, OnMark, PastEnd, MarkStart
  <1>2. QED
    BY <1>1, NextOk, BatchOk, SeekOk, ResetOk, WriteOk DEF Next
-----------------------------------------------------------------------------
(* The strengthened invariant of the handle, its marks and its batch.      *)
THEOREM FfiIterInvariant == Spec => []FInv
  BY InitFInv, NextFInv, PTL DEF Spec

(* Types: what the handle holds, what it answered, the keys it delivered.  *)
THEOREM FfiIterTypeCorrect == Spec => []TypeOK
  <1>1. FInv => TypeOK
    BY DEF FInv
  <1>2. QED
    BY <1>1, FfiIterInvariant, PTL

(* The values of a batch stay addressable while single steps move the      *)
(* cursor on (regolith_iter_batch_value, ffi/src/iter.rs).                 *)
THEOREM BatchStaysAddressable == Spec => []BatchAddressable
  <1>1. FInv => BatchAddressable
    <2> SUFFICES ASSUME FInv PROVE BatchAddressable
      OBVIOUS
    <2>1. h.count = Len(framed) /\ Retained(bounds, h.view, framed, h.values)
      BY DEF FInv
    <2>2. Len(framed) \in Nat /\ bounds.keysOnly \in BOOLEAN
      BY Typed DEF Bounds
    <2>3. Len(h.values) = IF bounds.keysOnly THEN 0 ELSE Len(framed)
      BY <2>1 DEF Retained
    <2>4. ASSUME NEW i \in 1..Len(framed)
          PROVE  BatchValue(h, i - 1) = IF bounds.keysOnly THEN -1 ELSE h.view[framed[i]]
      <3>1. i - 1 \in 0..Len(framed) - 1 /\ i - 1 + 1 = i
        BY <2>2
      <3>2. ~(i - 1 >= h.count) /\ (i - 1 < Len(h.values) <=> ~bounds.keysOnly)
        BY <2>1, <2>2, <2>3, <3>1
      <3>3. ~bounds.keysOnly => h.values[i] = h.view[framed[i]]
        BY <2>1 DEF Retained
      <3>4. QED
        BY <2>2, <3>1, <3>2, <3>3 DEF BatchValue
    <2>5. BatchValue(h, Len(framed)) = BadIndex
      BY <2>1, <2>2 DEF BatchValue
    <2>6. QED
      BY <2>4, <2>5 DEF BatchAddressable
  <1>2. QED
    BY <1>1, FfiIterInvariant, PTL

(* A step that is a call of next or next_batch goes on from the mark, and  *)
(* ends only where nothing is left.                                        *)
LEMMA AdvancesOk ==
  ASSUME FInv, Next, vars' # vars, Advances
  PROVE  Continues /\ EndsRightly
  <1>1. CASE FfiNext
    BY <1>1, NextOk
  <1>2. CASE FfiNextBatch
    BY <1>2, BatchOk
  <1>3. CASE FfiSeek
    <2>1. call' = "seek"
      BY <1>3 DEF FfiSeek, Called
    <2>2. QED
      BY <2>1 DEF Advances
  <1>4. CASE FfiReset
    <2>1. call' = "reset"
      BY <1>4 DEF FfiReset, Called
    <2>2. QED
      BY <2>1 DEF Advances
  <1>5. CASE FfiWriteInTxn
    BY <1>5 DEF FfiWriteInTxn, Advances, vars
  <1>6. QED
    BY <1>1, <1>2, <1>3, <1>4, <1>5 DEF Next

(* Single steps and batches mixed in any order are one walk without a gap  *)
(* or a repeat (regolith_ffi.h:471).                                       *)
THEOREM MixedWalkContinues == Spec => WalkContinues
  <1>1. FInv /\ [Next]_vars =>
          [Advances =>
             WalkOver(got', IF landed /\ call' = "batch" THEN FromOn(bounds, h'.view, mark)
                                                         ELSE Beyond(bounds, h'.view, mark))]_vars
    BY AdvancesOk DEF Continues
  <1>2. QED
    BY <1>1, FfiIterInvariant, PTL DEF Spec, WalkContinues

(* An end that no error broke off is an end: nothing is left beyond it.    *)
THEOREM EndsAreExhausted == Spec => EndMeansExhausted
  <1>1. FInv /\ [Next]_vars =>
          [(Advances /\ out' = "end" /\ (h.reset \/ h.cur # NoKey)) =>
             Beyond(bounds, h'.view, mark) = {}]_vars
    BY AdvancesOk DEF EndsRightly, Unbroken
  <1>2. QED
    BY <1>1, FfiIterInvariant, PTL DEF Spec, EndMeansExhausted
=============================================================================
