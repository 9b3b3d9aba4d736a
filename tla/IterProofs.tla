----------------------------- MODULE IterProofs -----------------------------
(***************************************************************************)
(* The Go iterator, for every set of keys, every range, batch size and     *)
(* byte cap: its two halves hold the same batch, a batch pins no more than *)
(* the cap, a failure held back is reported, and an iterator is a Cursor.  *)
(***************************************************************************)
EXTENDS Iter, RegolithIterProofs

USE KeyRangeAssumption, BatchAssumption

(* The batch holds consecutive keys of the range.                          *)
Consecutive ==
  \A i \in 1..Len(ents) - 1 :
    /\ Beyond(bounds, h.view, ents[i]) # {}
    /\ ents[i + 1] = FirstOf(bounds, Beyond(bounds, h.view, ents[i]))

(* The next batch starts right beyond this one, or answers a failure.      *)
StandsBeyond ==
  Len(ents) > 0 =>
    /\ ~h.reset /\ ~h.include /\ ~done
    /\ pos < Len(ents)
    /\ IF h.pending THEN ~OnEntry(bounds, h)
       ELSE Left(bounds, h) = Beyond(bounds, h.view, ents[Len(ents)])

(* Without a batch nothing is left of a walk that has begun.               *)
NothingLeft ==
  Len(ents) = 0 =>
    /\ pos = 0 /\ ~h.pending
    /\ done => ~h.reset
    /\ ~h.reset => Left(bounds, h) = {}

IterInv ==
  /\ TypeOK
  /\ HandleOk(bounds, h)
  /\ h.count = Len(ents)
  /\ Retained(bounds, h.view, ents, h.values)
  /\ \E total \in Nat : Capped(h.values, total)
  /\ Consecutive
  /\ StandsBeyond
  /\ NothingLeft
-----------------------------------------------------------------------------
(* A refill.                                                               *)

(* What a refill from handle g, which has the keys A of view v ahead,      *)
(* comes to: an entry, the end of the walk, or a failure.                  *)
Refilled(v, A) ==
  /\ h'.view = v /\ ~h'.reset /\ pos' = 0
  /\ \/ Len(ents') > 0 /\ A # {} /\ ents'[1] = FirstOf(bounds, A) /\ ~done' /\ out' = "true"
     \/ Len(ents') = 0 /\ A = {} /\ done' /\ out' = "false"
     \/ Len(ents') = 0 /\ ~done' /\ out' = "error"

(* A refill keeps the invariant, answers a failure held back, and serves   *)
(* the first of the keys ahead.                                            *)
LEMMA RefillServes ==
  ASSUME bounds \in Bounds, live \in ViewsOf(bounds), closed \in BOOLEAN,
         NEW g \in Handle, HandleOk(bounds, g),
         g.pending => ~g.reset /\ ~OnEntry(bounds, g),
         NEW m \in -1..MaxKey + 1,
         Refill(g, FALSE, m), UNCHANGED <<bounds, live, closed>>
  PROVE  /\ IterInv'
         /\ Refilled(Seen(bounds, g, live), Ahead(bounds, g, live))
         /\ g.pending => out' = "error"
  <1> DEFINE v == Seen(bounds, g, live)
             A == Ahead(bounds, g, live)
  <1>1. PICK failAt \in 1..MaxEntries + 1 :
          LET batch == NextBatch(bounds, g, live, failAt)
              empty == batch.keys = <<>>
          IN  /\ h' = batch.h
              /\ ents' = batch.keys /\ pos' = 0
              /\ done' = (FALSE \/ (batch.ok /\ empty))
              /\ out' = IF ~batch.ok THEN "error" ELSE IF empty THEN "false" ELSE "true"
              /\ mark' = IF empty THEN m ELSE batch.keys[1]
    BY DEF Refill
  <1> DEFINE batch == NextBatch(bounds, g, live, failAt)
  <1>2. live \in Views
    BY SourceViews
  <1>3. BatchIs(bounds, g, live, batch)
    BY <1>2, NextBatchIs
  <1> HIDE DEF batch
  <1>4. /\ h' = batch.h /\ ents' = batch.keys /\ pos' = 0
        /\ done' = (batch.ok /\ batch.keys = <<>>)
        /\ out' = IF ~batch.ok THEN "error" ELSE IF batch.keys = <<>> THEN "false" ELSE "true"
        /\ mark' = IF batch.keys = <<>> THEN m ELSE batch.keys[1]
    BY <1>1 DEF batch
  <1>5. /\ h' \in Handle /\ HandleOk(bounds, h') /\ ents' \in Seq(Keys)
        /\ Len(ents') <= MaxEntries /\ batch.ok \in BOOLEAN
        /\ h'.count = Len(ents') /\ Retained(bounds, h'.view, ents', h'.values)
        /\ \E total \in Nat : Capped(h'.values, total)
        /\ ~batch.ok => Len(ents') = 0
    BY <1>3, <1>4 DEF BatchIs
  <1>6. g.pending => /\ ~batch.ok /\ ~h'.pending
                     /\ h'.reset = g.reset /\ h'.include = g.include
                     /\ h'.view = g.view /\ h'.cur = g.cur /\ h'.rest = g.rest
    BY <1>3, <1>4 DEF BatchIs
  <1>7. ~g.pending => /\ Gapless(bounds, v, A, ents')
                      /\ ~h'.reset /\ ~h'.include /\ h'.view = v
                      /\ h'.pending => Len(ents') > 0
                      /\ batch.ok /\ Len(ents') = 0 => A = {}
                      /\ IF h'.pending \/ ~batch.ok THEN ~OnEntry(bounds, h')
                                                    ELSE Left(bounds, h') = After(bounds, v, A, ents')
    BY <1>3, <1>4 DEF BatchIs
  <1>8. Len(ents') \in Nat /\ (ents' = <<>> <=> Len(ents') = 0)
    BY <1>5, EmptySeq
  <1>9. done' = (batch.ok /\ Len(ents') = 0)
    BY <1>4, <1>8
  <1>10. out' = IF ~batch.ok THEN "error" ELSE IF Len(ents') = 0 THEN "false" ELSE "true"
    BY <1>4, <1>8
  <1>11. Len(ents') > 0 => ents'[1] \in Keys
    BY <1>5, <1>8, ElementOfSeq
  <1>12. mark' \in -1..MaxKey + 1
    BY <1>4, <1>8, <1>11 DEF Keys
  <1>13. TypeOK'
    BY <1>4, <1>5, <1>8, <1>9, <1>10, <1>12 DEF TypeOK, Outcomes
  <1>14. Len(ents') > 0 => ~g.pending /\ batch.ok
    BY <1>5, <1>6
  <1> HIDE DEF v, A
  <1>15. Consecutive'
    <2> SUFFICES ASSUME NEW i \in 1..Len(ents') - 1
                 PROVE  /\ Beyond(bounds, h'.view, ents'[i]) # {}
                        /\ ents'[i + 1] = FirstOf(bounds, Beyond(bounds, h'.view, ents'[i]))
      BY DEF Consecutive
    <2>1. ~g.pending
      BY <1>8, <1>14
    <2>2. i + 1 \in 1..Len(ents') /\ i + 1 # 1 /\ i + 1 - 1 = i
      BY <1>8
    <2>3. QED
      BY <1>7, <2>1, <2>2 DEF Gapless
  <1>16. StandsBeyond'
    <2> SUFFICES ASSUME Len(ents') > 0
                 PROVE  /\ ~h'.reset /\ ~h'.include /\ ~done'
                        /\ pos' < Len(ents')
                        /\ IF h'.pending THEN ~OnEntry(bounds, h')
                           ELSE Left(bounds, h') = Beyond(bounds, h'.view, ents'[Len(ents')])
      BY DEF StandsBeyond
    <2>1. ~g.pending /\ batch.ok /\ Len(ents') # 0
      BY <1>14, <1>8
    <2>2. ~h'.reset /\ ~h'.include /\ ~done' /\ pos' < Len(ents')
      BY <1>4, <1>7, <1>9, <2>1
    <2>3. CASE h'.pending
      BY <1>7, <2>1, <2>2, <2>3
    <2>4. CASE ~h'.pending
      <3>1. Left(bounds, h') = After(bounds, v, A, ents') /\ h'.view = v
        BY <1>7, <2>1, <2>4
      <3>2. QED
        BY <2>1, <2>2, <2>4, <3>1 DEF After
    <2>5. QED
      BY <2>3, <2>4
  <1>17. NothingLeft'
    <2> SUFFICES ASSUME Len(ents') = 0
                 PROVE  /\ pos' = 0 /\ ~h'.pending
                        /\ done' => ~h'.reset
                        /\ ~h'.reset => Left(bounds, h') = {}
      BY DEF NothingLeft
    <2>1. CASE g.pending
      <3>1. ~OnEntry(bounds, h')
        BY <1>6, <2>1, SamePlace
      <3>2. QED
        BY <1>4, <1>6, <2>1, <3>1 DEF Left
    <2>2. CASE ~g.pending
      <3>1. ~h'.pending /\ ~h'.reset
        BY <1>7, <2>2
      <3>2. CASE batch.ok
        <4>1. Left(bounds, h') = {}
          BY <1>7, <2>2, <3>1, <3>2 DEF After
        <4>2. QED
          BY <1>4, <3>1, <4>1
      <3>3. CASE ~batch.ok
        <4>1. ~OnEntry(bounds, h')
          BY <1>7, <2>2, <3>3
        <4>2. QED
          BY <1>4, <3>1, <4>1 DEF Left
      <3>4. QED
        BY <3>2, <3>3
    <2>3. QED
      BY <2>1, <2>2
  <1>18. IterInv'
    BY <1>5, <1>13, <1>15, <1>16, <1>17 DEF IterInv
  <1>19. Refilled(v, A)
    <2>1. h'.view = v /\ ~h'.reset /\ pos' = 0
      BY <1>4, <1>6, <1>7 DEF v, Seen
    <2>2. CASE Len(ents') > 0
      <3>1. Gapless(bounds, v, A, ents') /\ 1 \in 1..Len(ents')
        BY <1>7, <1>8, <1>14, <2>2
      <3>2. A # {} /\ ents'[1] = FirstOf(bounds, A)
        BY <3>1 DEF Gapless
      <3>3. batch.ok /\ Len(ents') # 0
        BY <1>8, <1>14, <2>2
      <3>4. ~done' /\ out' = "true"
        BY <1>9, <1>10, <3>3
      <3>5. QED
        BY <2>1, <2>2, <3>2, <3>4 DEF Refilled
    <2>3. CASE Len(ents') = 0 /\ batch.ok
      BY <1>6, <1>7, <1>9, <1>10, <2>1, <2>3 DEF Refilled
    <2>4. CASE Len(ents') = 0 /\ ~batch.ok
      BY <1>9, <1>10, <2>1, <2>4 DEF Refilled
    <2>5. QED
      BY <1>5, <1>8, <2>2, <2>3, <2>4
  <1>20. g.pending => out' = "error"
    BY <1>6, <1>10
  <1>21. QED
    BY <1>18, <1>19, <1>20 DEF v, A
-----------------------------------------------------------------------------
(* The invariant.                                                          *)

(* A new iterator has no batch.                                            *)
LEMMA InitInv == Init => IterInv
  <1> SUFFICES ASSUME Init PROVE IterInv
    OBVIOUS
  <1>1. /\ h = NewHandle(live) /\ ents = <<>> /\ pos = 0 /\ done = FALSE
        /\ bounds \in Bounds /\ live \in ViewsOf(bounds) /\ live \in Views
    BY SourceViews DEF Init
  <1>2. Len(ents) = 0 /\ ents \in Seq(Keys)
    BY <1>1, EmptySeq
  <1>3. /\ h \in Handle /\ h.reset = TRUE /\ h.cur = NoKey /\ h.rest = {} /\ Len(h.values) = 0
        /\ h.count = 0 /\ h.pending = FALSE
    <2>1. <<>> \in Seq(Values) /\ 0 \in 0..MaxEntries /\ Len(<<>>) = 0
      BY EmptySeq
    <2>2. QED
      BY <1>1, <2>1 DEF NewHandle, Handle
  <1>4. TypeOK
    <2>1. mark \in -1..MaxKey + 1
      <3>1. -1 \in -1..MaxKey + 1 /\ MaxKey + 1 \in -1..MaxKey + 1
        OBVIOUS
      <3>2. mark = MaxKey + 1 \/ mark = -1
        BY DEF Init, MarkStart
      <3>3. QED
        BY <3>1, <3>2
    <2>2. closed \in BOOLEAN /\ out \in Outcomes
      BY DEF Init, Outcomes
    <2>3. 0 \in 0..MaxEntries
      OBVIOUS
    <2>4. Len(ents) <= MaxEntries
      BY <1>2, <2>3
    <2>5. QED
      BY <1>1, <1>2, <1>3, <2>1, <2>2, <2>3, <2>4 DEF TypeOK
  <1>5. HandleOk(bounds, h)
    BY <1>3 DEF HandleOk
  <1>6. Capped(h.values, 0)
    <2> DEFINE s == [i \in 0..0 |-> 0]
    <2>1. /\ s \in [0..0 -> Nat] /\ s[0] = 0
          /\ \A i \in 1..0 : s[i] = s[i - 1] + h.values[i]
          /\ \A i \in 0..0 - 1 : s[i] < MaxBytes
      OBVIOUS
    <2> HIDE DEF s
    <2>2. QED
      BY <1>3, <2>1 DEF Capped
  <1>7. \E total \in Nat : Capped(h.values, total)
    BY <1>6
  <1>8. Retained(bounds, h.view, ents, h.values)
    BY <1>2, <1>3 DEF Retained
  <1>9. Consecutive /\ StandsBeyond /\ NothingLeft
    BY <1>1, <1>2, <1>3 DEF Consecutive, StandsBeyond, NothingLeft
  <1>10. QED
    BY <1>2, <1>3, <1>4, <1>5, <1>7, <1>8, <1>9 DEF IterInv

(* The invariant speaks of the handle, the batch and the walk only.        *)
LEMMA InvOfSame ==
  ASSUME IterInv, TypeOK', UNCHANGED <<bounds, h, ents, pos, done>>
  PROVE  IterInv'
  BY DEF IterInv, Consecutive, StandsBeyond, NothingLeft

(* Without a batch to serve, what a handle owes is nothing.                *)
LEMMA InvOfNone ==
  ASSUME TypeOK', HandleOk(bounds', h'), Len(h'.values) = 0, h'.count = 0,
         ents' = <<>>, pos' = 0, ~h'.pending, done' => ~h'.reset,
         ~h'.reset => Left(bounds', h') = {}
  PROVE  IterInv'
  <1>1. Len(ents') = 0
    BY EmptySeq
  <1>2. Capped(h'.values, 0)
    <2> DEFINE s == [i \in 0..0 |-> 0]
    <2>1. /\ s \in [0..0 -> Nat] /\ s[0] = 0
          /\ \A i \in 1..0 : s[i] = s[i - 1] + h'.values[i]
          /\ \A i \in 0..0 - 1 : s[i] < MaxBytes
      OBVIOUS
    <2> HIDE DEF s
    <2>2. QED
      BY <2>1 DEF Capped
  <1>3. \E total \in Nat : Capped(h'.values, total)
    BY <1>2
  <1>4. Retained(bounds', h'.view, ents', h'.values)
    BY <1>1 DEF Retained
  <1>5. Consecutive' /\ StandsBeyond' /\ NothingLeft'
    BY <1>1 DEF Consecutive, StandsBeyond, NothingLeft
  <1>6. QED
    BY <1>1, <1>3, <1>4, <1>5 DEF IterInv

(* A step of a call of Next without a refill.                              *)
LEMMA NextServedInv ==
  ASSUME IterInv, NextInBatch \/ NextExhausted, UNCHANGED <<bounds, live, closed>>
  PROVE  IterInv'
  <1>1. TypeOK /\ Consecutive /\ StandsBeyond /\ NothingLeft
    BY DEF IterInv
  <1>2. Len(ents) \in Nat /\ ents \in Seq(Keys) /\ pos \in 0..MaxEntries /\ Len(ents) <= MaxEntries
    BY <1>1 DEF TypeOK
  <1>3. CASE NextInBatch
    <2>1. pos + 1 < Len(ents) /\ pos' = pos + 1 /\ mark' = ents[pos + 2] /\ out' = "true"
          /\ UNCHANGED <<h, ents, done>>
      BY <1>3 DEF NextInBatch
    <2>2. pos + 2 \in 1..Len(ents) /\ pos' \in 0..MaxEntries
      BY <1>2, <2>1
    <2>3. mark' \in Keys
      BY <1>2, <2>1, <2>2, ElementOfSeq
    <2>4. mark' \in -1..MaxKey + 1
      BY <2>3 DEF Keys
    <2>5. TypeOK'
      BY <1>1, <2>1, <2>2, <2>4 DEF TypeOK, Outcomes
    <2>6. StandsBeyond' /\ NothingLeft' /\ Consecutive'
      BY <1>1, <1>2, <2>1 DEF StandsBeyond, NothingLeft, Consecutive
    <2>7. QED
      BY <2>1, <2>5, <2>6 DEF IterInv
  <1>4. CASE NextExhausted
    <2>1. done /\ pos' = Len(ents) /\ out' = "false" /\ UNCHANGED <<h, ents, done, mark>>
      BY <1>4 DEF NextExhausted
    <2>2. Len(ents) = 0 /\ pos = 0
      BY <1>1, <1>2, <2>1 DEF StandsBeyond, NothingLeft
    <2>3. TypeOK'
      BY <1>1, <1>2, <2>1, <2>2 DEF TypeOK, Outcomes
    <2>4. UNCHANGED <<bounds, h, ents, pos, done>>
      BY <2>1, <2>2
    <2>5. QED
      BY <2>3, <2>4, InvOfSame
  <1>5. QED
    BY <1>3, <1>4

(* What a refill of Next starts from: a failure pending or the keys left.  *)
LEMMA NextRefillPrepared ==
  ASSUME IterInv
  PROVE  /\ bounds \in Bounds /\ live \in ViewsOf(bounds) /\ live \in Views /\ closed \in BOOLEAN
         /\ h \in Handle /\ HandleOk(bounds, h) /\ mark \in -1..MaxKey + 1
         /\ h.pending => ~h.reset /\ ~OnEntry(bounds, h) /\ Len(ents) > 0
  <1>1. TypeOK /\ HandleOk(bounds, h) /\ StandsBeyond /\ NothingLeft
    BY DEF IterInv
  <1>2. Len(ents) \in Nat /\ live \in Views
    BY <1>1, SourceViews DEF TypeOK
  <1>3. QED
    BY <1>1, <1>2 DEF TypeOK, StandsBeyond, NothingLeft

(* A refill of Next.                                                       *)
LEMMA NextRefillServes ==
  ASSUME IterInv, NextRefill, UNCHANGED <<bounds, live, closed>>
  PROVE  /\ IterInv'
         /\ Refilled(Seen(bounds, h, live), Ahead(bounds, h, live))
         /\ h.pending => out' = "error"
  <1>1. Refill(h, done, mark) /\ done = FALSE
    BY DEF NextRefill, IterInv, TypeOK
  <1>2. Refill(h, FALSE, mark)
    BY <1>1
  <1>3. QED
    BY <1>2, NextRefillPrepared, RefillServes

(* The seek behind Seek: what it finds, and the batch it leads to.         *)
LEMMA SeekServes ==
  ASSUME IterInv, NEW t \in Keys, SeekTo(t), UNCHANGED <<bounds, live, closed>>
  PROVE  LET v == IF bounds.txn THEN live ELSE h.view
         IN  IterInv' /\ Refilled(v, FromOn(bounds, v, t))
  <1> DEFINE v == IF bounds.txn THEN live ELSE h.view
             A == FromOn(bounds, v, t)
             m == MarkBefore(t)
  <1>1. /\ bounds \in Bounds /\ live \in ViewsOf(bounds) /\ live \in Views /\ closed \in BOOLEAN
        /\ h \in Handle /\ HandleOk(bounds, h)
    BY NextRefillPrepared
  <1>2. m \in -1..MaxKey + 1
    <2>1. t \in 0..MaxKey
      BY DEF Keys
    <2>2. t + 1 \in -1..MaxKey + 1 /\ t - 1 \in -1..MaxKey + 1
      BY <2>1
    <2>3. m = t + 1 \/ m = t - 1
      BY DEF MarkBefore
    <2>4. QED
      BY <2>2, <2>3
  <1> HIDE DEF m
  <1>3. PICK fail \in BOOLEAN :
          LET a == SeekHandle(bounds, h, live, t, fail) IN
          \/ a.r = "more" /\ Refill(a.h, FALSE, m)
          \/ /\ a.r # "more"
             /\ h' = a.h
             /\ ents' = <<>> /\ pos' = 0 /\ done' = (a.r = "end")
             /\ out' = IF a.r = "end" THEN "false" ELSE "error"
             /\ mark' = m
    BY DEF SeekTo, m
  <1> DEFINE a == SeekHandle(bounds, h, live, t, fail)
             g == a.h
             s == Sought(h)
  <1>4. LandsOn(bounds, s, v, A, a)
    BY <1>1, SeekLands
  <1>5. /\ s.reset = FALSE /\ s.include = TRUE /\ Len(s.values) = 0 /\ s.count = 0
        /\ s.pending = FALSE
    <2>1. Len(<<>>) = 0
      BY EmptySeq
    <2>2. QED
      BY <1>1, <2>1 DEF Sought, Handle
  <1>6. \/ a.r = "more" /\ Refill(a.h, FALSE, m)
        \/ /\ a.r # "more"
           /\ h' = a.h
           /\ ents' = <<>> /\ pos' = 0 /\ done' = (a.r = "end")
           /\ out' = IF a.r = "end" THEN "false" ELSE "error"
           /\ mark' = m
    BY <1>3
  <1> HIDE DEF a, s, v, A
  <1>7. /\ g \in Handle /\ HandleOk(bounds, g) /\ g.view = v
        /\ g.reset = FALSE /\ g.include = TRUE /\ Len(g.values) = 0 /\ g.count = 0
        /\ g.pending = FALSE
        /\ a.r \in {"more", "end", "error"}
        /\ a.r = "more" => A # {} /\ g.cur = FirstOf(bounds, A) /\ OnEntry(bounds, g)
        /\ a.r # "more" => ~OnEntry(bounds, g)
        /\ a.r = "end" => A = {}
    BY <1>4, <1>5 DEF LandsOn, MovedIn
  <1>8. CASE a.r = "more"
    <2>1. Refill(g, FALSE, m)
      BY <1>6, <1>8
    <2> HIDE DEF g
    <2>2. IterInv' /\ Refilled(Seen(bounds, g, live), Ahead(bounds, g, live))
      BY <1>1, <1>2, <1>7, <2>1, RefillServes
    <2>3. Seen(bounds, g, live) = v /\ Ahead(bounds, g, live) = FromOn(bounds, v, g.cur)
      BY <1>7, <1>8 DEF Seen, Ahead, Left
    <2>4. FromOn(bounds, v, g.cur) = A
      <3>1. v \in Views /\ g.cur \in A /\ \A j \in A : IF bounds.reverse THEN g.cur >= j ELSE g.cur <= j
        <4>1. v \in Views
          BY <1>7 DEF Handle
        <4>2. A \subseteq Keys
          BY <4>1, RangeKeys DEF A
        <4>3. QED
          BY <1>1, <1>7, <1>8, <4>1, <4>2, FirstOfIs
      <3>2. g.cur \in InRange(bounds, v) /\ IF bounds.reverse THEN g.cur <= t ELSE g.cur >= t
        BY <3>1 DEF A, FromOn
      <3>3. InRange(bounds, v) \subseteq 0..MaxKey /\ t \in 0..MaxKey
        BY <3>1, RangeKeys DEF Keys
      <3>4. \A j \in InRange(bounds, v) :
              (IF bounds.reverse THEN j <= g.cur ELSE j >= g.cur) <=> j \in A
        <4> TAKE j \in InRange(bounds, v)
        <4>1. j \in A <=> IF bounds.reverse THEN j <= t ELSE j >= t
          BY DEF A, FromOn
        <4>2. j \in A => IF bounds.reverse THEN g.cur >= j ELSE g.cur <= j
          BY <3>1
        <4>3. j \in 0..MaxKey /\ g.cur \in 0..MaxKey
          BY <3>2, <3>3
        <4>4. QED
          BY <3>2, <3>3, <4>1, <4>2, <4>3
      <3>5. A \subseteq InRange(bounds, v)
        BY DEF A, FromOn
      <3>6. QED
        BY <3>4, <3>5 DEF FromOn
    <2>5. QED
      BY <2>2, <2>3, <2>4 DEF v, A
  <1>9. CASE a.r # "more"
    <2>1. /\ h' = g /\ ents' = <<>> /\ pos' = 0 /\ done' = (a.r = "end")
          /\ out' = IF a.r = "end" THEN "false" ELSE "error"
          /\ mark' = m
      BY <1>6, <1>9
    <2> HIDE DEF g
    <2>2. Len(ents') = 0 /\ ents' \in Seq(Keys) /\ 0 \in 0..MaxEntries /\ 0 <= MaxEntries
      <3>1. 0 \in 0..MaxEntries /\ 0 <= MaxEntries
        OBVIOUS
      <3>2. QED
        BY <2>1, <3>1, EmptySeq
    <2>3. TypeOK'
      BY <1>1, <1>2, <1>7, <2>1, <2>2 DEF TypeOK, Outcomes
    <2>4. Left(bounds, g) = {} /\ ~g.reset
      BY <1>7, <1>9 DEF Left
    <2>5. IterInv'
      BY <1>7, <2>1, <2>3, <2>4, InvOfNone
    <2>6. Refilled(v, A)
      <3>1. CASE a.r = "end"
        BY <1>7, <2>1, <2>2, <3>1 DEF Refilled
      <3>2. CASE a.r = "error"
        BY <1>7, <2>1, <2>2, <3>2 DEF Refilled
      <3>3. QED
        BY <1>7, <1>9, <3>1, <3>2
    <2>7. QED
      BY <2>5, <2>6 DEF v, A
  <1>10. QED
    BY <1>8, <1>9

(* Reset leaves no batch, and a handle that waits to start.                *)
LEMMA ResetInv ==
  ASSUME IterInv, CallReset
  PROVE  IterInv' /\ h'.view = h.view /\ h'.reset
  <1>1. /\ h' = ResetHandle(h) /\ ents' = <<>> /\ pos' = 0 /\ done' = FALSE
        /\ out' = "none" /\ mark' = MarkStart /\ UNCHANGED <<bounds, live, closed>>
    BY DEF CallReset
  <1>2. /\ bounds \in Bounds /\ live \in ViewsOf(bounds) /\ closed \in BOOLEAN
        /\ h \in Handle /\ HandleOk(bounds, h)
    BY NextRefillPrepared
  <1>3. /\ h' \in Handle /\ h'.view = h.view /\ h'.reset = TRUE /\ h'.pending = FALSE
        /\ h'.count = 0 /\ Len(h'.values) = 0 /\ h'.cur = h.cur /\ h'.rest = h.rest
    <2>1. <<>> \in Seq(Values) /\ 0 \in 0..MaxEntries /\ Len(<<>>) = 0
      BY EmptySeq
    <2>2. QED
      BY <1>1, <1>2, <2>1 DEF ResetHandle, Invalidated, Handle
  <1>4. HandleOk(bounds', h')
    BY <1>1, <1>2, <1>3 DEF HandleOk
  <1>5. mark' \in -1..MaxKey + 1
    <2>1. -1 \in -1..MaxKey + 1 /\ MaxKey + 1 \in -1..MaxKey + 1
      OBVIOUS
    <2>2. mark' = MaxKey + 1 \/ mark' = -1
      BY <1>1 DEF MarkStart
    <2>3. QED
      BY <2>1, <2>2
  <1>6. TypeOK'
    <2>1. 0 \in 0..MaxEntries /\ 0 <= MaxEntries
      OBVIOUS
    <2>2. ents' \in Seq(Keys) /\ Len(ents') = 0
      BY <1>1, EmptySeq
    <2>3. QED
      BY <1>1, <1>2, <1>3, <1>5, <2>1, <2>2 DEF TypeOK, Outcomes
  <1>7. IterInv'
    BY <1>1, <1>3, <1>4, <1>6, InvOfNone
  <1>8. QED
    BY <1>3, <1>7

(* Every step keeps the invariant.                                         *)
LEMMA NextInv == IterInv /\ [Next]_vars => IterInv'
  <1> SUFFICES ASSUME IterInv, [Next]_vars PROVE IterInv'
    OBVIOUS
  <1>1. TypeOK
    BY DEF IterInv
  <1>2. ASSUME Refuse, UNCHANGED <<bounds, live, closed>>
        PROVE  IterInv'
    <2>1. TypeOK' /\ UNCHANGED <<bounds, h, ents, pos, done>>
      BY <1>1, <1>2 DEF Refuse, goVars, TypeOK, Outcomes
    <2>2. QED
      BY <2>1, InvOfSame
  <1>3. CASE CallNext
    <2>1. UNCHANGED <<bounds, live, closed>>
      BY <1>3 DEF CallNext
    <2>2. Refuse \/ (NextInBatch \/ NextExhausted) \/ NextRefill
      BY <1>3 DEF CallNext
    <2>3. QED
      BY <1>2, <2>1, <2>2, NextServedInv, NextRefillServes
  <1>4. CASE CallSeek
    <2>1. PICK t \in Keys : /\ IF closed THEN Refuse ELSE SeekTo(t)
                            /\ UNCHANGED <<bounds, live, closed>>
      BY <1>4 DEF CallSeek
    <2>2. CASE Refuse
      BY <1>2, <2>1, <2>2
    <2>3. CASE SeekTo(t)
      BY <2>1, <2>3, SeekServes
    <2>4. QED
      BY <2>1, <2>2, <2>3
  <1>5. CASE CallReset
    BY <1>5, ResetInv
  <1>6. CASE WriteInTxn
    <2>1. live' \in ViewsOf(bounds)
      BY <1>1, <1>6, WrittenViews DEF WriteInTxn, TypeOK
    <2>2. TypeOK' /\ UNCHANGED <<bounds, h, ents, pos, done>>
      BY <1>1, <1>6, <2>1 DEF WriteInTxn, TypeOK, goVars
    <2>3. QED
      BY <2>2, InvOfSame
  <1>7. CASE CloseStore
    <2>1. TypeOK' /\ UNCHANGED <<bounds, h, ents, pos, done>>
      BY <1>1, <1>7 DEF CloseStore, TypeOK, goVars
    <2>2. QED
      BY <2>1, InvOfSame
  <1>8. CASE UNCHANGED vars
    <2>1. TypeOK' /\ UNCHANGED <<bounds, h, ents, pos, done>>
      BY <1>1, <1>8 DEF vars, TypeOK, goVars
    <2>2. QED
      BY <2>1, InvOfSame
  <1>9. QED
    BY <1>3, <1>4, <1>5, <1>6, <1>7, <1>8 DEF Next

(* The iterator is always in a state the invariant describes.              *)
THEOREM IterInvariant == Spec => []IterInv
  BY InitInv, NextInv, PTL DEF Spec

(* Types: what the two halves hold, how far Go is in a batch, and how many *)
(* entries it may hold.                                                    *)
THEOREM IterTypeCorrect == Spec => []TypeOK
  <1>1. IterInv => TypeOK
    BY DEF IterInv
  <1>2. QED
    BY <1>1, IterInvariant, PTL

(* In a state of the invariant the two halves hold the same batch.         *)
LEMMA InvAgrees == IterInv => BatchAgrees
  <1> SUFFICES ASSUME IterInv PROVE BatchAgrees
    OBVIOUS
  <1>1. /\ TypeOK /\ h.count = Len(ents) /\ Retained(bounds, h.view, ents, h.values)
    BY DEF IterInv
  <1>2. Len(ents) \in Nat /\ pos \in Nat /\ bounds.keysOnly \in BOOLEAN
    BY <1>1 DEF TypeOK, Bounds
  <1>3. Positioned => CurrentValue = IF bounds.keysOnly THEN -1 ELSE h.view[CurrentKey]
    <2> SUFFICES ASSUME Positioned
                 PROVE  CurrentValue = IF bounds.keysOnly THEN -1 ELSE h.view[CurrentKey]
      OBVIOUS
    <2>1. pos < Len(ents) /\ pos + 1 \in 1..Len(ents)
      BY <1>2 DEF Positioned
    <2>2. CASE bounds.keysOnly
      BY <2>2 DEF CurrentValue
    <2>3. CASE ~bounds.keysOnly
      <3>1. Len(h.values) = Len(ents) /\ h.values[pos + 1] = h.view[ents[pos + 1]]
        BY <1>1, <2>1, <2>3 DEF Retained
      <3>2. ~(pos >= h.count) /\ pos < Len(h.values)
        BY <1>1, <1>2, <2>1, <3>1
      <3>3. QED
        BY <2>3, <3>1, <3>2 DEF CurrentValue, CurrentKey, BatchValue
    <2>4. QED
      BY <1>2, <2>2, <2>3
  <1>4. QED
    BY <1>1, <1>3 DEF BatchAgrees, Retained

(* Every key Go can hand out has its own value on the other side of the    *)
(* boundary, and nothing else is retained there (iter.go:73-111, 203-232). *)
THEOREM HalvesAgree == Spec => []BatchAgrees
  BY InvAgrees, IterInvariant, PTL

(* The sums of a capped sequence of values.                                *)
LEMMA CappedSums ==
  ASSUME NEW values \in Seq(Nat), NEW total, Capped(values, total)
  PROVE  LET bytes[i \in 0..Len(values)] == IF i = 0 THEN 0 ELSE bytes[i - 1] + values[i]
         IN  \A i \in 0..Len(values) - 1 : bytes[i] < MaxBytes
  <1> DEFINE L == Len(values)
             Body(f) == [i \in 0..L |-> IF i = 0 THEN 0 ELSE f[i - 1] + values[i]]
             bytes == CHOOSE f : f = Body(f)
  <1>1. PICK s \in [0..L -> Nat] :
          /\ s[0] = 0
          /\ \A i \in 1..L : s[i] = s[i - 1] + values[i]
          /\ \A i \in 0..L - 1 : s[i] < MaxBytes
    BY DEF Capped
  <1>2. L \in Nat
    OBVIOUS
  <1>3. s = Body(s)
    <2> HIDE DEF L
    <2>1. \A i \in 0..L : s[i] = IF i = 0 THEN 0 ELSE s[i - 1] + values[i]
      BY <1>1, <1>2
    <2>2. QED
      BY <2>1
  <1>4. bytes = Body(bytes)
    BY <1>3
  <1> HIDE DEF bytes
  <1> DEFINE S == {n \in Nat : n <= L => bytes[n] = s[n]}
  <1>5. Nat \subseteq S
    <2>1. bytes[0] = 0 /\ \A n \in 1..L : bytes[n] = bytes[n - 1] + values[n]
      <3>1. 0 \in 0..L /\ \A n \in 1..L : n \in 0..L /\ n # 0
        BY <1>2
      <3> HIDE DEF L
      <3>2. QED
        BY <1>4, <3>1
    <2>2. 0 \in S
      BY <1>1, <2>1
    <2>3. ASSUME NEW n \in Nat, n \in S
          PROVE  n + 1 \in S
      <3> SUFFICES ASSUME n + 1 <= L PROVE bytes[n + 1] = s[n + 1]
        OBVIOUS
      <3>1. n + 1 \in 1..L /\ n + 1 - 1 = n /\ bytes[n] = s[n]
        BY <1>2, <2>3
      <3>2. QED
        BY <1>1, <2>1, <3>1
    <2> HIDE DEF S
    <2>4. QED
      BY <2>2, <2>3, Induction
  <1>6. \A i \in 0..L - 1 : bytes[i] < MaxBytes
    <2>1. \A i \in 0..L - 1 : i \in Nat /\ i <= L
      BY <1>2
    <2>2. QED
      BY <1>1, <1>5, <2>1
  <1>7. QED
    BY <1>6 DEF bytes

(* The values a batch pins stay below the byte cap, save for the one that  *)
(* reached it (ffi/src/iter.rs:62, 717-752).                               *)
THEOREM PinnedStaysBounded == Spec => []PinnedBounded
  <1>1. IterInv => PinnedBounded
    <2> SUFFICES ASSUME IterInv PROVE PinnedBounded
      OBVIOUS
    <2>1. h.values \in Seq(Nat)
      BY SeqMonotonic DEF IterInv, TypeOK, Handle
    <2>2. PICK total \in Nat : Capped(h.values, total)
      BY DEF IterInv
    <2>3. QED
      BY <2>1, <2>2, CappedSums DEF PinnedBounded
  <1>2. QED
    BY <1>1, IterInvariant, PTL

(* A failure held back by a batch is answered by the next refill, unless a *)
(* Seek or a Reset abandons the walk (ffi/src/iter.rs:702-715).            *)
THEOREM HeldErrorIsReported == Spec => HeldErrorReported
  <1>1. IterInv /\ [Next]_vars =>
          [h.pending /\ ~h'.pending => out' = "error" \/ CallSeek \/ CallReset]_vars
    <2> SUFFICES ASSUME IterInv, Next, h.pending, ~h'.pending, ~CallSeek, ~CallReset
                 PROVE  out' = "error"
      OBVIOUS
    <2>1. h' # h
      OBVIOUS
    <2>2. CallNext /\ UNCHANGED <<bounds, live, closed>>
      BY <2>1 DEF Next, WriteInTxn, CloseStore, CallNext
    <2>3. NextRefill
      BY <2>1, <2>2 DEF CallNext, Refuse, NextInBatch, NextExhausted
    <2>4. QED
      BY <2>2, <2>3, NextRefillServes
  <1>2. QED
    BY <1>1, IterInvariant, PTL DEF Spec, HeldErrorReported
-----------------------------------------------------------------------------
(* An iterator is a Cursor.                                                *)

(* What the cursor stands on, and shows, in terms of the iterator.         *)
At == IF Positioned THEN CurrentKey ELSE IF done THEN -2 ELSE IF h.reset THEN -1 ELSE -3

Shown == IF Positioned THEN <<CurrentKey, CurrentValue>> ELSE <<>>

(* The range of a cursor is that of an iterator.                           *)
LEMMA SameRange ==
  ASSUME NEW b, NEW v, NEW k
  PROVE  /\ C!InRange(b, v) = InRange(b, v)
         /\ C!Beyond(b, v, k) = Beyond(b, v, k)
         /\ C!FromOn(b, v, k) = FromOn(b, v, k)
  BY DEF C!InRange, C!Beyond, C!FromOn, C!Contains, C!NoBound,
         InRange, Beyond, FromOn, Contains, NoBound

(* And so is the first of a set of keys.                                   *)
LEMMA SameFirst ==
  ASSUME NEW b, NEW S
  PROVE  C!FirstOf(b, S) = FirstOf(b, S)
  BY DEF C!FirstOf, C!Smallest, C!Largest, C!NoKey, FirstOf, Smallest, Largest, NoKey

(* In the next state of a step too, the halves agree.                      *)
LEMMA NextAgrees == IterInv' => BatchAgrees'
  BY InvAgrees, PTL

(* A refill lands the cursor on what is ahead, or fails.                   *)
LEMMA RefilledLands ==
  ASSUME IterInv', bounds' = bounds, NEW v, NEW A, Refilled(v, A)
  PROVE  C!Land(v, A) \/ C!Fail(v)
  <1>1. h'.view = v /\ ~h'.reset /\ pos' = 0
    BY DEF Refilled
  <1>2. CASE Len(ents') > 0 /\ A # {} /\ ents'[1] = FirstOf(bounds, A) /\ ~done' /\ out' = "true"
    <2> DEFINE k == ents'[1]
    <2>1. Positioned' /\ CurrentKey' = k
      BY <1>1, <1>2 DEF Positioned, CurrentKey
    <2>2. CurrentValue' = IF bounds.keysOnly THEN -1 ELSE v[k]
      BY <1>1, <2>1, NextAgrees DEF BatchAgrees
    <2>3. At' = k /\ Shown' = <<k, IF bounds.keysOnly THEN -1 ELSE v[k]>>
      BY <2>1, <2>2 DEF At, Shown
    <2>4. k = C!FirstOf(bounds, A)
      BY <1>2, SameFirst
    <2>5. QED
      BY <1>1, <1>2, <2>3, <2>4 DEF C!Land, C!Entry, C!Nil, At, Shown
  <1>3. CASE Len(ents') = 0 /\ A = {} /\ done' /\ out' = "false"
    <2>1. ~Positioned'
      BY <1>1, <1>3 DEF Positioned
    <2>2. At' = -2 /\ Shown' = <<>>
      BY <1>3, <2>1 DEF At, Shown
    <2>3. QED
      BY <1>1, <1>3, <2>2 DEF C!Land, C!AtEnd, C!NoEntry, At, Shown
  <1>4. CASE Len(ents') = 0 /\ ~done' /\ out' = "error"
    <2>1. ~Positioned'
      BY <1>1, <1>4 DEF Positioned
    <2>2. At' = -3 /\ Shown' = <<>>
      BY <1>1, <1>4, <2>1 DEF At, Shown
    <2>3. QED
      BY <1>1, <1>4, <2>2 DEF C!Fail, C!AtFailure, C!NoEntry, At, Shown
  <1>5. QED
    BY <1>2, <1>3, <1>4 DEF Refilled

(* A new iterator is a cursor before its first entry.                      *)
LEMMA InitRefines == Init => C!Init
  <1> SUFFICES ASSUME Init PROVE C!Init
    OBVIOUS
  <1>1. /\ h = NewHandle(live) /\ ents = <<>> /\ pos = 0 /\ done = FALSE
        /\ bounds \in Bounds /\ live \in ViewsOf(bounds) /\ closed = FALSE /\ out = "none"
    BY DEF Init
  <1>2. h.view = live /\ h.reset = TRUE
    BY <1>1 DEF NewHandle
  <1>3. ~Positioned
    BY <1>1, EmptySeq DEF Positioned
  <1>4. At = -1 /\ Shown = <<>>
    BY <1>1, <1>2, <1>3 DEF At, Shown
  <1>5. bounds \in C!Bounds /\ live \in C!ViewsOf(bounds)
    BY <1>1 DEF C!Bounds, Bounds, C!ViewsOf, ViewsOf, C!Views, Views, C!Keys, Keys
  <1>6. QED
    BY <1>1, <1>2, <1>4, <1>5 DEF C!Init, C!AtStart, C!NoEntry, At, Shown

(* What no part of a cursor depends on may change.                         *)
LEMMA CursorKept ==
  ASSUME UNCHANGED <<bounds, h, ents, pos, done>>
  PROVE  h'.view = h.view /\ At' = At /\ Shown' = Shown
  BY DEF At, Shown, Positioned, CurrentKey, CurrentValue, BatchValue

(* A call of Next is an advance of the cursor.                             *)
LEMMA NextRefines ==
  ASSUME IterInv, IterInv', NextInBatch \/ NextExhausted \/ NextRefill,
         UNCHANGED <<bounds, live, closed>>
  PROVE  C!Advance
  <1>1. TypeOK /\ Consecutive /\ StandsBeyond /\ NothingLeft
    BY DEF IterInv
  <1>2. Len(ents) \in Nat /\ ents \in Seq(Keys) /\ pos \in Nat /\ bounds \in Bounds
    BY <1>1 DEF TypeOK
  <1>3. Positioned => At = ents[pos + 1] /\ At \in Keys /\ At \in C!Keys
    <2> SUFFICES ASSUME Positioned PROVE At = ents[pos + 1] /\ At \in Keys /\ At \in C!Keys
      OBVIOUS
    <2>1. pos + 1 \in 1..Len(ents)
      BY <1>2 DEF Positioned
    <2>2. ents[pos + 1] \in Keys
      BY <1>2, <2>1, ElementOfSeq
    <2>3. QED
      BY <2>2 DEF At, CurrentKey, Keys, C!Keys
  <1>4. CASE NextInBatch
    <2>1. pos + 1 < Len(ents) /\ pos' = pos + 1 /\ out' = "true" /\ UNCHANGED <<h, ents, done>>
      BY <1>4 DEF NextInBatch
    <2> DEFINE k == ents[pos + 1]
               n == ents[pos + 2]
               B == Beyond(bounds, h.view, k)
    <2>2. B # {} /\ n = FirstOf(bounds, B)
      <3>1. pos + 1 \in 1..Len(ents) - 1 /\ pos + 1 + 1 = pos + 2
        BY <1>2, <2>1
      <3>2. QED
        BY <1>1, <3>1 DEF Consecutive
    <2>3. Positioned /\ Positioned' /\ CurrentKey' = n
      BY <1>2, <2>1 DEF Positioned, CurrentKey
    <2>4. CurrentValue' = IF bounds.keysOnly THEN -1 ELSE h.view[n]
      BY <2>1, <2>3, NextAgrees DEF BatchAgrees
    <2>5. At' = n /\ Shown' = <<n, IF bounds.keysOnly THEN -1 ELSE h.view[n]>>
      BY <2>3, <2>4 DEF At, Shown
    <2>6. At \in C!Keys /\ C!Beyond(bounds, h.view, At) = B /\ C!FirstOf(bounds, B) = n
      BY <1>3, <2>2, <2>3, SameRange, SameFirst
    <2> HIDE DEF B, n
    <2>7. C!Land(h.view, B)
      BY <2>1, <2>2, <2>5, <2>6 DEF C!Land, C!Entry, C!Nil, At, Shown
    <2>8. QED
      BY <2>6, <2>7 DEF C!Advance, At
  <1>5. CASE NextExhausted
    <2>1. done /\ pos' = Len(ents) /\ out' = "false" /\ UNCHANGED <<h, ents, done>>
      BY <1>5 DEF NextExhausted
    <2>2. Len(ents) = 0 /\ pos = 0
      BY <1>1, <1>2, <2>1 DEF StandsBeyond, NothingLeft
    <2>3. ~Positioned /\ ~Positioned'
      BY <2>1, <2>2 DEF Positioned
    <2>4. At = -2 /\ At' = -2 /\ Shown' = <<>>
      BY <2>1, <2>3 DEF At, Shown
    <2>5. C!Land(h.view, {})
      BY <2>1, <2>4 DEF C!Land, C!AtEnd, C!NoEntry, At, Shown
    <2>6. QED
      BY <2>4, <2>5 DEF C!Advance, C!AtEnd, At
  <1>6. CASE NextRefill
    <2> DEFINE v == Seen(bounds, h, live)
               A == Ahead(bounds, h, live)
    <2>1. Refilled(v, A) /\ pos + 1 >= Len(ents) /\ ~done
      BY <1>6, NextRefillServes DEF NextRefill
    <2> HIDE DEF v, A
    <2>2. C!Land(v, A) \/ C!Fail(v)
      BY <2>1, RefilledLands
    <2>3. CASE h.pending
      <3>1. Len(ents) > 0 /\ ~h.reset /\ out' = "error"
        BY <1>6, <2>3, NextRefillPrepared, NextRefillServes
      <3>2. Positioned /\ v = h.view
        BY <1>1, <3>1 DEF StandsBeyond, Positioned, v, Seen
      <3>3. ~C!Land(v, A)
        BY <3>1 DEF C!Land
      <3>4. C!Fail(h.view) /\ At \in C!Keys
        BY <1>3, <2>2, <3>2, <3>3
      <3>5. QED
        BY <3>4 DEF C!Advance, At
    <2>4. CASE ~h.pending /\ Len(ents) > 0
      <3>1. Positioned /\ ~h.reset /\ Left(bounds, h) = Beyond(bounds, h.view, ents[Len(ents)])
        BY <1>1, <2>4 DEF StandsBeyond, Positioned
      <3>2. pos + 1 = Len(ents)
        BY <1>2, <2>1, <3>1 DEF Positioned
      <3>3. v = h.view /\ A = Beyond(bounds, h.view, At)
        BY <1>3, <3>1, <3>2 DEF v, A, Seen, Ahead
      <3>4. A = C!Beyond(bounds, h.view, At) /\ At \in C!Keys
        BY <1>3, <3>1, <3>3, SameRange
      <3>5. QED
        BY <2>2, <3>3, <3>4 DEF C!Advance, At
    <2>5. CASE Len(ents) = 0
      <3>1. ~Positioned /\ (~h.reset => Left(bounds, h) = {})
        BY <1>1, <2>5 DEF NothingLeft, Positioned
      <3>2. CASE h.reset
        <4>1. At = -1
          BY <2>1, <3>1, <3>2 DEF At
        <4>2. v = C!Sampled /\ A = C!InRange(bounds, v)
          BY <3>2, SameRange DEF v, A, Seen, Ahead, C!Sampled
        <4>3. QED
          BY <2>2, <4>1, <4>2 DEF C!Advance, C!AtStart, At
      <3>3. CASE ~h.reset
        <4>1. At = -3
          BY <2>1, <3>1, <3>3 DEF At
        <4>2. v = h.view /\ A = {}
          BY <3>1, <3>3 DEF v, A, Seen, Ahead
        <4>3. QED
          BY <2>2, <4>1, <4>2 DEF C!Advance, C!AtFailure, At
      <3>4. QED
        BY <3>2, <3>3
    <2>6. QED
      BY <1>2, <2>3, <2>4, <2>5
  <1>7. QED
    BY <1>4, <1>5, <1>6

(* A call refused on a closed store leaves the cursor where it is.         *)
LEMMA RefuseRefines ==
  ASSUME Refuse, UNCHANGED bounds
  PROVE  C!Refuse
  <1>1. UNCHANGED <<bounds, h, ents, pos, done>> /\ out' = "closed"
    BY DEF Refuse, goVars
  <1>2. h'.view = h.view /\ At' = At /\ Shown' = Shown
    BY <1>1, CursorKept
  <1>3. QED
    BY <1>1, <1>2 DEF C!Refuse, At, Shown

(* Every step of an iterator is a step of a cursor, or changes nothing.    *)
LEMMA StepRefines == IterInv /\ IterInv' /\ [Next]_vars => [C!Next]_(C!curVars)
  <1> SUFFICES ASSUME IterInv, IterInv', [Next]_vars PROVE C!Next \/ UNCHANGED C!curVars
    OBVIOUS
  <1>1. CASE CallNext
    <2>1. UNCHANGED <<bounds, live, closed>>
      BY <1>1 DEF CallNext
    <2>2. IF closed THEN C!Refuse ELSE C!Advance
      BY <1>1, <2>1, NextRefines, RefuseRefines DEF CallNext
    <2>3. QED
      BY <2>1, <2>2 DEF C!Next, C!CallNext
  <1>2. CASE CallSeek
    <2>1. PICK t \in Keys : /\ IF closed THEN Refuse ELSE SeekTo(t)
                            /\ UNCHANGED <<bounds, live, closed>>
      BY <1>2 DEF CallSeek
    <2>2. CASE closed
      <3>1. C!Refuse
        BY <2>1, <2>2, RefuseRefines
      <3>2. t \in C!Keys
        BY DEF Keys, C!Keys
      <3>3. QED
        BY <2>1, <2>2, <3>1, <3>2 DEF C!Next, C!Seek
    <2>3. CASE ~closed
      <3> DEFINE v == IF bounds.txn THEN live ELSE h.view
                 A == FromOn(bounds, v, t)
      <3>1. Refilled(v, A)
        BY <2>1, <2>3, SeekServes
      <3>2. v = C!Sampled /\ A = C!FromOn(bounds, v, t) /\ t \in C!Keys
        BY SameRange DEF C!Sampled, Keys, C!Keys
      <3> HIDE DEF v, A
      <3>3. C!Land(v, A) \/ C!Fail(v)
        BY <2>1, <3>1, RefilledLands
      <3>4. QED
        BY <2>1, <2>3, <3>2, <3>3 DEF C!Next, C!Seek
    <2>4. QED
      BY <2>2, <2>3
  <1>3. CASE CallReset
    <2>1. /\ ents' = <<>> /\ pos' = 0 /\ done' = FALSE /\ out' = "none"
          /\ UNCHANGED <<bounds, live, closed>> /\ h'.view = h.view /\ h'.reset
      BY <1>3, ResetInv DEF CallReset
    <2>2. ~Positioned'
      BY <2>1, EmptySeq DEF Positioned
    <2>3. At' = -1 /\ Shown' = <<>>
      BY <2>1, <2>2 DEF At, Shown
    <2>4. QED
      BY <2>1, <2>3 DEF C!Next, C!Reset, C!AtStart, C!NoEntry, At, Shown
  <1>4. CASE WriteInTxn
    <2>1. bounds.txn /\ UNCHANGED <<bounds, closed, h, ents, pos, done, out>>
      BY <1>4 DEF WriteInTxn, goVars
    <2>2. live' \in C!ViewsOf(bounds)
      <3>1. live' \in ViewsOf(bounds)
        BY <1>4, WrittenViews DEF WriteInTxn, IterInv, TypeOK
      <3>2. QED
        BY <3>1 DEF C!ViewsOf, ViewsOf, C!Views, Views, C!Keys, Keys
    <2>3. h'.view = h.view /\ At' = At /\ Shown' = Shown
      BY <2>1, CursorKept
    <2>4. QED
      BY <2>1, <2>2, <2>3 DEF C!Next, C!Environment, At, Shown
  <1>5. CASE CloseStore
    <2>1. closed' = TRUE /\ UNCHANGED <<bounds, live, h, ents, pos, done, out>>
      BY <1>5 DEF CloseStore, goVars
    <2>2. h'.view = h.view /\ At' = At /\ Shown' = Shown
      BY <2>1, CursorKept
    <2>3. QED
      BY <2>1, <2>2 DEF C!Next, C!Environment, At, Shown
  <1>6. CASE UNCHANGED vars
    <2>1. UNCHANGED <<bounds, live, closed, h, ents, pos, done, out>>
      BY <1>6 DEF vars, goVars
    <2>2. h'.view = h.view /\ At' = At /\ Shown' = Shown
      BY <2>1, CursorKept
    <2>3. QED
      BY <2>1, <2>2 DEF C!curVars, At, Shown
  <1>7. QED
    BY <1>1, <1>2, <1>3, <1>4, <1>5, <1>6 DEF Next

(* An iterator is a cursor: its batches, the cursor it keeps a batch ahead *)
(* on the other side of the boundary, failures held back, and the flags    *)
(* between seeks and advances never show (iter.go:113-249).                *)
THEOREM IteratorIsCursor == Spec => IsCursor
  <1>1. Spec => []IterInv
    BY IterInvariant
  <1>2. QED
    BY <1>1, InitRefines, StepRefines, PTL DEF Spec, IsCursor, C!Spec
=============================================================================
