--------------------------- MODULE BoundaryProofs ---------------------------
(***************************************************************************)
(* Of ranges and the boundary, for every alphabet, key, frame and order of *)
(* calls: that the range from a prefix to its end holds the keys that      *)
(* begin with it, that the range walked is the range asked for, that       *)
(* nothing is leaked, released twice or read after its release, and that   *)
(* errors and batches of keys arrive as they were sent.                    *)
(***************************************************************************)
EXTENDS Boundary, WellFoundedInduction, TLAPS

(* A non-empty set of naturals has a least element.                        *)
LEMMA LeastNat ==
  ASSUME NEW T \in SUBSET Nat, T # {}
  PROVE  \E x \in T : \A y \in T : x <= y
  <1> DEFINE Below == {ss \in Nat \X Nat : ss[1] < ss[2]}
  <1>1. IsWellFoundedOn(Below, Nat)
    BY NatLessThanWellFounded DEF OpToRel
  <1>2. PICK x \in T : \A y \in T : ~(<<y, x>> \in Below)
    <2> HIDE DEF Below
    <2>1. QED
      BY <1>1, WFMin
  <1>3. \A y \in T : ~(y < x)
    BY <1>2
  <1>4. QED
    BY <1>3

(* A byte lies between zero and TopByte.                                   *)
LEMMA ByteBounds ==
  ASSUME NEW p \in ByteStrings, NEW i \in 1..Len(p)
  PROVE  p[i] \in Int /\ 0 <= p[i] /\ p[i] <= TopByte
  BY BaseAssumption DEF ByteStrings, Bytes, TopByte

(* A key with prefix p is not below p: where it would have to be smaller,  *)
(* it agrees with p.                                                       *)
LEMMA PrefixedNotBelow ==
  ASSUME NEW p \in ByteStrings, NEW k \in ByteStrings, StartsWith(k, p)
  PROVE  ~Less(k, p)
  <1>1. SUFFICES ASSUME NEW n \in 0..Len(k), n < Len(p),
                        n < Len(k) => k[n + 1] < p[n + 1]
                 PROVE  FALSE
    BY DEF Less
  <1>2. Len(p) \in Nat /\ Len(k) \in Nat
    BY DEF ByteStrings
  <1>3. n + 1 \in 1..Len(p)
    BY <1>1, <1>2
  <1>4. Len(p) <= Len(k) /\ k[n + 1] = p[n + 1]
    BY <1>3 DEF StartsWith
  <1>5. p[n + 1] \in Int
    BY <1>3, ByteBounds
  <1>6. QED
    BY <1>1, <1>2, <1>4, <1>5

(* The shape of an end: a byte of p incremented, TopBytes after it dropped. *)
LEMMA EndShape ==
  ASSUME NEW p \in ByteStrings, NEW e \in PrefixEnd(p)
  PROVE  \E m \in 1..Len(p) :
           /\ Len(e) = m
           /\ \A i \in 1..m - 1 : e[i] = p[i]
           /\ e[m] = p[m] + 1
           /\ \A i \in m + 1..Len(p) : p[i] = TopByte
  <1>1. PICK m \in LastBelowTop(p) : e = [i \in 1..m |-> IF i = m THEN p[i] + 1 ELSE p[i]]
    BY DEF PrefixEnd
  <1>2. m \in 1..Len(p) /\ \A i \in m + 1..Len(p) : p[i] = TopByte
    BY DEF LastBelowTop
  <1>3. Len(p) \in Nat
    BY DEF ByteStrings
  <1>4. e \in Seq(Int)
    <2>1. \A i \in 1..m : e[i] \in Int
      BY <1>1, <1>2, <1>3, ByteBounds
    <2>2. QED
      BY <1>1, <1>2, <1>3, <2>1
  <1>5. Len(e) = m
    BY <1>1, <1>2, <1>3, <1>4
  <1>6. m \in 1..m /\ \A i \in 1..m - 1 : i \in 1..m /\ i # m
    BY <1>2, <1>3
  <1>7. e[m] = p[m] + 1 /\ \A i \in 1..m - 1 : e[i] = p[i]
    BY <1>1, <1>6
  <1>8. QED
    BY <1>2, <1>5, <1>7

(* A key with prefix p is below every end of p: it agrees with the end up  *)
(* to the incremented byte.                                                *)
LEMMA PrefixedBelowEnd ==
  ASSUME NEW p \in ByteStrings, NEW k \in ByteStrings, StartsWith(k, p),
         NEW e \in PrefixEnd(p)
  PROVE  Less(k, e)
  <1>1. PICK m \in 1..Len(p) : /\ Len(e) = m
                               /\ \A i \in 1..m - 1 : e[i] = p[i]
                               /\ e[m] = p[m] + 1
    BY EndShape
  <1>2. Len(p) \in Nat /\ Len(k) \in Nat /\ Len(p) <= Len(k)
    BY DEF ByteStrings, StartsWith
  <1>3. m - 1 \in 0..Len(k) /\ m - 1 < Len(e)
    BY <1>1, <1>2
  <1>4. \A i \in 1..m - 1 : k[i] = e[i]
    BY <1>1, <1>2 DEF StartsWith
  <1>5. k[m] < e[m]
    <2>1. k[m] = p[m] /\ p[m] \in Int
      BY <1>1, ByteBounds DEF StartsWith
    <2>2. QED
      BY <1>1, <2>1
  <1>6. k[(m - 1) + 1] < e[(m - 1) + 1]
    BY <1>1, <1>2, <1>5
  <1>7. QED
    BY <1>3, <1>4, <1>6 DEF Less

(* A key not below p that agrees with p up to a tail of TopBytes begins    *)
(* with p: at the first place of the tail where it did not agree it would  *)
(* be smaller.                                                             *)
LEMMA TopTail ==
  ASSUME NEW p \in ByteStrings, NEW k \in ByteStrings, ~Less(k, p),
         NEW m \in 0..Len(p), m <= Len(k), \A i \in 1..m : k[i] = p[i],
         \A i \in m + 1..Len(p) : p[i] = TopByte
  PROVE  StartsWith(k, p)
  <1> DEFINE Breaks == {d \in m..Len(p) - 1 : Len(k) <= d \/ k[d + 1] # p[d + 1]}
  <1>1. Len(p) \in Nat /\ Len(k) \in Nat
    BY DEF ByteStrings
  <1>2. CASE Breaks = {}
    <2>1. Len(p) <= Len(k)
      <3>1. CASE m = Len(p)
        BY <3>1
      <3>2. CASE m < Len(p)
        <4>1. Len(p) - 1 \in m..Len(p) - 1
          BY <1>1, <3>2
        <4>2. ~(Len(k) <= Len(p) - 1)
          BY <1>2, <4>1
        <4>3. QED
          BY <1>1, <4>2
      <3>3. QED
        BY <1>1, <3>1, <3>2
    <2>2. ASSUME NEW i \in 1..Len(p), i > m
          PROVE  k[i] = p[i]
      <3>1. i - 1 \in m..Len(p) - 1
        BY <1>1, <2>2
      <3>2. k[(i - 1) + 1] = p[(i - 1) + 1]
        BY <1>2, <3>1
      <3>3. (i - 1) + 1 = i
        BY <1>1
      <3>4. QED
        BY <3>2, <3>3
    <2>3. \A i \in 1..Len(p) : k[i] = p[i]
      BY <1>1, <2>2
    <2>4. QED
      BY <2>1, <2>3 DEF StartsWith
  <1>3. CASE Breaks # {}
    <2>1. PICK d \in Breaks : \A y \in Breaks : d <= y
      <3>1. Breaks \in SUBSET Nat
        BY <1>1
      <3>2. QED
        BY <1>3, <3>1, LeastNat
    <2>2. d \in m..Len(p) - 1 /\ (Len(k) <= d \/ k[d + 1] # p[d + 1])
      BY <2>1
    <2>3. ASSUME NEW i \in m + 1..d
          PROVE  i <= Len(k) /\ k[i] = p[i]
      <3>1. i - 1 \in m..Len(p) - 1 /\ ~(d <= i - 1) /\ (i - 1) + 1 = i
        BY <1>1, <2>2
      <3>2. i - 1 \notin Breaks
        BY <2>1, <3>1
      <3>3. ~(Len(k) <= i - 1) /\ k[(i - 1) + 1] = p[(i - 1) + 1]
        BY <3>1, <3>2
      <3>4. QED
        BY <1>1, <3>1, <3>3
    <2>4. \A i \in 1..d : k[i] = p[i]
      BY <1>1, <2>2, <2>3
    <2>5. d <= Len(k)
      <3>1. CASE d = m
        BY <3>1
      <3>2. CASE d > m
        BY <1>1, <2>2, <2>3, <3>2
      <3>3. QED
        BY <1>1, <2>2, <3>1, <3>2
    <2>6. d < Len(k) => k[d + 1] < p[d + 1]
      <3>1. SUFFICES ASSUME d < Len(k)
                     PROVE  k[d + 1] < p[d + 1]
        OBVIOUS
      <3>2. d + 1 \in 1..Len(k) /\ d + 1 \in m + 1..Len(p)
        BY <1>1, <2>2, <3>1
      <3>3. k[d + 1] \in Int /\ k[d + 1] <= TopByte
        BY <3>2, ByteBounds
      <3>4. p[d + 1] = TopByte /\ TopByte \in Int
        BY <3>2, BaseAssumption DEF TopByte
      <3>5. k[d + 1] # p[d + 1]
        BY <1>1, <2>2, <3>1
      <3>6. QED
        BY <3>3, <3>4, <3>5
    <2>7. Less(k, p)
      BY <1>1, <2>2, <2>4, <2>5, <2>6 DEF Less
    <2>8. QED
      BY <2>7
  <1>4. QED
    BY <1>2, <1>3

(* A key at or above p, and below the end of p if there is one, begins     *)
(* with p.                                                                 *)
LEMMA BetweenIsPrefixed ==
  ASSUME NEW p \in ByteStrings, NEW k \in ByteStrings,
         ~Less(k, p), \A e \in PrefixEnd(p) : Less(k, e)
  PROVE  StartsWith(k, p)
  <1>1. Len(p) \in Nat /\ Len(k) \in Nat
    BY DEF ByteStrings
  <1>2. CASE \A i \in 1..Len(p) : p[i] = TopByte
    BY <1>1, <1>2, TopTail
  <1>3. CASE \E i \in 1..Len(p) : p[i] # TopByte
    <2> DEFINE After == {j \in 0..Len(p) : \A i \in j + 1..Len(p) : p[i] = TopByte}
    <2>1. Len(p) \in After /\ After \in SUBSET Nat
      BY <1>1
    <2>2. PICK m \in After : \A y \in After : m <= y
      BY <2>1, LeastNat
    <2>3. m \in 1..Len(p) /\ \A i \in m + 1..Len(p) : p[i] = TopByte
      BY <1>1, <1>3, <2>2
    <2>4. p[m] \in Int /\ p[m] <= TopByte /\ TopByte \in Int
      BY <2>3, ByteBounds, BaseAssumption DEF TopByte
    <2>5. p[m] # TopByte
      <3>1. SUFFICES ASSUME p[m] = TopByte
                     PROVE  FALSE
        OBVIOUS
      <3>2. m - 1 \in After
        BY <1>1, <2>3, <3>1
      <3>3. m <= m - 1
        <4> HIDE DEF After
        <4>1. QED
          BY <2>2, <3>2
      <3>4. QED
        BY <1>1, <2>3, <3>3
    <2>6. m \in LastBelowTop(p)
      BY <2>3, <2>4, <2>5 DEF LastBelowTop
    <2>7. PICK e \in PrefixEnd(p) : e = [i \in 1..m |-> IF i = m THEN p[i] + 1 ELSE p[i]]
      BY <2>6 DEF PrefixEnd
    <2>8. PICK j \in 0..Len(k) : /\ j < Len(e)
                                 /\ \A i \in 1..j : k[i] = e[i]
                                 /\ j < Len(k) => k[j + 1] < e[j + 1]
      BY DEF Less
    <2>9. Len(e) = m
      <3>1. e \in Seq(Int)
        <4>1. \A i \in 1..m : e[i] \in Int
          BY <1>1, <2>3, <2>7, ByteBounds
        <4>2. QED
          BY <1>1, <2>3, <2>7, <4>1
      <3>2. QED
        BY <2>3, <2>7, <3>1
    <2>10. \A i \in 1..j : k[i] = p[i]
      <3>1. \A i \in 1..m - 1 : e[i] = p[i]
        BY <1>1, <2>3, <2>7
      <3>2. \A i \in 1..j : i \in 1..m - 1
        BY <1>1, <2>3, <2>8, <2>9
      <3>3. QED
        BY <2>8, <3>1, <3>2
    <2>11. j < Len(p)
      BY <1>1, <2>3, <2>8, <2>9
    <2>12. ~(j < Len(k) => k[j + 1] < p[j + 1])
      BY <2>8, <2>10, <2>11 DEF Less
    <2>13. j < Len(k) /\ k[j + 1] < e[j + 1] /\ ~(k[j + 1] < p[j + 1])
      BY <2>8, <2>12
    <2>14. j + 1 = m
      <3>1. SUFFICES ASSUME j + 1 # m
                     PROVE  FALSE
        OBVIOUS
      <3>2. j + 1 \in 1..m - 1
        BY <1>1, <2>3, <2>8, <2>9, <3>1
      <3>3. e[j + 1] = p[j + 1]
        BY <1>1, <2>3, <2>7, <3>2
      <3>4. QED
        BY <2>13, <3>3
    <2>15. k[m] = p[m]
      <3>1. k[m] \in Int
        BY <1>1, <2>3, <2>13, <2>14, ByteBounds
      <3>2. e[m] = p[m] + 1
        BY <1>1, <2>3, <2>7
      <3>3. QED
        BY <2>4, <2>13, <2>14, <3>1, <3>2
    <2>16. m <= Len(k) /\ \A i \in 1..m : k[i] = p[i]
      BY <1>1, <2>3, <2>8, <2>10, <2>13, <2>14, <2>15
    <2>17. QED
      BY <2>3, <2>16, TopTail
  <1>4. QED
    BY <1>2, <1>3

(* prefix_end: the keys from p up to the end of p are exactly the keys     *)
(* that begin with p, whatever 0xff bytes p ends in or consists of.        *)
THEOREM PrefixRangeExact ==
  ASSUME NEW p \in ByteStrings, NEW k \in ByteStrings
  PROVE  InBounds([start |-> {p}, end |-> PrefixEnd(p)], k) <=> StartsWith(k, p)
  BY PrefixedNotBelow, PrefixedBelowEnd, BetweenIsPrefixed DEF InBounds

(* seek_reverse: target with a zero byte appended is the bound that lets   *)
(* in target itself and what is below it, and nothing else: the exclusive  *)
(* bound KeyRange spells target + 1.                                       *)
THEOREM ZeroByteIsNext ==
  ASSUME NEW t \in ByteStrings, NEW k \in ByteStrings
  PROVE  Less(k, Append(t, 0)) <=> (k = t \/ Less(k, t))
  <1> DEFINE s == Append(t, 0)
  <1>1. /\ Len(t) \in Nat /\ Len(k) \in Nat /\ Len(s) = Len(t) + 1
        /\ \A i \in 1..Len(t) : s[i] = t[i]
        /\ s[Len(t) + 1] = 0
    BY DEF ByteStrings
  <1> HIDE DEF s
  <1>2. ASSUME Less(k, s)
        PROVE  k = t \/ Less(k, t)
    <2>1. PICK n \in 0..Len(k) : /\ n < Len(s)
                                 /\ \A i \in 1..n : k[i] = s[i]
                                 /\ n < Len(k) => k[n + 1] < s[n + 1]
      BY <1>2 DEF Less
    <2>2. \A i \in 1..n : k[i] = t[i]
      BY <1>1, <2>1
    <2>3. CASE n < Len(t)
      <3>1. n < Len(k) => k[n + 1] < t[n + 1]
        BY <1>1, <2>1, <2>3
      <3>2. QED
        BY <2>2, <2>3, <3>1 DEF Less
    <2>4. CASE n = Len(t)
      <3>1. ~(n < Len(k))
        <4>1. n < Len(k) => n + 1 \in 1..Len(k)
          BY <1>1
        <4>2. n < Len(k) => k[n + 1] \in Int /\ 0 <= k[n + 1]
          BY <4>1, ByteBounds
        <4>3. QED
          BY <1>1, <2>1, <2>4, <4>2
      <3>2. Len(k) = Len(t) /\ \A i \in 1..Len(t) : k[i] = t[i]
        BY <1>1, <2>2, <2>4, <3>1
      <3>3. k = t
        BY <3>2 DEF ByteStrings
      <3>4. QED
        BY <3>3
    <2>5. QED
      BY <1>1, <2>1, <2>3, <2>4
  <1>3. ASSUME k = t
        PROVE  Less(k, s)
    BY <1>1, <1>3 DEF Less
  <1>4. ASSUME Less(k, t)
        PROVE  Less(k, s)
    <2>1. PICK n \in 0..Len(k) : /\ n < Len(t)
                                 /\ \A i \in 1..n : k[i] = t[i]
                                 /\ n < Len(k) => k[n + 1] < t[n + 1]
      BY <1>4 DEF Less
    <2>2. n < Len(s) /\ \A i \in 1..n + 1 : s[i] = t[i]
      BY <1>1, <2>1
    <2>3. \A i \in 1..n : k[i] = s[i]
      BY <2>1, <2>2
    <2>4. n < Len(k) => k[n + 1] < s[n + 1]
      BY <1>1, <2>1, <2>2
    <2>5. QED
      BY <2>2, <2>3, <2>4 DEF Less
  <1>5. QED
    BY <1>2, <1>3, <1>4 DEF s
-----------------------------------------------------------------------------
(* A set with 0 and the successor of each of its numbers holds them all.   *)
LEMMA Induction ==
  ASSUME NEW S, 0 \in S, \A n \in Nat : n \in S => n + 1 \in S
  PROVE  Nat \subseteq S
  <1> SUFFICES ASSUME Nat \ S # {} PROVE FALSE
    OBVIOUS
  <1>1. PICK n \in Nat \ S : \A m \in Nat \ S : n <= m
    BY LeastNat
  <1>2. n # 0 /\ n - 1 \in Nat
    BY <1>1
  <1>3. n - 1 \in S
    BY <1>1, <1>2
  <1>4. QED
    BY <1>1, <1>2, <1>3

(* N turns of a loop, the n-th of which leads from x to F[<<n, x>>], lead  *)
(* from w through W.                                                       *)
Runs(N, W, w, F) ==
  \E f \in [0..N -> W] : f[0] = w /\ \A n \in 1..N : f[n] = F[<<n, f[n - 1]>>]

(* They do if each turn leads from W to W.                                 *)
LEMMA Iteration ==
  ASSUME NEW N \in Nat, NEW W, NEW w \in W, NEW F \in [(1..N) \X W -> W]
  PROVE  Runs(N, W, w, F)
  <1> DEFINE Run(f, n) == /\ f \in [0..n -> W] /\ f[0] = w
                          /\ \A m \in 1..n : f[m] = F[<<m, f[m - 1]>>]
             S == {n \in Nat : n <= N => \E f : Run(f, n)}
  <1>1. 0 \in S
    <2>1. Run([i \in 0..0 |-> w], 0)
      OBVIOUS
    <2>2. QED
      BY <2>1
  <1>2. ASSUME NEW n \in Nat, n \in S
        PROVE  n + 1 \in S
    <2> SUFFICES ASSUME n + 1 <= N PROVE \E f : Run(f, n + 1)
      OBVIOUS
    <2>1. PICK f : Run(f, n)
      BY <1>2
    <2> DEFINE x == F[<<n + 1, f[n]>>]
               g == [i \in 0..n + 1 |-> IF i = n + 1 THEN x ELSE f[i]]
    <2>2. n + 1 \in 1..N /\ f[n] \in W
      BY <2>1
    <2>3. x \in W
      BY <2>2
    <2>4. g \in [0..n + 1 -> W] /\ g[0] = w
      BY <2>1, <2>3
    <2>5. ASSUME NEW m \in 1..n + 1
          PROVE  g[m] = F[<<m, g[m - 1]>>]
      <3>1. CASE m = n + 1
        <4>1. g[m] = x /\ g[m - 1] = f[n]
          BY <3>1
        <4>2. QED
          BY <3>1, <4>1
      <3>2. CASE m # n + 1
        <4>1. m \in 1..n /\ m - 1 \in 0..n
          BY <3>2
        <4>2. g[m] = f[m] /\ g[m - 1] = f[m - 1]
          BY <4>1
        <4>3. QED
          BY <2>1, <4>1, <4>2
      <3>3. QED
        BY <3>1, <3>2
    <2>6. QED
      BY <2>4, <2>5
  <1>3. Nat \subseteq S
    <2> HIDE DEF S
    <2> QED BY <1>1, <1>2, Induction
  <1>4. QED
    BY <1>3 DEF Runs
-----------------------------------------------------------------------------
(* Frames of keys.                                                         *)

USE BoundaryAssumption

(* Where each key of a frame ends, one key after the other.                *)
LEMMA FrameEnds ==
  ASSUME NEW lens \in KeyLists
  PROVE  /\ Len(lens) \in 0..MaxEntries /\ \A i \in 1..Len(lens) : lens[i] \in 0..MaxKeyLen
         /\ FrameEnd(lens) \in [0..Len(lens) -> Nat]
         /\ FrameEnd(lens)[0] = 0
         /\ \A i \in 1..Len(lens) : FrameEnd(lens)[i] = FrameEnd(lens)[i - 1] + HeaderLen + lens[i]
  <1>1. PICK L \in 0..MaxEntries : lens \in [1..L -> 0..MaxKeyLen]
    BY DEF KeyLists
  <1>2. lens \in Seq(0..MaxKeyLen) /\ Len(lens) = L
    BY <1>1
  <1> DEFINE F == [p \in (1..L) \X Nat |-> p[2] + HeaderLen + lens[p[1]]]
             Body(f) == [i \in 0..Len(lens) |-> IF i = 0 THEN 0 ELSE f[i - 1] + HeaderLen + lens[i]]
             end == CHOOSE f : f = Body(f)
  <1>3. F \in [(1..L) \X Nat -> Nat]
    BY <1>1
  <1>4. PICK f \in [0..L -> Nat] : f[0] = 0 /\ \A n \in 1..L : f[n] = F[<<n, f[n - 1]>>]
    <2> HIDE DEF F
    <2>1. L \in Nat /\ 0 \in Nat
      OBVIOUS
    <2>2. Runs(L, Nat, 0, F)
      BY <1>3, <2>1, Iteration
    <2>3. QED
      BY <2>2 DEF Runs
  <1>5. ASSUME NEW n \in 1..L PROVE f[n] = f[n - 1] + HeaderLen + lens[n]
    <2>1. f[n - 1] \in Nat /\ f[n] = F[<<n, f[n - 1]>>]
      <3> HIDE DEF F
      <3>1. QED
        BY <1>4
    <2>2. <<n, f[n - 1]>> \in (1..L) \X Nat
      BY <2>1
    <2>3. QED
      BY <2>1, <2>2
  <1>6. f = Body(f)
    BY <1>2, <1>4, <1>5
  <1>7. end = Body(end)
    BY <1>6
  <1>8. FrameEnd(lens) = end
    BY DEF FrameEnd
  <1> HIDE DEF end
  <1>9. end[0] = 0 /\ \A n \in 1..L : end[n] = end[n - 1] + HeaderLen + lens[n]
    BY <1>2, <1>7
  <1> DEFINE S == {n \in Nat : n <= L => end[n] \in Nat}
  <1>10. Nat \subseteq S
    <2>1. 0 \in S
      BY <1>9
    <2>2. ASSUME NEW n \in Nat, n \in S PROVE n + 1 \in S
      <3> SUFFICES ASSUME n + 1 <= L PROVE end[n + 1] \in Nat
        OBVIOUS
      <3>1. n + 1 \in 1..L /\ end[n] \in Nat /\ lens[n + 1] \in Nat
        BY <1>1, <2>2
      <3>2. end[n + 1] = end[n] + HeaderLen + lens[n + 1]
        BY <1>9, <3>1
      <3>3. QED
        BY <3>1, <3>2
    <2> HIDE DEF S
    <2>3. QED
      BY <2>1, <2>2, Induction
  <1>11. end \in [0..Len(lens) -> Nat]
    <2>1. \A n \in 0..L : end[n] \in Nat
      BY <1>10
    <2>2. end = [n \in 0..Len(lens) |-> end[n]]
      BY <1>7
    <2>3. QED
      BY <1>2, <2>1, <2>2
  <1>12. QED
    BY <1>1, <1>2, <1>8, <1>9, <1>11

(* A frame is as long as its keys and their headers, and C counts at most   *)
(* twice as far as a frame may be long.                                    *)
LEMMA FrameBounds ==
  ASSUME NEW lens \in KeyLists
  PROVE  /\ FrameLen(lens) \in 0..2 * IntHalf - 1
         /\ FrameLen(lens) = 0 <=> lens = <<>>
         /\ \A i \in 1..Len(lens) :
              /\ FrameEnd(lens)[i - 1] \in Nat
              /\ FrameEnd(lens)[i - 1] + HeaderLen + lens[i] <= FrameLen(lens)
  <1> DEFINE L == Len(lens)
             end == FrameEnd(lens)
             most == HeaderLen + MaxKeyLen
  <1>1. /\ L \in 0..MaxEntries /\ \A i \in 1..L : lens[i] \in 0..MaxKeyLen
        /\ end \in [0..L -> Nat] /\ end[0] = 0
        /\ \A i \in 1..L : end[i] = end[i - 1] + HeaderLen + lens[i]
    BY FrameEnds
  <1>2. FrameLen(lens) = end[L]
    BY DEF FrameLen
  <1>3. lens = <<>> <=> L = 0
    <2>1. lens \in Seq(0..MaxKeyLen)
      BY DEF KeyLists
    <2>2. QED
      BY <2>1
  <1> HIDE DEF L, end
  <1>4. most \in Nat \ {0} /\ MaxEntries * most < 2 * IntHalf
    OBVIOUS
  <1> HIDE DEF most
  <1>5. \A n \in Nat : n <= L => end[n] <= n * most
    <2> DEFINE S == {n \in Nat : n <= L => end[n] <= n * most}
    <2>1. 0 \in S
      BY <1>1, <1>4
    <2>2. ASSUME NEW n \in Nat, n \in S PROVE n + 1 \in S
      <3> SUFFICES ASSUME n + 1 <= L PROVE end[n + 1] <= (n + 1) * most
        OBVIOUS
      <3>1. n + 1 \in 1..L /\ end[n] \in Nat /\ lens[n + 1] \in 0..MaxKeyLen
        BY <1>1
      <3>2. end[n + 1] = end[n] + HeaderLen + lens[n + 1]
        BY <1>1, <3>1
      <3>3. HeaderLen + lens[n + 1] <= most
        BY <3>1 DEF most
      <3>4. end[n] <= n * most
        BY <1>1, <2>2, <3>1
      <3>5. (n + 1) * most = n * most + most
        BY <1>4
      <3>6. n * most \in Int /\ lens[n + 1] \in Int
        BY <1>4, <3>1
      <3>7. QED
        BY <1>4, <3>1, <3>2, <3>3, <3>4, <3>5, <3>6
    <2> HIDE DEF S
    <2>3. Nat \subseteq S
      BY <2>1, <2>2, Induction
    <2>4. QED
      BY <2>3 DEF S
  <1>6. \A n \in Nat : n <= L => end[L - n] <= end[L]
    <2> DEFINE S == {n \in Nat : n <= L => end[L - n] <= end[L]}
    <2>1. 0 \in S
      BY <1>1
    <2>2. ASSUME NEW n \in Nat, n \in S PROVE n + 1 \in S
      <3> SUFFICES ASSUME n + 1 <= L PROVE end[L - (n + 1)] <= end[L]
        OBVIOUS
      <3>1. L - n \in 1..L /\ (L - n) - 1 = L - (n + 1) /\ L - (n + 1) \in 0..L
        BY <1>1
      <3>2. end[L - n] = end[L - (n + 1)] + HeaderLen + lens[L - n]
        BY <1>1, <3>1
      <3>3. end[L - n] <= end[L] /\ lens[L - n] \in Nat /\ end[L - (n + 1)] \in Nat /\ end[L] \in Nat
        BY <1>1, <2>2, <3>1
      <3>4. QED
        BY <3>2, <3>3
    <2> HIDE DEF S
    <2>3. Nat \subseteq S
      BY <2>1, <2>2, Induction
    <2>4. QED
      BY <2>3 DEF S
  <1>7. end[L] \in Nat /\ end[L] <= L * most
    BY <1>1, <1>5
  <1>8. L * most <= MaxEntries * most
    BY <1>1, <1>4
  <1>9. end[L] <= 2 * IntHalf - 1
    <2>1. L * most \in Int /\ MaxEntries * most \in Int
      BY <1>1, <1>4
    <2>2. QED
      BY <1>4, <1>7, <1>8, <2>1
  <1>10. ASSUME NEW i \in 1..L
         PROVE  end[i - 1] \in Nat /\ end[i - 1] + HeaderLen + lens[i] <= end[L]
    <2>1. L - i \in Nat /\ L - i <= L /\ L - (L - i) = i /\ i - 1 \in 0..L
      BY <1>1
    <2>2. end[i] <= end[L]
      BY <1>6, <2>1
    <2>3. QED
      BY <1>1, <2>1, <2>2
  <1>11. L # 0 => end[L] # 0
    <2>1. L # 0 => L \in 1..L
      BY <1>1
    <2>2. ASSUME L # 0 PROVE end[L] # 0
      <3>1. end[L - 1] + HeaderLen + lens[L] <= end[L] /\ lens[L] \in Nat /\ end[L - 1] \in Nat
        BY <1>1, <1>10, <2>1, <2>2
      <3>2. QED
        BY <1>7, <3>1
    <2>3. QED
      BY <2>2
  <1>12. QED
    BY <1>1, <1>2, <1>3, <1>7, <1>9, <1>10, <1>11 DEF L, end

(* Below IntHalf a C int is the number, from there on it is negative.      *)
LEMMA CIntIs ==
  ASSUME NEW n \in 0..2 * IntHalf - 1
  PROVE  IF n < IntHalf THEN CInt(n) = n ELSE CInt(n) < 0
  <1>1. CASE n < IntHalf
    <2>1. n \in 0..IntHalf - 1
      BY <1>1
    <2>2. ((n + IntHalf) % (2 * IntHalf)) - IntHalf = n
      BY <2>1
    <2>3. QED
      BY <1>1, <2>2 DEF CInt
  <1>2. CASE ~(n < IntHalf)
    <2>1. n \in IntHalf..2 * IntHalf - 1
      BY <1>2
    <2>2. ((n + IntHalf) % (2 * IntHalf)) - IntHalf < 0
      BY <2>1
    <2>3. QED
      BY <1>2, <2>2 DEF CInt
  <1>3. QED
    BY <1>1, <1>2

HIDE BoundaryAssumption
-----------------------------------------------------------------------------
(* What a call has to release at its stage, the open iterator aside.       *)
Owned ==
  (IF stage # "idle" /\ call = "iter" THEN OptionsMemory(asked) ELSE {})
  \cup (IF stage = "returned" THEN ret.detail ELSE {})
  \cup (IF stage \notin {"idle", "inside"} /\ ret.out.len # 0
          THEN {ret.out.obj} \cap {"pin", "buffer"} ELSE {})

(* The inductive invariant: the heap is what the stage owns, a close holds *)
(* its iterator, bytes handed over are of an object the call owns, and an  *)
(* open iterator has the range of its options.                             *)
BInv ==
  /\ stage \in {"idle", "inside", "returned", "decoded", "copied"}
  /\ heap \ {"iterator"} = Owned
  /\ misuse = {}
  /\ stage = "inside" /\ call = "close" => "iterator" \in heap
  /\ ret.detail \subseteq {"detail"}
  /\ ret.out.obj \in {"none", "iterator", "pin", "buffer"}
  /\ ret.out.len # 0 => ret.out.obj \in {"pin", "buffer"}
  /\ asked \in Options
  /\ "iterator" \in heap => range = BoundsFrom(ToC(asked))

(* What NewIter copies to C memory is four objects at most.                *)
LEMMA OptionsAside ==
  ASSUME NEW q
  PROVE  OptionsMemory(q) \subseteq {"opts", "prefix", "start", "end"}
  BY DEF OptionsMemory

(* Before the first call there is nothing to release.                      *)
LEMMA BoundaryInit == Init => BInv
  <1> SUFFICES ASSUME Init PROVE BInv
    OBVIOUS
  <1>1. asked \in Options
    BY BoundaryAssumption DEF Init, NoOptions, Options
  <1>2. ret.out.obj = "none" /\ ret.out.len = 0 /\ ret.detail = {}
    BY DEF Init, Nothing, Returned, NoOut
  <1>3. Owned = {}
    BY <1>2 DEF Init, Owned
  <1>4. heap \ {"iterator"} = {}
    BY DEF Init
  <1>5. QED
    BY <1>1, <1>2, <1>3, <1>4 DEF Init, BInv

(* Crossing allocates the options of a NewIter, and nothing else.          *)
LEMMA CallStep ==
  ASSUME BInv, NEW kind \in Kinds, NEW q \in Options, kind # "iter" => q = NoOptions, Call(kind, q)
  PROVE  BInv'
  <1>1. OptionsMemory(q) \subseteq {"opts", "prefix", "start", "end"}
    BY OptionsAside
  <1>2. /\ stage' = "inside" /\ call' = kind /\ misuse' = {}
        /\ heap \subseteq {"iterator"}
        /\ ret'.detail = {} /\ ret'.out.obj = "none" /\ ret'.out.len = 0
    BY DEF Call, BInv, Owned, Nothing, Returned, NoOut
  <1>3. CASE kind = "iter"
    <2>1. heap = {} /\ heap' = OptionsMemory(q) /\ asked' = q
      BY <1>2, <1>3 DEF Call
    <2>2. heap' \ {"iterator"} = Owned'
      BY <1>1, <1>2, <1>3, <2>1 DEF Owned
    <2>3. QED
      BY <1>1, <1>2, <1>3, <2>1, <2>2 DEF BInv
  <1>4. CASE kind # "iter"
    <2>1. heap' = heap /\ asked' = asked /\ range' = range
      BY <1>4 DEF Call
    <2>2. Owned' = {}
      BY <1>2, <1>4 DEF Owned
    <2>3. kind = "close" => "iterator" \in heap
      BY DEF Call
    <2>4. heap' \ {"iterator"} = {}
      BY <1>2, <2>1
    <2>5. QED
      BY <1>2, <2>1, <2>2, <2>3, <2>4 DEF BInv
  <1>5. QED
    BY <1>3, <1>4
-----------------------------------------------------------------------------
(* Inside the call.                                                        *)
(* A call that is not creating an iterator owns nothing until it returns.  *)
LEMMA PlainInside ==
  ASSUME BInv, stage = "inside", call # "iter"
  PROVE  heap \subseteq {"iterator"}
  <1>1. Owned = {}
    BY DEF Owned
  <1>2. QED
    BY <1>1 DEF BInv

(* A value comes with its pin, an empty one with none.                     *)
LEMMA GetStep == ASSUME BInv, FfiGet PROVE BInv'
  <1>1. stage = "inside" /\ call = "get" /\ call' = call /\ stage' = "returned"
    BY DEF FfiGet, Inside
  <1>2. heap \subseteq {"iterator"}
    BY <1>1, PlainInside
  <1>3. PICK len \in {0, 1} :
          IF len = 0 THEN Succeed(NoOut, {}) ELSE Succeed([obj |-> "pin", len |-> len], {"pin"})
    BY DEF FfiGet
  <1>4. CASE len = 0
    <2>1. Succeed(NoOut, {})
      BY <1>3, <1>4
    <2>2. ret'.out.obj = "none" /\ ret'.out.len = 0 /\ ret'.detail = {}
      BY <2>1 DEF Succeed, Returned, NoOut
    <2>3. heap' \ {"iterator"} = {}
      BY <1>2, <2>1 DEF Succeed
    <2>4. Owned' = {}
      BY <1>1, <2>2 DEF Owned
    <2>5. QED
      BY <1>1, <2>1, <2>2, <2>3, <2>4 DEF BInv, Succeed, FfiGet, Inside
  <1>5. CASE len = 1
    <2>1. Succeed([obj |-> "pin", len |-> len], {"pin"})
      BY <1>3, <1>5
    <2>2. ret'.out.obj = "pin" /\ ret'.out.len = 1 /\ ret'.detail = {}
      BY <1>5, <2>1 DEF Succeed, Returned
    <2>3. heap' \ {"iterator"} = {"pin"}
      BY <1>2, <2>1 DEF Succeed
    <2>4. Owned' = {"pin"}
      BY <1>1, <2>2 DEF Owned
    <2>5. QED
      BY <1>1, <1>2, <2>1, <2>2, <2>3, <2>4 DEF BInv, Succeed, FfiGet, Inside
  <1>6. QED
    BY <1>3, <1>4, <1>5

(* A bare status allocates nothing.                                        *)
LEMMA PlainStep == ASSUME BInv, FfiPlain PROVE BInv'
  <1>1. /\ stage = "inside" /\ call' = call /\ call \in {"bool", "unit", "ignored"}
        /\ stage' \in {"idle", "returned"}
        /\ UNCHANGED <<misuse, asked, range>>
    BY DEF FfiPlain, Inside
  <1>2. heap \subseteq {"iterator"}
    BY <1>1, PlainInside
  <1>3. ret'.out.obj = "none" /\ ret'.out.len = 0 /\ ret'.detail = {} /\ heap' = heap
    BY DEF FfiPlain, Succeed, Returned, NoOut
  <1>4. Owned' = {}
    BY <1>1, <1>3 DEF Owned
  <1>5. QED
    BY <1>1, <1>2, <1>3, <1>4 DEF BInv

(* A frame of some length comes with its buffer.                           *)
LEMMA BatchStep == ASSUME BInv, FfiBatch PROVE BInv'
  <1>1. /\ stage = "inside" /\ call' = call /\ call = "batch" /\ stage' = "returned"
        /\ UNCHANGED <<misuse, asked, range>>
    BY DEF FfiBatch, Inside
  <1>2. heap \subseteq {"iterator"}
    BY <1>1, PlainInside
  <1>3. PICK lens \in KeyLists :
          Succeed([obj |-> "buffer", len |-> FrameLen(lens)], IF FrameLen(lens) = 0 THEN {} ELSE {"buffer"})
    BY DEF FfiBatch
  <1>5. ret'.out.obj = "buffer" /\ ret'.out.len = FrameLen(lens) /\ ret'.detail = {}
    BY <1>3 DEF Succeed, Returned
  <1>6. CASE FrameLen(lens) = 0
    <2>1. heap' = heap \cup {} /\ ret'.out.len = 0
      BY <1>3, <1>5, <1>6 DEF Succeed
    <2>2. Owned' = {}
      BY <1>1, <1>5, <2>1 DEF Owned
    <2>3. heap' \ {"iterator"} = {}
      BY <1>2, <2>1
    <2>4. QED
      BY <1>1, <1>2, <1>5, <2>1, <2>2, <2>3 DEF BInv
  <1>7. CASE FrameLen(lens) # 0
    <2>1. heap' = heap \cup {"buffer"} /\ ret'.out.len # 0
      BY <1>3, <1>5, <1>7 DEF Succeed
    <2>2. Owned' = {"buffer"}
      BY <1>1, <1>5, <2>1 DEF Owned
    <2>3. heap' \ {"iterator"} = {"buffer"}
      BY <1>2, <2>1
    <2>4. QED
      BY <1>1, <1>2, <1>5, <2>1, <2>2, <2>3 DEF BInv
  <1>8. QED
    BY <1>6, <1>7

(* An iterator comes with the range of its options.                        *)
LEMMA IterStep == ASSUME BInv, FfiIter PROVE BInv'
  <1>1. /\ stage = "inside" /\ call' = call /\ call = "iter" /\ stage' = "returned"
        /\ UNCHANGED <<misuse, asked>>
        /\ range' = BoundsFrom(ToC(asked))
    BY DEF FfiIter, Inside
  <1>2. /\ ret'.out.obj = "iterator" /\ ret'.out.len = 0 /\ ret'.detail = {}
        /\ heap' = heap \cup {"iterator"}
    BY DEF FfiIter, Succeed, Returned
  <1>3. Owned = OptionsMemory(asked) /\ Owned' = OptionsMemory(asked)
    BY <1>1, <1>2 DEF Owned
  <1>4. heap' \ {"iterator"} = Owned'
    BY <1>2, <1>3 DEF BInv
  <1>5. QED
    BY <1>1, <1>2, <1>4 DEF BInv

(* Closing releases the iterator.                                          *)
LEMMA CloseStep == ASSUME BInv, FfiClose PROVE BInv'
  <1>1. /\ stage = "inside" /\ call' = call /\ call = "close" /\ stage' = "returned"
        /\ asked' = asked
        /\ ret'.out.obj = "none" /\ ret'.out.len = 0 /\ ret'.detail = {}
    BY DEF FfiClose, Returned, NoOut
  <1>2. heap = {"iterator"}
    BY <1>1, PlainInside DEF BInv
  <1>3. heap' = {} /\ misuse' = {}
    BY <1>2 DEF FfiClose, Release, BInv
  <1>4. Owned' = {}
    BY <1>1 DEF Owned
  <1>5. QED
    BY <1>1, <1>3, <1>4 DEF BInv

(* A failure boxes its detail where the caller can take it.                *)
LEMMA FailStep == ASSUME BInv, FfiFail PROVE BInv'
  <1>1. /\ stage = "inside" /\ call' = call /\ call # "close"
        /\ stage' = IF call = "ignored" THEN "idle" ELSE "returned"
        /\ UNCHANGED <<misuse, asked, range>>
    BY DEF FfiFail, Inside
  <1>2. /\ ret'.out.obj = "none" /\ ret'.out.len = 0
        /\ heap' = heap \cup ret'.detail
        /\ ret'.detail \subseteq {"detail"}
        /\ call = "ignored" => ret'.detail = {}
    BY DEF FfiFail, Returned, NoOut, HasErrSlot
  <1>4. QED
    BY <1>1, <1>2 DEF BInv, Owned
-----------------------------------------------------------------------------
(* Back in Go.                                                             *)
LEMMA StatusStep == ASSUME BInv, StatusToErr PROVE BInv'
  <1>1. /\ stage = "returned" /\ stage' = "decoded"
        /\ UNCHANGED <<call, ret, asked, range>>
    BY DEF StatusToErr
  <1>2. \A o \in Owned : o \in heap /\ o # "iterator"
    BY DEF BInv
  <1>3. ret.detail \subseteq heap
    BY <1>1, <1>2 DEF Owned
  <1>4. heap' = heap \ ret.detail /\ misuse' = {}
    BY <1>3 DEF StatusToErr, Release, BInv
  <1>5. Owned' = Owned \ ret.detail
    BY <1>1, OptionsAside DEF Owned, BInv
  <1>6. QED
    BY <1>1, <1>4, <1>5 DEF BInv

(* What is copied is still there.                                          *)
LEMMA CopyStep == ASSUME BInv, Copy PROVE BInv'
  <1>1. /\ stage = "decoded" /\ stage' = "copied"
        /\ UNCHANGED <<call, heap, ret, asked, range>>
    BY DEF Copy
  <1>2. Owned' = Owned
    BY <1>1 DEF Owned
  <1>3. ret.out.len # 0 => ret.out.obj \in heap
    BY <1>1 DEF BInv, Owned
  <1>4. misuse' = {}
    BY <1>3 DEF Copy, Copied, Read, BInv
  <1>5. QED
    BY <1>1, <1>2, <1>4 DEF BInv

(* The deferred releases are what is left to release.                      *)
LEMMA DeferredStep == ASSUME BInv, Deferred PROVE BInv'
  <1>1. /\ stage = "copied" /\ stage' = "idle"
        /\ UNCHANGED <<call, ret, range>>
        /\ asked' = IF "iterator" \in heap THEN asked ELSE NoOptions
    BY DEF Deferred
  <1>2. Release(Owned)
    BY <1>1 DEF Deferred, Owned
  <1>3. heap' = heap \cap {"iterator"} /\ misuse' = {}
    BY <1>2 DEF Release, BInv
  <1>4. Owned' = {}
    BY <1>1 DEF Owned
  <1>5. asked' \in Options
    BY <1>1, BoundaryAssumption DEF BInv, NoOptions, Options
  <1>6. QED
    BY <1>1, <1>3, <1>4, <1>5 DEF BInv

(* The invariant does not notice a step that changes nothing.              *)
LEMMA BoundaryStutter == ASSUME BInv, UNCHANGED vars PROVE BInv'
  BY DEF BInv, Owned, vars
-----------------------------------------------------------------------------
(* The inductive invariant.                                                *)
THEOREM BoundaryInductive == Spec => []BInv
  <1>1. BInv /\ [Next]_vars => BInv'
    <2> SUFFICES ASSUME BInv, [Next]_vars PROVE BInv'
      OBVIOUS
    <2>1. CASE \E kind \in Kinds : \E q \in IF kind = "iter" THEN Options ELSE {NoOptions} : Call(kind, q)
      <3>1. NoOptions \in Options
        BY BoundaryAssumption DEF NoOptions, Options
      <3>2. QED
        BY <2>1, <3>1, CallStep
    <2>2. QED
      BY <2>1, GetStep, PlainStep, BatchStep, IterStep, CloseStep, FailStep, StatusStep,
         CopyStep, DeferredStep, BoundaryStutter DEF Next
  <1>2. QED
    BY BoundaryInit, <1>1, PTL DEF Spec

(* However calls of all kinds succeed, fail and panic in turn, the Go half  *)
(* gives back everything either half allocated.                            *)
THEOREM NothingLeaks == Spec => []EverythingReleased
  <1>1. BInv => EverythingReleased
    BY DEF BInv, Owned, EverythingReleased
  <1>2. QED
    BY BoundaryInductive, <1>1, PTL

(* and neither twice nor before its last use.                              *)
THEOREM NothingMisused == Spec => []NeverMisused
  <1>1. BInv => NeverMisused
    BY DEF BInv, NeverMisused
  <1>2. QED
    BY BoundaryInductive, <1>1, PTL

(* What BoundsFrom makes of any options is what IterOptions documents.     *)
LEMMA BoundsAreAsked ==
  ASSUME NEW q \in Options, NEW k \in ByteStrings
  PROVE  InBounds(BoundsFrom(ToC(q)), k) <=> Asked(q, k)
  <1>1. q.prefix \in ByteStrings
    BY BoundaryAssumption DEF Options
  <1> DEFINE b == BoundsFrom(ToC(q))
  <1>2. CASE q.prefix # <<>>
    <2>1. InOptBytes(ToC(q).prefix) = {q.prefix}
      BY <1>2 DEF InOptBytes, ToC, Dup
    <2>2. UNION {PrefixEnd(p) : p \in {q.prefix}} = PrefixEnd(q.prefix)
      OBVIOUS
    <2>3. b = [start |-> {q.prefix}, end |-> PrefixEnd(q.prefix)]
      BY <2>1, <2>2 DEF BoundsFrom
    <2>4. QED
      BY <1>1, <1>2, <2>3, PrefixRangeExact DEF Asked
  <1>3. CASE q.prefix = <<>>
    <2>1. InOptBytes(ToC(q).prefix) = {}
      BY <1>3 DEF InOptBytes, ToC, Dup
    <2>2. InOptBytes(ToC(q).start) = IF q.start = <<>> THEN {} ELSE {q.start}
      BY DEF InOptBytes, ToC, Dup
    <2>3. InOptBytes(ToC(q).end) = IF q.end = <<>> THEN {} ELSE {q.end}
      BY DEF InOptBytes, ToC, Dup
    <2>4. b.start = InOptBytes(ToC(q).start) /\ b.end = InOptBytes(ToC(q).end)
      BY <2>1 DEF BoundsFrom
    <2>5. QED
      BY <1>3, <2>2, <2>3, <2>4 DEF InBounds, Asked
  <1>4. QED
    BY <1>2, <1>3

(* Whatever the options and the key, an open iterator's range holds the key *)
(* exactly if the options ask for it.                                      *)
THEOREM RangeIsExact == Spec => []RangeIsDocumented
  <1>1. BInv => RangeIsDocumented
    BY BoundsAreAsked, BoundaryAssumption DEF BInv, RangeIsDocumented
  <1>2. QED
    BY BoundaryInductive, <1>1, PTL
-----------------------------------------------------------------------------
(* What a call answers.                                                    *)

(* Everything that may happen inside a call.                               *)
Causes == {"panic", "not found", "read only", "discarded", "bad argument"} \cup EngineErrors \cup TxnErrors

(* A batch's keys are located where its frame has them.                    *)
Located ==
  IF FrameLen(frame) >= IntHalf
    THEN go.panicked
    ELSE /\ ~go.panicked
         /\ Len(go.ents) = Len(frame)
         /\ \A i \in 1..Len(frame) :
              /\ go.ents[i].len = frame[i]
              /\ go.ents[i].off = HeaderLen + IF i = 1 THEN 0 ELSE go.ents[i - 1].off + frame[i - 1]

(* What Go answers is what happened.                                       *)
Truthful ==
  /\ go.err \in Documented(cause)
  /\ go.msg = IF go.err \in {"ErrInvalidArgument", "ErrPanic", "ErrUnexpected"} /\ text \in {"some", "holed"}
                THEN "some" ELSE ""

(* Types of a call in progress.                                            *)
AnswerTypes ==
  /\ stage \in {"idle", "inside", "returned", "decoded", "copied"}
  /\ call \in Kinds /\ frame \in KeyLists
  /\ ret.status \in 0..8
  /\ ret.out \in [obj : Objects \cup {"none"}, len : Nat]

(* What a call comes back with.                                            *)
Sent ==
  /\ cause \in Causes \cup {"ok"}
  /\ cause # "ok" => text \in TextsOf(StatusOf(cause))
  /\ cause = "ok" => text = ""
  /\ stage \notin {"idle", "inside"} => call # "ignored"
  /\ stage = "returned" => /\ ret.status = StatusOf(cause)
                           /\ ret.detail = IF cause # "ok" /\ CarriesDetail(ret.status) THEN {"detail"} ELSE {}
  /\ stage \in {"returned", "decoded"} /\ call = "batch" /\ cause = "ok" =>
       ret.out = [obj |-> "buffer", len |-> FrameLen(frame)]

(* What Go makes of it.                                                    *)
Told ==
  /\ stage = "decoded" => go = Answer(go.err, go.msg)
  /\ stage \in {"idle", "decoded", "copied"} /\ call # "ignored" => Truthful
  /\ stage \in {"idle", "copied"} /\ call = "batch" /\ cause = "ok" => Located

(* The inductive invariant of answers: a call comes back with the status of *)
(* its cause, with a detail where a text came along, and with the frame as  *)
(* its buffer; what is decoded is true, what is copied is where it was.     *)
AInv == AnswerTypes /\ Sent /\ Told

(* What statusToErr makes of each number.                                  *)
LEMMA SentinelIs ==
  /\ SentinelOf(0) = "nil" /\ SentinelOf(1) = "ErrNotFound" /\ SentinelOf(2) = "ErrClosed"
  /\ SentinelOf(3) = "ErrConflict" /\ SentinelOf(4) = "ErrReadOnly"
  /\ SentinelOf(5) = "ErrDiscarded" /\ SentinelOf(6) = "ErrInvalidArgument"
  /\ SentinelOf(7) = "ErrPanic" /\ SentinelOf(8) = "ErrUnexpected"
  <1>1. \A e \in DOMAIN HeaderCode :
          e \in {"nil", "ErrNotFound", "ErrClosed", "ErrConflict", "ErrReadOnly",
                 "ErrDiscarded", "ErrInvalidArgument", "ErrPanic"}
    BY DEF HeaderCode
  <1>2. QED
    BY <1>1 DEF SentinelOf, HeaderCode

(* A sentinel that shows its text is of a status that brings one.          *)
LEMMA DetailComes ==
  ASSUME NEW n \in 0..8, SentinelOf(n) \in {"ErrInvalidArgument", "ErrPanic", "ErrUnexpected"}
  PROVE  CarriesDetail(n)
  <1>1. n \in {0, 1, 2, 3, 4, 5, 6, 7, 8}
    OBVIOUS
  <1>2. n \in {6, 7, 8}
    BY <1>1, SentinelIs
  <1>3. QED
    BY <1>2 DEF CarriesDetail, RustCode

(* The two lists of numbers agree: each status is read as the sentinel of   *)
(* what it was given for.                                                  *)
LEMMA StatusIsRead ==
  ASSUME NEW c \in Causes \cup {"ok"}
  PROVE  StatusOf(c) \in 0..8 /\ SentinelOf(StatusOf(c)) \in Documented(c)
  <1>1. /\ RustCode.OK = 0 /\ RustCode.NOT_FOUND = 1 /\ RustCode.DB_CLOSED = 2
        /\ RustCode.TXN_CONFLICT = 3 /\ RustCode.READ_ONLY_TXN = 4 /\ RustCode.DISCARDED = 5
        /\ RustCode.INVALID_ARG = 6 /\ RustCode.PANIC = 7 /\ RustCode.OTHER_ERR = 8
    BY DEF RustCode
  <1>2. CASE c = "ok"
    <2>1. StatusOf(c) = 0
      BY <1>1, <1>2 DEF StatusOf
    <2>2. Documented(c) = {"nil"}
      BY <1>2 DEF Documented
    <2>3. QED
      BY SentinelIs, <2>1, <2>2
  <1>3. CASE c = "not found"
    <2>1. StatusOf(c) = 1
      BY <1>1, <1>3 DEF StatusOf
    <2>2. Documented(c) = {"ErrNotFound"}
      BY <1>3 DEF Documented
    <2>3. QED
      BY SentinelIs, <2>1, <2>2
  <1>4. CASE c = "Closed"
    <2>1. StatusOf(c) = 2
      BY <1>1, <1>4 DEF StatusOf
    <2>2. Documented(c) = {"ErrClosed"}
      BY <1>4 DEF Documented
    <2>3. QED
      BY SentinelIs, <2>1, <2>2
  <1>5. CASE c \in {"Conflict", "Busy"}
    <2>1. StatusOf(c) = 3
      BY <1>1, <1>5 DEF StatusOf
    <2>2. Documented(c) = {"ErrConflict"}
      BY <1>5 DEF Documented
    <2>3. QED
      BY SentinelIs, <2>1, <2>2
  <1>6. CASE c = "read only"
    <2>1. StatusOf(c) = 4
      BY <1>1, <1>6 DEF StatusOf
    <2>2. Documented(c) = {"ErrReadOnly"}
      BY <1>6 DEF Documented
    <2>3. QED
      BY SentinelIs, <2>1, <2>2
  <1>7. CASE c = "discarded"
    <2>1. StatusOf(c) = 5
      BY <1>1, <1>7 DEF StatusOf
    <2>2. Documented(c) = {"ErrDiscarded"}
      BY <1>7 DEF Documented
    <2>3. QED
      BY SentinelIs, <2>1, <2>2
  <1>8. CASE c \in {"InvalidArgument", "bad argument", "UnsupportedRangeDelete", "NoSavepoint"}
    <2>1. StatusOf(c) = 6
      BY <1>1, <1>8 DEF StatusOf
    <2>2. Documented(c) = {"ErrInvalidArgument"}
      BY <1>8 DEF Documented
    <2>3. QED
      BY SentinelIs, <2>1, <2>2
  <1>9. CASE c = "panic"
    <2>1. StatusOf(c) = 7
      BY <1>1, <1>9 DEF StatusOf
    <2>2. Documented(c) = {"ErrPanic"}
      BY <1>9 DEF Documented
    <2>3. QED
      BY SentinelIs, <2>1, <2>2
  <1>10. CASE c \in {"Io", "OtherError"}
    <2>1. StatusOf(c) = 8
      BY <1>1, <1>10 DEF StatusOf
    <2>2. Documented(c) = {"ErrUnexpected"}
      BY <1>10 DEF Documented
    <2>3. QED
      BY SentinelIs, <2>1, <2>2
  <1>11. QED
    BY <1>2, <1>3, <1>4, <1>5, <1>6, <1>7, <1>8, <1>9, <1>10 DEF Causes, EngineErrors, TxnErrors

(* What may happen inside a call is a cause.                               *)
LEMMA CausesAre == ASSUME NEW kind PROVE CausesOf(kind) \subseteq Causes /\ "ok" \notin Causes
  BY DEF CausesOf, Causes, EngineErrors, TxnErrors, FfiFailures

(* A batch may be empty.                                                   *)
LEMMA EmptyFrame == <<>> \in KeyLists
  <1>1. <<>> \in [1..0 -> 0..MaxKeyLen] /\ 0 \in 0..MaxEntries
    BY BoundaryAssumption
  <1>2. QED
    BY <1>1 DEF KeyLists

(* A call that hands over nothing.                                         *)
LEMMA NoOutTypes == [obj |-> "none", len |-> 0] \in [obj : Objects \cup {"none"}, len : Nat]
  OBVIOUS

(* Before the first call all is well.                                      *)
LEMMA AnswerInit == Init => AInv
  <1> SUFFICES ASSUME Init PROVE AInv
    OBVIOUS
  <1>1. <<>> \in KeyLists
    BY EmptyFrame
  <1>2. /\ ret.status = 0 /\ ret.out = [obj |-> "none", len |-> 0]
        /\ go.err = "nil" /\ go.msg = "" /\ Truthful
    BY DEF Init, Nothing, Returned, NoOut, Answer, Truthful, Documented
  <1>3. "unit" \in Kinds
    BY DEF Kinds
  <1>4. AnswerTypes
    <2>1. stage \in {"idle", "inside", "returned", "decoded", "copied"}
      BY DEF Init
    <2>2. call \in Kinds
      BY <1>3 DEF Init
    <2>3. frame \in KeyLists
      BY <1>1 DEF Init
    <2>4. ret.status \in 0..8
      <3>1. ret.status = 0
        BY <1>2
      <3>2. QED
        BY <3>1
    <2>5. ret.out \in [obj : Objects \cup {"none"}, len : Nat]
      BY <1>2, NoOutTypes
    <2>6. QED
      BY <2>1, <2>2, <2>3, <2>4, <2>5 DEF AnswerTypes
  <1>5. Sent
    BY DEF Init, Sent
  <1>6. Told
    BY <1>2 DEF Init, Told
  <1>7. QED
    BY <1>4, <1>5, <1>6 DEF AInv

(* Crossing forgets the call before.                                       *)
LEMMA AnswerCall ==
  ASSUME AInv, NEW kind \in Kinds, NEW q, Call(kind, q)
  PROVE  AInv'
  <1>1. <<>> \in KeyLists
    BY EmptyFrame
  <1>2. /\ stage' = "inside" /\ call' = kind /\ cause' = "ok" /\ text' = "" /\ frame' = <<>>
        /\ ret'.status = 0 /\ ret'.out = [obj |-> "none", len |-> 0]
    BY DEF Call, Nothing, Returned, NoOut
  <1>3. AnswerTypes'
    <2>1. ret'.status \in 0..8
      <3>1. ret'.status = 0
        BY <1>2
      <3>2. QED
        BY <3>1
    <2>2. ret'.out \in [obj : Objects \cup {"none"}, len : Nat]
      BY <1>2, NoOutTypes
    <2>3. QED
      BY <1>1, <1>2, <2>1, <2>2 DEF AInv, AnswerTypes
  <1>4. Sent'
    BY <1>1, <1>2 DEF AInv, Sent
  <1>5. Told'
    BY <1>1, <1>2 DEF AInv, Told
  <1>6. QED
    BY <1>3, <1>4, <1>5 DEF AInv

(* A success comes back with status 0 and no detail.                       *)
LEMMA AnswerSuccess ==
  ASSUME AInv, NEW kind \in Kinds \ {"close"}, Inside(kind),
         NEW o \in [obj : Objects \cup {"none"}, len : Nat], NEW objs, Succeed(o, objs),
         frame' \in KeyLists,
         kind = "batch" => o = [obj |-> "buffer", len |-> FrameLen(frame')]
  PROVE  AInv'
  <1>1. /\ call' = kind /\ stage' = IF kind = "ignored" THEN "idle" ELSE "returned"
        /\ cause' = "ok" /\ text' = ""
    BY DEF Inside, Succeed
  <1>2. StatusOf("ok") = 0
    BY DEF StatusOf, RustCode
  <1>3. ret'.status = 0 /\ ret'.detail = {} /\ ret'.out = o
    BY <1>2 DEF Succeed, Returned
  <1>4. AnswerTypes'
    <2>1. ret'.status \in 0..8
      <3>1. ret'.status = 0
        BY <1>3
      <3>2. QED
        BY <3>1
    <2>2. ret'.out \in [obj : Objects \cup {"none"}, len : Nat]
      BY <1>3
    <2>3. QED
      BY <1>1, <2>1, <2>2 DEF AInv, AnswerTypes
  <1>5. Sent'
    BY <1>1, <1>2, <1>3 DEF AInv, Sent
  <1>6. Told'
    BY <1>1, <1>2, <1>3 DEF AInv, Told
  <1>7. QED
    BY <1>4, <1>5, <1>6 DEF AInv

(* A failure comes back with the status of its cause.                      *)
LEMMA AnswerFailure == ASSUME AInv, FfiFail PROVE AInv'
  <1>1. PICK c \in CausesOf(call) :
          /\ cause' = c /\ text' \in TextsOf(StatusOf(c))
          /\ ret' = Returned(StatusOf(c),
                             IF HasErrSlot /\ CarriesDetail(StatusOf(c)) THEN {"detail"} ELSE {}, NoOut)
    BY DEF FfiFail
  <1>2. /\ call' = call /\ call # "close" /\ stage' = IF call = "ignored" THEN "idle" ELSE "returned"
        /\ frame' = frame
    BY DEF FfiFail, Inside
  <1>3. c \in Causes /\ c # "ok"
    BY CausesAre
  <1>4. StatusOf(c) \in 0..8
    BY <1>3, StatusIsRead
  <1>5. /\ ret'.status = StatusOf(c) /\ ret'.out = [obj |-> "none", len |-> 0]
        /\ ret'.detail = IF HasErrSlot /\ CarriesDetail(StatusOf(c)) THEN {"detail"} ELSE {}
    BY <1>1 DEF Returned, NoOut
  <1>6. call # "ignored" => HasErrSlot
    BY DEF HasErrSlot
  <1>7. AnswerTypes'
    BY <1>1, <1>2, <1>3, <1>4, <1>5, <1>6, NoOutTypes DEF AInv, AnswerTypes
  <1>8. Sent'
    BY <1>1, <1>2, <1>3, <1>4, <1>5, <1>6 DEF AInv, Sent
  <1>9. Told'
    BY <1>1, <1>2, <1>3, <1>4, <1>5, <1>6 DEF AInv, Told
  <1>10. QED
    BY <1>7, <1>8, <1>9 DEF AInv

(* Closing succeeds.                                                       *)
LEMMA AnswerClose == ASSUME AInv, FfiClose PROVE AInv'
  <1>1. /\ stage' = "returned" /\ call' = "close" /\ cause' = "ok" /\ text' = "" /\ frame' = frame
    BY DEF FfiClose
  <1>2. StatusOf("ok") = 0
    BY DEF StatusOf, RustCode
  <1>3. ret'.status = 0 /\ ret'.detail = {} /\ ret'.out = [obj |-> "none", len |-> 0]
    BY <1>2 DEF FfiClose, Returned, NoOut
  <1>4. "close" \in Kinds
    BY DEF Kinds
  <1>5. AnswerTypes'
    <2>1. ret'.status \in 0..8
      <3>1. ret'.status = 0
        BY <1>3
      <3>2. QED
        BY <3>1
    <2>2. ret'.out \in [obj : Objects \cup {"none"}, len : Nat]
      BY <1>3, NoOutTypes
    <2>3. QED
      BY <1>1, <1>4, <2>1, <2>2 DEF AInv, AnswerTypes
  <1>6. Sent'
    BY <1>1, <1>2, <1>3, <1>4 DEF AInv, Sent
  <1>7. Told'
    BY <1>1, <1>2, <1>3, <1>4 DEF AInv, Told
  <1>8. QED
    BY <1>5, <1>6, <1>7 DEF AInv

(* The calls that succeed.                                                 *)
LEMMA AnswerFfi == ASSUME AInv, FfiGet \/ FfiPlain \/ FfiBatch \/ FfiIter PROVE AInv'
  <1>1. frame \in KeyLists
    BY DEF AInv, AnswerTypes
  <1>2. NoOut \in [obj : Objects \cup {"none"}, len : Nat]
    BY NoOutTypes DEF NoOut
  <1>3. "get" \in Kinds /\ "bool" \in Kinds /\ "unit" \in Kinds /\ "ignored" \in Kinds /\ "batch" \in Kinds
        /\ "iter" \in Kinds
    BY DEF Kinds
  <1>4. CASE FfiGet
    <2>1. Inside("get") /\ frame' = frame /\ "get" \in Kinds \ {"close"}
      BY <1>3, <1>4 DEF FfiGet
    <2>2. PICK len \in {0, 1} :
            IF len = 0 THEN Succeed(NoOut, {}) ELSE Succeed([obj |-> "pin", len |-> len], {"pin"})
      BY <1>4 DEF FfiGet
    <2>3. CASE len = 0
      <3>1. Succeed(NoOut, {})
        BY <2>2, <2>3
      <3>2. QED
        BY <1>1, <1>2, <2>1, <3>1, AnswerSuccess
    <2>4. CASE len = 1
      <3>1. Succeed([obj |-> "pin", len |-> 1], {"pin"})
        BY <2>2, <2>4
      <3>2. [obj |-> "pin", len |-> 1] \in [obj : Objects \cup {"none"}, len : Nat]
        BY DEF Objects
      <3>3. QED
        BY <1>1, <2>1, <3>1, <3>2, AnswerSuccess
    <2>5. QED
      BY <2>3, <2>4
  <1>5. CASE FfiPlain
    <2>1. PICK kind \in {"bool", "unit", "ignored"} : Inside(kind)
      BY <1>5 DEF FfiPlain
    <2>2. kind \in Kinds \ {"close"} /\ kind # "batch" /\ Succeed(NoOut, {}) /\ frame' = frame
      BY <1>3, <1>5 DEF FfiPlain
    <2>3. QED
      BY <1>1, <1>2, <2>1, <2>2, AnswerSuccess
  <1>6. CASE FfiBatch
    <2>1. Inside("batch") /\ "batch" \in Kinds \ {"close"}
      BY <1>3, <1>6 DEF FfiBatch
    <2>2. PICK lens \in KeyLists :
            /\ frame' = lens
            /\ Succeed([obj |-> "buffer", len |-> FrameLen(lens)],
                       IF FrameLen(lens) = 0 THEN {} ELSE {"buffer"})
      BY <1>6 DEF FfiBatch
    <2>3. FrameLen(lens) \in Nat
      <3>1. FrameLen(lens) \in 0..2 * IntHalf - 1
        BY FrameBounds
      <3>2. QED
        BY <3>1
    <2>4. [obj |-> "buffer", len |-> FrameLen(lens)] \in [obj : Objects \cup {"none"}, len : Nat]
      BY <2>3 DEF Objects
    <2> DEFINE o    == [obj |-> "buffer", len |-> FrameLen(lens)]
               objs == IF FrameLen(lens) = 0 THEN {} ELSE {"buffer"}
    <2>5. Succeed(o, objs) /\ o \in [obj : Objects \cup {"none"}, len : Nat] /\ frame' \in KeyLists
          /\ o = [obj |-> "buffer", len |-> FrameLen(frame')]
      BY <2>2, <2>4
    <2> HIDE DEF o, objs
    <2>6. QED
      BY <2>1, <2>5, AnswerSuccess
  <1>7. CASE FfiIter
    <2>1. Inside("iter") /\ frame' = frame /\ "iter" \in Kinds \ {"close"}
          /\ Succeed([obj |-> "iterator", len |-> 0], {"iterator"})
      BY <1>3, <1>7 DEF FfiIter
    <2>2. [obj |-> "iterator", len |-> 0] \in [obj : Objects \cup {"none"}, len : Nat]
      BY DEF Objects
    <2>3. QED
      BY <1>1, <2>1, <2>2, AnswerSuccess
  <1>8. QED
    BY <1>4, <1>5, <1>6, <1>7

(* statusToErr answers the cause, with the text that came along.           *)
LEMMA AnswerDecoded == ASSUME AInv, StatusToErr PROVE AInv'
  <1>1. /\ stage = "returned" /\ stage' = "decoded"
        /\ UNCHANGED <<call, cause, text, frame, ret>>
    BY DEF StatusToErr
  <1> DEFINE err == SentinelOf(ret.status)
             msg == IF ret.detail # {} THEN WithoutNuls(text) ELSE ""
             shown == IF err \in {"ErrInvalidArgument", "ErrPanic", "ErrUnexpected"} THEN msg ELSE ""
  <1>2. go' = Answer(err, shown)
    BY DEF StatusToErr
  <1>3. go'.err = err /\ go'.msg = shown
    BY <1>2 DEF Answer
  <1>4. ret.status = StatusOf(cause) /\ cause \in Causes \cup {"ok"} /\ ret.status \in 0..8
    BY <1>1 DEF AInv, Sent, AnswerTypes
  <1>5. err \in Documented(cause)
    BY <1>4, StatusIsRead
  <1>6. shown = IF err \in {"ErrInvalidArgument", "ErrPanic", "ErrUnexpected"} /\ text \in {"some", "holed"}
                  THEN "some" ELSE ""
    <2>1. CASE err \notin {"ErrInvalidArgument", "ErrPanic", "ErrUnexpected"}
      BY <2>1
    <2>2. CASE err \in {"ErrInvalidArgument", "ErrPanic", "ErrUnexpected"} /\ cause = "ok"
      <3>1. text = "" /\ ret.detail = {}
        BY <1>1, <2>2 DEF AInv, Sent
      <3>2. QED
        BY <3>1
    <2>3. CASE err \in {"ErrInvalidArgument", "ErrPanic", "ErrUnexpected"} /\ cause # "ok"
      <3>1. CarriesDetail(ret.status)
        BY <1>4, <2>3, DetailComes
      <3>2. ret.detail = {"detail"}
        BY <1>1, <2>3, <3>1 DEF AInv, Sent
      <3>3. text \in Texts
        BY <1>4, <2>3, <3>1 DEF AInv, Sent, TextsOf
      <3>4. msg = IF text \in {"some", "holed"} THEN "some" ELSE ""
        BY <3>2, <3>3 DEF Texts, WithoutNuls
      <3>5. QED
        BY <2>3, <3>4
    <2>4. QED
      BY <2>1, <2>2, <2>3
  <1>7. Truthful'
    BY <1>1, <1>3, <1>5, <1>6 DEF Truthful
  <1> HIDE DEF err, shown
  <1>8. AnswerTypes'
    BY <1>1 DEF AInv, AnswerTypes
  <1>9. Sent'
    BY <1>1 DEF AInv, Sent
  <1>10. go' = Answer(go'.err, go'.msg)
    BY <1>2, <1>3
  <1>11. Told'
    BY <1>1, <1>7, <1>10 DEF Told
  <1>12. QED
    BY <1>8, <1>9, <1>11 DEF AInv

(* refill finds each key of a frame that a C int can count.                *)
LEMMA IndexLocates ==
  ASSUME NEW lens \in KeyLists, FrameLen(lens) < IntHalf
  PROVE  /\ Len(Index(lens)) = Len(lens)
         /\ \A i \in 1..Len(lens) :
              /\ Index(lens)[i].len = lens[i]
              /\ Index(lens)[i].off = HeaderLen + IF i = 1 THEN 0 ELSE Index(lens)[i - 1].off + lens[i - 1]
  <1> DEFINE L == Len(lens)
             end == FrameEnd(lens)
  <1>1. /\ L \in Nat /\ \A i \in 1..L : lens[i] \in Nat
        /\ end[0] = 0
        /\ \A i \in 1..L : end[i] = end[i - 1] + HeaderLen + lens[i]
    BY FrameEnds
  <1>2. /\ FrameLen(lens) \in Nat
        /\ \A i \in 1..L : end[i - 1] \in Nat /\ end[i - 1] + HeaderLen + lens[i] <= FrameLen(lens)
    BY FrameBounds
  <1>3. Index(lens) = [i \in 1..L |-> [off |-> CInt(end[i - 1] + HeaderLen), len |-> CInt(lens[i])]]
    BY DEF Index
  <1> HIDE DEF L, end
  <1>4. HeaderLen \in Nat /\ IntHalf \in Nat \ {0}
    BY BoundaryAssumption
  <1>5. ASSUME NEW i \in 1..L
        PROVE  Index(lens)[i].len = lens[i] /\ Index(lens)[i].off = end[i - 1] + HeaderLen
    <2>1. lens[i] \in 0..IntHalf - 1 /\ end[i - 1] + HeaderLen \in 0..IntHalf - 1
      BY <1>1, <1>2, <1>4
    <2>2. CInt(lens[i]) = lens[i] /\ CInt(end[i - 1] + HeaderLen) = end[i - 1] + HeaderLen
      BY <1>4, <2>1, CIntIs
    <2>3. QED
      BY <1>3, <2>2
  <1>6. ASSUME NEW i \in 1..L
        PROVE  Index(lens)[i].off = HeaderLen + IF i = 1 THEN 0 ELSE Index(lens)[i - 1].off + lens[i - 1]
    <2>1. CASE i = 1
      BY <1>1, <1>4, <1>5, <2>1
    <2>2. CASE i # 1
      <3>1. i - 1 \in 1..L
        BY <1>1, <2>2
      <3>2. Index(lens)[i - 1].off = end[i - 1 - 1] + HeaderLen
        BY <1>5, <3>1
      <3>3. end[i - 1] = end[i - 1 - 1] + HeaderLen + lens[i - 1]
        BY <1>1, <3>1
      <3>4. end[i - 1 - 1] \in Nat /\ lens[i - 1] \in Nat
        BY <1>1, <1>2, <3>1
      <3>5. QED
        BY <1>4, <1>5, <2>2, <3>2, <3>3, <3>4
    <2>3. QED
      BY <2>1, <2>2
  <1>7. Len(Index(lens)) = L
    BY <1>1, <1>3
  <1>8. QED
    BY <1>5, <1>6, <1>7 DEF L

(* The copy is of what was framed, or panics.                              *)
LEMMA AnswerCopied == ASSUME AInv, Copy PROVE AInv'
  <1>1. /\ stage = "decoded" /\ stage' = "copied"
        /\ UNCHANGED <<call, cause, text, frame, ret>>
    BY DEF Copy
  <1>2. go = Answer(go.err, go.msg) /\ call # "ignored" /\ Truthful /\ frame \in KeyLists
    BY <1>1 DEF AInv, Sent, Told, AnswerTypes
  <1>3. \/ go' = go
        \/ go' = [go EXCEPT !.panicked = TRUE]
        \/ \E e : go' = [go EXCEPT !.ents = e]
    BY DEF Copy, Copied
  <1>4. go'.err = go.err /\ go'.msg = go.msg
    <2>1. CASE go' = go
      BY <2>1
    <2>2. CASE go' = [go EXCEPT !.panicked = TRUE]
      BY <1>2, <2>2 DEF Answer
    <2>3. CASE \E e : go' = [go EXCEPT !.ents = e]
      BY <1>2, <2>3 DEF Answer
    <2>4. QED
      BY <1>3, <2>1, <2>2, <2>3
  <1>5. Truthful'
    BY <1>1, <1>2, <1>4 DEF Truthful
  <1>6. ASSUME call = "batch", cause = "ok"
        PROVE  Located'
    <2>1. ret.out.obj = "buffer" /\ ret.out.len = FrameLen(frame)
      <3>1. ret.out = [obj |-> "buffer", len |-> FrameLen(frame)]
        BY <1>1, <1>6 DEF AInv, Sent
      <3>2. QED
        BY <3>1
    <2>2. ~Failed
      BY <1>2, <1>6 DEF Truthful, Documented, Failed
    <2>3. Copied(ret.out, Index(frame))
      BY <1>6, <2>2 DEF Copy
    <2>4. FrameLen(frame) \in 0..2 * IntHalf - 1 /\ IntHalf \in Nat \ {0}
      BY <1>2, FrameBounds, BoundaryAssumption
    <2>5. go.panicked = FALSE /\ go.ents = <<>>
      BY <1>2 DEF Answer
    <2>6. CASE FrameLen(frame) = 0
      <3>1. go' = go /\ frame = <<>>
        BY <1>2, <2>1, <2>3, <2>6, FrameBounds DEF Copied
      <3>2. Len(frame) = 0 /\ ~(FrameLen(frame) >= IntHalf)
        BY <2>4, <2>6, <3>1
      <3>3. QED
        BY <1>1, <2>5, <3>1, <3>2 DEF Located
    <2>7. CASE FrameLen(frame) # 0 /\ FrameLen(frame) >= IntHalf
      <3>1. CInt(FrameLen(frame)) < 0
        BY <2>4, <2>7, CIntIs
      <3>2. go' = [go EXCEPT !.panicked = TRUE]
        BY <2>1, <2>3, <2>7, <3>1 DEF Copied
      <3>3. go'.panicked = TRUE
        BY <1>2, <3>2 DEF Answer
      <3>4. QED
        BY <1>1, <2>7, <3>3 DEF Located
    <2>8. CASE FrameLen(frame) # 0 /\ ~(FrameLen(frame) >= IntHalf)
      <3>1. FrameLen(frame) < IntHalf
        BY <2>4, <2>8
      <3>2. ~(CInt(FrameLen(frame)) < 0)
        BY <2>4, <3>1, CIntIs
      <3>3. go' = [go EXCEPT !.ents = Index(frame)]
        BY <2>1, <2>3, <2>8, <3>2 DEF Copied
      <3>4. go'.ents = Index(frame) /\ go'.panicked = FALSE
        BY <1>2, <2>5, <3>3 DEF Answer
      <3>5. QED
        BY <1>1, <1>2, <2>8, <3>1, <3>4, IndexLocates DEF Located
    <2>9. QED
      BY <2>6, <2>7, <2>8
  <1>7. AnswerTypes'
    BY <1>1 DEF AInv, AnswerTypes
  <1>8. Sent'
    BY <1>1 DEF AInv, Sent
  <1>9. Told'
    BY <1>1, <1>5, <1>6 DEF Told
  <1>10. QED
    BY <1>7, <1>8, <1>9 DEF AInv

(* The deferred releases leave the answer alone.                           *)
LEMMA AnswerKept == ASSUME AInv, Deferred \/ UNCHANGED vars PROVE AInv'
  <1>1. CASE Deferred
    <2>1. /\ stage = "copied" /\ stage' = "idle"
          /\ UNCHANGED <<call, cause, text, frame, ret, go>>
      BY <1>1 DEF Deferred
    <2>2. AnswerTypes' /\ Sent'
      BY <2>1 DEF AInv, AnswerTypes, Sent
    <2>3. Told'
      BY <2>1 DEF AInv, Told, Truthful, Located
    <2>4. QED
      BY <2>2, <2>3 DEF AInv
  <1>2. CASE UNCHANGED vars
    BY <1>2 DEF vars, AInv, AnswerTypes, Sent, Told, Truthful, Located
  <1>3. QED
    BY <1>1, <1>2

(* The invariant of answers.                                               *)
THEOREM AnswersInductive == Spec => []AInv
  <1>1. AInv /\ [Next]_vars => AInv'
    BY AnswerCall, AnswerFfi, AnswerFailure, AnswerClose, AnswerDecoded, AnswerCopied, AnswerKept DEF Next
  <1>2. QED
    BY AnswerInit, <1>1, PTL DEF Spec

(* A call's state keeps its types.                                         *)
THEOREM BoundaryTypeCorrect == Spec => []TypeOK
  <1>1. BInv /\ AInv => TypeOK
    <2> SUFFICES ASSUME BInv, AInv PROVE TypeOK
      OBVIOUS
    <2>1. heap \subseteq Objects
      <3>1. OptionsMemory(asked) \subseteq {"opts", "prefix", "start", "end"}
        BY OptionsAside
      <3>2. Owned \subseteq {"opts", "prefix", "start", "end", "detail", "pin", "buffer"}
        BY <3>1 DEF Owned, BInv
      <3>3. heap \subseteq Owned \cup {"iterator"}
        BY DEF BInv
      <3>4. QED
        BY <3>2, <3>3 DEF Objects
    <2>2. QED
      BY <2>1 DEF BInv, AInv, AnswerTypes, TypeOK
  <1>2. QED
    BY BoundaryInductive, AnswersInductive, <1>1, PTL

(* Whatever fails inside, the caller is told that: the two lists of numbers *)
(* and the two switches agree, and a text is cut nowhere (errors.go:12-63,  *)
(* ffi/src/lib.rs:61-78).                                                  *)
THEOREM CausesAreTold == Spec => []ErrorIsTheCause
  <1>1. AInv => ErrorIsTheCause
    BY DEF AInv, Told, Truthful, ErrorIsTheCause
  <1>2. QED
    BY AnswersInductive, <1>1, PTL

(* Every key of a batch is found where it was framed, for any number and    *)
(* lengths of keys and any width of a C int that counts half of them, or   *)
(* the call panics (iter.go:125-130, regolith.go:613).                     *)
THEOREM KeysAreLocated == Spec => []KeysArrive
  <1>1. AInv => KeysArrive
    BY DEF AInv, Told, Located, KeysArrive
  <1>2. QED
    BY AnswersInductive, <1>1, PTL
=============================================================================
