---------------------------- MODULE BatchProofs ----------------------------
(***************************************************************************)
(* Proofs about BatchDecode, for every frame, width, overhead and limit.   *)
(*                                                                         *)
(* The decoder may skip its sizing pass over the frames it skips it for.   *)
(* Two arguments, one per kind of frame.  In a frame that is not sized the *)
(* record grows with the bytes walked at the rate of a delete with an      *)
(* empty key at most (GrowthInv), and the frame is too short for that to   *)
(* reach the limit.  In a sized one the building pass goes through the     *)
(* offsets and record lengths the sizing pass went through (SizedInv,      *)
(* RetracedInv), and those were all within the limit.                      *)
(*                                                                         *)
(* What a Go caller packs is what the engine gets.  The digits of a length *)
(* field decide the length (DigitsDecide), so walk reads at the end of the *)
(* first k ops the op that was added there (NextRead) and charges for it   *)
(* what the rule of WriteBatch.Size says (RecordAppend); GoInv follows the *)
(* walk along the ops.  Any frame at all is, as far as it has been walked, *)
(* the ops of the engine's batch packed again (OpCopied, BuiltInv).        *)
(*                                                                         *)
(* Together these make the batch an AtomicWrite, action by action: adding  *)
(* an op adds its charge, a refusal is the limit's, and at the hand-over   *)
(* the engine's batch is the caller's (WriteStepRefines).                  *)
(***************************************************************************)
EXTENDS BatchDecode, SequenceTheorems, WellFoundedInduction, TLAPS

(* Where a pass at offset p[1] with record length p[2] goes next.          *)
Following(p) == <<OpEnd(frame, p[1]), p[2] + RecordLen(frame, p[1])>>

SizedInv == phase = "size" =>
  /\ NeedsSizing(frame)
  /\ <<0, CountLen>> \in sized /\ <<at, rec>> \in sized
  /\ \A p \in sized : p[2] <= MaxRecord
  /\ \A p \in sized : p = <<at, rec>> \/ (p[1] < Len(frame) /\ Following(p) \in sized)

RetracedInv == phase \in {"build", "apply"} /\ NeedsSizing(frame) =>
  /\ <<at, rec>> \in sized
  /\ \A p \in sized : p[2] <= MaxRecord
  /\ \A p \in sized : p[1] < Len(frame) => Following(p) \in sized

GrowthInv == phase \in {"build", "apply"} /\ ~NeedsSizing(frame) =>
  (rec - CountLen) * DeleteFrame <= DeleteOverhead * at

BInv == TypeOK /\ SizedInv /\ RetracedInv /\ GrowthInv
-----------------------------------------------------------------------------
(* Induction over the natural numbers, for sets instead of predicates: the *)
(* provers instantiate a set with a comprehension, but no operator.        *)

(* A well-founded relation has a minimal element in every set.             *)
LEMMA Minimal ==
  ASSUME NEW R, NEW S, IsWellFoundedOn(R, Nat), S \subseteq Nat, S # {}
  PROVE  \E x \in S : \A y \in S : ~ (<<y, x>> \in R)
  BY WFMin, Zenon

(* A well-founded relation that contains < has a least element to offer.   *)
LEMMA LeastFor ==
  ASSUME NEW R, IsWellFoundedOn(R, Nat), \A m, k \in Nat : m < k => <<m, k>> \in R,
         NEW S, S \subseteq Nat, S # {}
  PROVE  \E k \in S : \A m \in S : k <= m
  <1>1. \E x \in S : \A y \in S : ~ (<<y, x>> \in R)
    BY Minimal
  <1>2. PICK k \in S : \A m \in S : ~ (<<m, k>> \in R)
    BY <1>1
  <1>3. \A m \in S : ~ (m < k)
    BY <1>2
  <1>4. \A m \in S : m \in Nat /\ k \in Nat
    OBVIOUS
  <1>5. \A m \in S : k <= m
    BY <1>3, <1>4
  <1>6. QED
    BY <1>5

(* A set of natural numbers has a least element.                           *)
LEMMA LeastNat ==
  ASSUME NEW S, S \subseteq Nat, S # {}
  PROVE  \E k \in S : \A m \in S : k <= m
  <1> DEFINE R == OpToRel(<, Nat)
  <1>1. IsWellFoundedOn(R, Nat)
    BY NatLessThanWellFounded
  <1>2. \A m, k \in Nat : m < k => <<m, k>> \in R
    BY DEF OpToRel
  <1> HIDE DEF R
  <1>3. QED
    BY <1>1, <1>2, LeastFor

(* A set with 0 and the successor of each of its numbers holds them all.   *)
LEMMA Induction ==
  ASSUME NEW S, 0 \in S, \A k \in Nat : k \in S => k + 1 \in S
  PROVE  Nat \subseteq S
  <1> SUFFICES ASSUME Nat \ S # {} PROVE FALSE
    OBVIOUS
  <1>1. PICK k \in Nat \ S : \A m \in Nat \ S : k <= m
    BY LeastNat
  <1>2. k # 0 /\ k - 1 \in Nat
    BY <1>1
  <1>3. k - 1 \in S
    BY <1>1, <1>2
  <1>4. QED
    BY <1>1, <1>2, <1>3

(* N turns of a loop, the k-th of which leads from x to F[<<k, x>>], lead  *)
(* from w through W.                                                       *)
Runs(N, W, w, F) ==
  \E f \in [0..N -> W] : f[0] = w /\ \A k \in 1..N : f[k] = F[<<k, f[k - 1]>>]

(* They do if each turn leads from W to W.                                 *)
LEMMA Iteration ==
  ASSUME NEW N \in Nat, NEW W, NEW w \in W, NEW F \in [(1..N) \X W -> W]
  PROVE  Runs(N, W, w, F)
  <1> DEFINE Run(f, k) == /\ f \in [0..k -> W] /\ f[0] = w
                          /\ \A m \in 1..k : f[m] = F[<<m, f[m - 1]>>]
             S == {k \in Nat : k <= N => \E f : Run(f, k)}
  <1>1. 0 \in S
    <2>1. Run([i \in 0..0 |-> w], 0)
      OBVIOUS
    <2>2. QED
      BY <2>1
  <1>2. ASSUME NEW k \in Nat, k \in S
        PROVE  k + 1 \in S
    <2> SUFFICES ASSUME k + 1 <= N PROVE \E f : Run(f, k + 1)
      OBVIOUS
    <2>1. PICK f : Run(f, k)
      BY <1>2
    <2> DEFINE x == F[<<k + 1, f[k]>>]
               g == [i \in 0..k + 1 |-> IF i = k + 1 THEN x ELSE f[i]]
    <2>2. k + 1 \in 1..N /\ f[k] \in W
      BY <2>1
    <2>3. x \in W
      BY <2>2
    <2>4. g \in [0..k + 1 -> W] /\ g[0] = w
      BY <2>1, <2>3
    <2>5. ASSUME NEW m \in 1..k + 1
          PROVE  g[m] = F[<<m, g[m - 1]>>]
      <3>1. CASE m = k + 1
        <4>1. g[m] = x /\ g[m - 1] = f[k]
          BY <3>1
        <4>2. QED
          BY <3>1, <4>1
      <3>2. CASE m # k + 1
        <4>1. m \in 1..k /\ m - 1 \in 0..k
          BY <3>2
        <4>2. g[m] = f[m] /\ g[m - 1] = f[m - 1]
          BY <4>1
        <4>3. QED
          BY <2>1, <4>1, <4>2
      <3>3. QED
        BY <3>1, <3>2
    <2>6. QED
      BY <2>4, <2>5
  <1>3. Nat \subseteq S
    <2> HIDE DEF S
    <2> QED BY <1>1, <1>2, Induction
  <1>4. QED
    BY <1>3 DEF Runs
-----------------------------------------------------------------------------
(* Arithmetic.                                                             *)

(* Growing at the slower rate from under a bound keeps under it.           *)
LEMMA Rate ==
  ASSUME NEW a \in Nat, NEW b \in Nat, NEW c \in Nat, NEW d \in Nat, NEW x \in Nat,
         a * d <= c * b, d <= c
  PROVE  (a + x) * d <= c * (b + x)
  <1>1. (a + x) * d = a * d + x * d
    OBVIOUS
  <1>2. c * (b + x) = c * b + x * c
    OBVIOUS
  <1>3. x * d <= x * c
    OBVIOUS
  <1>4. QED
    BY <1>1, <1>2, <1>3

(* A quotient times its divisor does not exceed the dividend.              *)
LEMMA DivBound ==
  ASSUME NEW a \in Nat, NEW b \in Nat \ {0}
  PROVE  a \div b \in Nat /\ b * (a \div b) <= a
  OBVIOUS

(* Multiplication by a natural number keeps the order.                     *)
LEMMA MulMonotone ==
  ASSUME NEW a \in Nat, NEW x \in Int, NEW y \in Int, x <= y
  PROVE  a * x <= a * y
  OBVIOUS

(* A positive factor can be cancelled.                                     *)
LEMMA MulCancel ==
  ASSUME NEW a \in Nat \ {0}, NEW x \in Int, NEW y \in Int, x * a <= y * a
  PROVE  x <= y
  OBVIOUS

(* A record that grows by x grows by x times the frame of a delete.        *)
LEMMA Spread ==
  ASSUME NEW r \in Nat, NEW x \in Nat, NEW c \in Nat, NEW d \in Nat, NEW q, q = r + x
  PROVE  (q - c) * d = (r - c) * d + x * d
  OBVIOUS

(* The powers of the base are positive.                                    *)
LEMMA Powers == \A d \in 0..LenBytes : Base ^ d \in Nat \ {0}
  <1> DEFINE S == {d \in Nat : d <= LenBytes => Base ^ d \in Nat \ {0}}
  <1>1. Base \in Nat \ {0} /\ LenBytes \in Nat
    BY WidthAssumption
  <1>2. 0 \in S
    BY PowerAssumption
  <1>3. ASSUME NEW d \in Nat, d \in S
        PROVE  d + 1 \in S
    <2> SUFFICES ASSUME d + 1 <= LenBytes PROVE Base ^ (d + 1) \in Nat \ {0}
      OBVIOUS
    <2>1. d + 1 \in 1..LenBytes /\ d + 1 - 1 = d /\ d <= LenBytes
      BY <1>1
    <2>2. Base ^ (d + 1) = Base * Base ^ d
      BY <2>1, PowerAssumption
    <2>3. Base ^ d \in Nat \ {0}
      BY <1>3, <2>1
    <2>4. QED
      BY <1>1, <2>2, <2>3
  <1>4. Nat \subseteq S
    <2> HIDE DEF S
    <2> QED BY <1>2, <1>3, Induction
  <1>5. QED
    BY <1>4

(* The widths and overheads, as the lemmas use them.                       *)
LEMMA Widths ==
  /\ LenBytes \in Nat /\ CountLen \in Nat /\ MaxRecord \in Nat /\ CountLen <= MaxRecord
  /\ DeleteFrame \in Nat \ {0} /\ SetFrame \in Nat
  /\ SetOverhead \in Nat /\ DeleteOverhead \in Nat \ {0}
  /\ DeleteFrame <= DeleteOverhead
  /\ SetOverhead * DeleteFrame <= DeleteOverhead * SetFrame
  /\ MaxFrameWithoutSizing \in Nat
  /\ DeleteOverhead * MaxFrameWithoutSizing <= (MaxRecord - CountLen) * DeleteFrame
  <1>1. /\ LenBytes \in Nat /\ CountLen \in Nat /\ MaxRecord \in Nat /\ CountLen <= MaxRecord
        /\ DeleteFrame \in Nat \ {0} /\ SetFrame \in Nat
    BY WidthAssumption DEF DeleteFrame, SetFrame
  <1>2. /\ SetOverhead \in Nat /\ DeleteOverhead \in Nat \ {0}
        /\ DeleteFrame <= DeleteOverhead
        /\ SetOverhead * DeleteFrame <= DeleteOverhead * SetFrame
    BY <1>1, OverheadAssumption
  <1>3. (MaxRecord - CountLen) * DeleteFrame \in Nat
    BY <1>1
  <1>4. QED
    BY <1>1, <1>2, <1>3, DivBound DEF MaxFrameWithoutSizing
-----------------------------------------------------------------------------
(* Reading an op.                                                          *)

(* field: a length that was read is a number.                              *)
LEMMA LengthIsNat ==
  ASSUME NEW f, NEW i, HasField(f, i)
  PROVE  LengthAt(f, i) \in Nat
  <1>1. PICK len \in Lengths : IsLengthAt(f, i, len)
    BY DEF HasField
  <1>2. LengthAt(f, i) \in Lengths
    BY <1>1 DEF LengthAt
  <1>3. Base ^ LenBytes \in Nat
    BY WidthAssumption, Powers
  <1>4. QED
    BY <1>2, <1>3 DEF Lengths

(* walk: an op ends inside the frame and past its beginning, and its       *)
(* record outgrows its bytes no more than a delete's with an empty key.    *)
LEMMA OpSpan ==
  ASSUME NEW f, Len(f) \in Nat, NEW i \in Nat, HasOp(f, i)
  PROVE  /\ OpEnd(f, i) \in i + 1..Len(f)
         /\ RecordLen(f, i) \in Nat
         /\ RecordLen(f, i) * DeleteFrame <= DeleteOverhead * (OpEnd(f, i) - i)
  <1> USE Widths
  <1>1. CASE HasSet(f, i)
    <2>1. HasField(f, i + 1) /\ HasField(f, FieldEnd(f, i + 1)) /\ f[i + 1] = OpSet
      BY <1>1 DEF HasSet
    <2> DEFINE k == LengthAt(f, i + 1)
               v == LengthAt(f, FieldEnd(f, i + 1))
    <2>2. k \in Nat /\ v \in Nat
      BY <2>1, LengthIsNat
    <2>3. FieldEnd(f, i + 1) = i + 1 + LenBytes + k
      BY DEF FieldEnd
    <2>4. OpEnd(f, i) = FieldEnd(f, i + 1) + LenBytes + v
      BY <2>1 DEF OpEnd, FieldEnd
    <2>5. OpEnd(f, i) <= Len(f)
      BY <2>1 DEF HasField, OpEnd
    <2>6. RecordLen(f, i) = SetOverhead + (k + v)
      BY <2>1, <2>2 DEF RecordLen
    <2>7. OpEnd(f, i) - i = SetFrame + (k + v)
      BY <2>2, <2>3, <2>4 DEF SetFrame
    <2> HIDE DEF k, v
    <2>8. (SetOverhead + (k + v)) * DeleteFrame <= DeleteOverhead * (SetFrame + (k + v))
      BY <2>2, Rate
    <2>9. QED
      BY <2>2, <2>3, <2>4, <2>5, <2>6, <2>7, <2>8
  <1>2. CASE HasDelete(f, i)
    <2>1. HasField(f, i + 1) /\ f[i + 1] # OpSet
      BY <1>2 DEF HasDelete, OpSet, OpDelete
    <2> DEFINE k == LengthAt(f, i + 1)
    <2>2. k \in Nat
      BY <2>1, LengthIsNat
    <2>3. OpEnd(f, i) = i + 1 + LenBytes + k
      BY <2>1 DEF OpEnd, FieldEnd
    <2>4. OpEnd(f, i) <= Len(f)
      BY <2>1 DEF HasField, OpEnd
    <2>5. RecordLen(f, i) = DeleteOverhead + k
      BY <2>1 DEF RecordLen
    <2>6. OpEnd(f, i) - i = DeleteFrame + k
      BY <2>2, <2>3 DEF DeleteFrame
    <2> HIDE DEF k
    <2>7. DeleteOverhead * DeleteFrame <= DeleteOverhead * DeleteFrame
      OBVIOUS
    <2>8. (DeleteOverhead + k) * DeleteFrame <= DeleteOverhead * (DeleteFrame + k)
      BY <2>2, <2>7, Rate
    <2>9. QED
      BY <2>2, <2>3, <2>4, <2>5, <2>6, <2>8
  <1>3. QED
    BY <1>1, <1>2 DEF HasOp
-----------------------------------------------------------------------------
(* Packing yields bytes.                                                   *)

(* A length field is bytes, as many as it is wide.                         *)
LEMMA LengthFieldType ==
  ASSUME NEW len \in Nat
  PROVE  LengthField(len) \in Seq(Byte) /\ Len(LengthField(len)) = LenBytes
  <1>1. ASSUME NEW d \in 1..LenBytes
        PROVE  (len \div Base ^ (d - 1)) % Base \in Byte
    <2>1. d - 1 \in 0..LenBytes /\ Base \in Nat \ {0}
      BY WidthAssumption
    <2>2. Base ^ (d - 1) \in Nat \ {0}
      BY <2>1, Powers
    <2> DEFINE q == len \div Base ^ (d - 1)
    <2>3. q \in Nat
      BY <2>2, DivBound
    <2> HIDE DEF q
    <2>4. q % Base \in 0..Base - 1
      BY <2>1, <2>3
    <2>5. QED
      BY <2>4 DEF Byte, q
  <1>2. LengthField(len) \in [1..LenBytes -> Byte]
    BY <1>1 DEF LengthField
  <1>3. QED
    BY <1>2, WidthAssumption

(* With its payload, too.                                                  *)
LEMMA AppendFieldType ==
  ASSUME NEW b \in Seq(Byte), NEW field \in Seq(Byte)
  PROVE  /\ AppendField(b, field) \in Seq(Byte)
         /\ Len(AppendField(b, field)) = Len(b) + LenBytes + Len(field)
  <1>1. LengthField(Len(field)) \in Seq(Byte) /\ Len(LengthField(Len(field))) = LenBytes
    BY LengthFieldType
  <1>2. QED
    BY <1>1, WidthAssumption DEF AppendField

(* The ops there are, and those whose lengths a length field holds.        *)
Ops == {SetOp(key, value) : key, value \in Seq(Byte)} \cup {DeleteOp(key) : key \in Seq(Byte)}

Short == {o \in Ops : \A i \in 1..Len(o.fields) : Len(o.fields[i]) \in Lengths}

(* A tag, and one field or two, are what an op is.                         *)
LEMMA OpCases ==
  ASSUME NEW o \in Ops
  PROVE  \/ /\ o.tag = OpSet /\ Len(o.fields) = 2
            /\ o.fields[1] \in Seq(Byte) /\ o.fields[2] \in Seq(Byte)
            /\ o = SetOp(o.fields[1], o.fields[2])
         \/ /\ o.tag = OpDelete /\ o.tag # OpSet /\ Len(o.fields) = 1
            /\ o.fields[1] \in Seq(Byte) /\ o = DeleteOp(o.fields[1])
  <1>1. CASE \E key, value \in Seq(Byte) : o = SetOp(key, value)
    <2>1. PICK key \in Seq(Byte), value \in Seq(Byte) : o = SetOp(key, value)
      BY <1>1
    <2>2. o.tag = OpSet /\ o.fields = <<key, value>>
      BY <2>1 DEF SetOp
    <2>3. Len(<<key, value>>) = 2 /\ <<key, value>>[1] = key /\ <<key, value>>[2] = value
      OBVIOUS
    <2>4. QED
      BY <2>1, <2>2, <2>3
  <1>2. CASE \E key \in Seq(Byte) : o = DeleteOp(key)
    <2>1. PICK key \in Seq(Byte) : o = DeleteOp(key)
      BY <1>2
    <2>2. o.tag = OpDelete /\ o.fields = <<key>> /\ OpDelete # OpSet
      BY <2>1 DEF DeleteOp, OpDelete, OpSet
    <2>3. Len(<<key>>) = 1 /\ <<key>>[1] = key
      OBVIOUS
    <2>4. QED
      BY <2>1, <2>2, <2>3
  <1>3. QED
    BY <1>1, <1>2 DEF Ops

(* Set and Delete append bytes.                                            *)
LEMMA PackType ==
  ASSUME NEW b \in Seq(Byte), NEW o \in Ops
  PROVE  Pack(b, o) \in Seq(Byte)
  <1>1. Append(b, OpSet) \in Seq(Byte) /\ Append(b, OpDelete) \in Seq(Byte)
    BY WidthAssumption DEF OpSet, OpDelete, Byte
  <1>2. ASSUME NEW key \in Seq(Byte), NEW value \in Seq(Byte)
        PROVE  /\ AppendField(AppendField(Append(b, OpSet), key), value) \in Seq(Byte)
               /\ AppendField(Append(b, OpDelete), key) \in Seq(Byte)
    <2>1. AppendField(Append(b, OpSet), key) \in Seq(Byte)
      BY <1>1, AppendFieldType
    <2>2. QED
      BY <1>1, <2>1, AppendFieldType
  <1>3. QED
    BY <1>2, OpCases DEF Pack

(* What a Go caller packs are short ops.                                   *)
LEMMA GoOps ==
  ASSUME NEW key \in Payloads, NEW value \in Payloads
  PROVE  SetOp(key, value) \in Short /\ DeleteOp(key) \in Short
  <1>1. key \in Seq(Byte) /\ value \in Seq(Byte)
    BY WidthAssumption
  <1>2. Len(key) \in Lengths /\ Len(value) \in Lengths
    <2>1. Base ^ LenBytes \in Nat
      BY WidthAssumption, Powers
    <2>2. Len(key) \in Nat /\ Len(value) \in Nat
      BY <1>1
    <2>3. Len(key) < Base ^ LenBytes /\ Len(value) < Base ^ LenBytes
      BY WidthAssumption
    <2>4. QED
      BY <2>1, <2>2, <2>3 DEF Lengths
  <1>3. SetOp(key, value) \in Ops /\ DeleteOp(key) \in Ops
    BY <1>1 DEF Ops
  <1>4. ASSUME NEW i \in 1..2
        PROVE  Len(SetOp(key, value).fields[i]) \in Lengths
    <2>1. SetOp(key, value).fields = <<key, value>> /\ (i = 1 \/ i = 2)
      BY DEF SetOp
    <2>2. <<key, value>>[1] = key /\ <<key, value>>[2] = value
      OBVIOUS
    <2>3. QED
      BY <1>2, <2>1, <2>2
  <1>5. ASSUME NEW i \in 1..1
        PROVE  Len(DeleteOp(key).fields[i]) \in Lengths
    <2>1. DeleteOp(key).fields = <<key>> /\ i = 1
      BY DEF DeleteOp
    <2>2. <<key>>[1] = key
      OBVIOUS
    <2>3. QED
      BY <1>2, <2>1, <2>2
  <1>6. Len(SetOp(key, value).fields) = 2 /\ Len(DeleteOp(key).fields) = 1
    BY DEF SetOp, DeleteOp
  <1>7. QED
    BY <1>3, <1>4, <1>5, <1>6 DEF Short
-----------------------------------------------------------------------------
(* What the recursive functions over a batch compute.                      *)

(* x comes of w by going through the ops of s, one F after another.        *)
Turns(s, W, w, F, f) ==
  /\ f \in [0..Len(s) -> W] /\ f[0] = w
  /\ \A i \in 1..Len(s) : f[i] = F[<<f[i - 1], s[i]>>]

Folds(s, W, w, F, x) == \E f : Turns(s, W, w, F, f) /\ x = f[Len(s)]

(* There is a way through every sequence of ops.                           *)
LEMMA TurnsExist ==
  ASSUME NEW s \in Seq(Ops), NEW W, NEW w \in W, NEW F \in [W \X Ops -> W]
  PROVE  \E f : Turns(s, W, w, F, f)
  <1> DEFINE N == Len(s)
             G == [q \in (1..N) \X W |-> F[<<q[2], s[q[1]]>>]]
  <1>1. N \in Nat /\ \A i \in 1..N : s[i] \in Ops
    OBVIOUS
  <1>2. G \in [(1..N) \X W -> W]
    BY <1>1
  <1>3. Runs(N, W, w, G)
    <2> HIDE DEF G, N
    <2> QED BY <1>1, <1>2, Iteration
  <1>4. PICK f \in [0..N -> W] : f[0] = w /\ \A i \in 1..N : f[i] = G[<<i, f[i - 1]>>]
    <2> HIDE DEF G, N
    <2> QED BY <1>3 DEF Runs
  <1>5. ASSUME NEW i \in 1..N
        PROVE  f[i] = F[<<f[i - 1], s[i]>>]
    <2>1. i - 1 \in 0..N
      BY <1>1
    <2>2. f[i - 1] \in W
      BY <2>1
    <2>3. QED
      BY <1>4, <2>2
  <1>6. QED
    BY <1>4, <1>5 DEF Turns

(* A function that obeys the same equations goes the same way.             *)
LEMMA TurnsUnique ==
  ASSUME NEW s \in Seq(Ops), NEW t \in Seq(Ops), Len(s) <= Len(t),
         \A i \in 1..Len(s) : t[i] = s[i],
         NEW W, NEW w, NEW F, NEW f, Turns(s, W, w, F, f),
         NEW g, g[0] = w, \A i \in 1..Len(t) : g[i - 1] \in W => g[i] = F[<<g[i - 1], t[i]>>]
  PROVE  \A i \in 0..Len(s) : g[i] = f[i]
  <1> DEFINE Same == {k \in Nat : k <= Len(s) => g[k] = f[k]}
  <1>1. Len(s) \in Nat /\ Len(t) \in Nat
    OBVIOUS
  <1>2. 0 \in Same
    BY DEF Turns
  <1>3. ASSUME NEW k \in Nat, k \in Same
        PROVE  k + 1 \in Same
    <2> SUFFICES ASSUME k + 1 <= Len(s) PROVE g[k + 1] = f[k + 1]
      OBVIOUS
    <2>1. k + 1 \in 1..Len(s) /\ k + 1 \in 1..Len(t) /\ k + 1 - 1 = k /\ k \in 0..Len(s)
      BY <1>1
    <2>2. g[k] = f[k]
      BY <1>3, <2>1
    <2>3. f[k] \in W /\ f[k + 1] = F[<<f[k], s[k + 1]>>]
      BY <2>1 DEF Turns
    <2>4. g[k + 1] = F[<<g[k], t[k + 1]>>]
      BY <2>1, <2>2, <2>3
    <2>5. QED
      BY <2>1, <2>2, <2>3, <2>4
  <1>4. Nat \subseteq Same
    <2> HIDE DEF Same
    <2> QED BY <1>2, <1>3, Induction
  <1>5. QED
    BY <1>1, <1>4

(* One op more is one turn more.                                           *)
LEMMA FoldsAppend ==
  ASSUME NEW s \in Seq(Ops), NEW o \in Ops, NEW W, NEW w, NEW F,
         NEW x, Folds(s, W, w, F, x), NEW y, Folds(Append(s, o), W, w, F, y)
  PROVE  y = F[<<x, o>>]
  <1> DEFINE t == Append(s, o)
  <1>1. PICK f : Turns(s, W, w, F, f) /\ x = f[Len(s)]
    BY DEF Folds
  <1>2. PICK g : Turns(t, W, w, F, g) /\ y = g[Len(t)]
    BY DEF Folds
  <1>3. /\ t \in Seq(Ops) /\ Len(s) \in Nat /\ Len(t) = Len(s) + 1 /\ t[Len(s) + 1] = o
        /\ \A i \in 1..Len(s) : t[i] = s[i]
    OBVIOUS
  <1> HIDE DEF t
  <1>4. g[0] = w /\ \A i \in 1..Len(t) : g[i] = F[<<g[i - 1], t[i]>>]
    BY <1>2 DEF Turns
  <1>5. \A i \in 0..Len(s) : g[i] = f[i]
    BY <1>1, <1>3, <1>4, TurnsUnique
  <1>6. Len(s) + 1 \in 1..Len(t) /\ Len(s) + 1 - 1 = Len(s) /\ Len(s) \in 0..Len(s)
    BY <1>3
  <1>7. g[Len(t)] = F[<<g[Len(s)], o>>]
    BY <1>3, <1>4, <1>6
  <1>8. QED
    BY <1>1, <1>2, <1>5, <1>6, <1>7

(* No op is no turn.                                                       *)
LEMMA FoldsEmpty ==
  ASSUME NEW W, NEW w, NEW F, NEW x, Folds(<<>>, W, w, F, x)
  PROVE  x = w
  <1>1. Len(<<>>) = 0
    OBVIOUS
  <1>2. QED
    BY <1>1 DEF Folds, Turns

(* What comes of going through ops stays in the type.                      *)
LEMMA FoldsType ==
  ASSUME NEW s \in Seq(Ops), NEW W, NEW w, NEW F, NEW x, Folds(s, W, w, F, x)
  PROVE  x \in W
  <1>1. Len(s) \in 0..Len(s)
    OBVIOUS
  <1>2. QED
    BY <1>1 DEF Folds, Turns

(* Concat packs one op after another.                                      *)
Packing == [p \in Seq(Byte) \X Ops |-> Pack(p[1], p[2])]

LEMMA ConcatFolds ==
  ASSUME NEW s \in Seq(Ops)
  PROVE  Folds(s, Seq(Byte), <<>>, Packing, Concat(s))
  <1> DEFINE W == Seq(Byte)
             Body(f) == [i \in 0..Len(s) |-> IF i = 0 THEN <<>> ELSE Pack(f[i - 1], s[i])]
             g == CHOOSE f : f = Body(f)
  <1>1. Packing \in [W \X Ops -> W]
    BY PackType DEF Packing
  <1>2. <<>> \in W
    BY EmptySeq
  <1>3. PICK f : Turns(s, W, <<>>, Packing, f)
    <2> HIDE DEF W
    <2> QED BY <1>1, <1>2, TurnsExist
  <1>4. Len(s) \in Nat /\ \A i \in 1..Len(s) : s[i] \in Ops /\ i - 1 \in 0..Len(s) /\ i \in 0..Len(s)
    OBVIOUS
  <1>5. f = Body(f)
    <2>1. f \in [0..Len(s) -> W] /\ f[0] = <<>>
      BY <1>3 DEF Turns
    <2>2. ASSUME NEW i \in 0..Len(s)
          PROVE  f[i] = IF i = 0 THEN <<>> ELSE Pack(f[i - 1], s[i])
      <3>1. CASE i = 0
        BY <2>1, <3>1
      <3>2. CASE i # 0
        <4>1. i \in 1..Len(s)
          BY <1>4, <3>2
        <4>2. f[i - 1] \in W /\ s[i] \in Ops
          BY <1>4, <2>1, <4>1
        <4>3. f[i] = Packing[<<f[i - 1], s[i]>>]
          BY <1>3, <4>1 DEF Turns
        <4>4. QED
          BY <3>2, <4>2, <4>3 DEF Packing
      <3>3. QED
        BY <3>1, <3>2
    <2> HIDE DEF W
    <2>3. QED
      BY <2>1, <2>2
  <1>6. g = Body(g)
    BY <1>5
  <1>7. Concat(s) = g[Len(s)]
    BY DEF Concat
  <1> HIDE DEF g
  <1>8. g[0] = <<>> /\ \A i \in 1..Len(s) : g[i] = Pack(g[i - 1], s[i])
    <2>1. 0 \in 0..Len(s) /\ \A i \in 1..Len(s) : i \in 0..Len(s) /\ i # 0
      BY <1>4
    <2>2. QED
      BY <1>6, <2>1
  <1>9. \A i \in 1..Len(s) : g[i - 1] \in W => g[i] = Packing[<<g[i - 1], s[i]>>]
    BY <1>4, <1>8 DEF Packing
  <1>10. \A i \in 0..Len(s) : g[i] = f[i]
    <2> HIDE DEF W
    <2>1. g[0] = <<>> /\ Len(s) <= Len(s) /\ \A i \in 1..Len(s) : s[i] = s[i]
      BY <1>4, <1>8
    <2>2. QED
      BY <1>3, <1>9, <2>1, TurnsUnique
  <1>11. Len(s) \in 0..Len(s)
    BY <1>4
  <1>12. QED
    BY <1>3, <1>7, <1>10, <1>11 DEF Folds

(* Concat of one op more, and of none.                                     *)
LEMMA ConcatAppend ==
  ASSUME NEW s \in Seq(Ops), NEW o \in Ops
  PROVE  /\ Concat(s) \in Seq(Byte)
         /\ Concat(Append(s, o)) = Pack(Concat(s), o)
  <1>1. Append(s, o) \in Seq(Ops)
    OBVIOUS
  <1>2. Concat(s) \in Seq(Byte)
    BY ConcatFolds, FoldsType
  <1>3. Concat(Append(s, o)) = Packing[<<Concat(s), o>>]
    <2>1. /\ Folds(s, Seq(Byte), <<>>, Packing, Concat(s))
          /\ Folds(Append(s, o), Seq(Byte), <<>>, Packing, Concat(Append(s, o)))
      BY <1>1, ConcatFolds
    <2>2. QED
      BY <2>1, FoldsAppend
  <1>4. QED
    BY <1>2, <1>3 DEF Packing

LEMMA ConcatEmpty == Concat(<<>>) = <<>>
  <1>1. <<>> \in Seq(Ops)
    BY EmptySeq
  <1>2. QED
    BY <1>1, ConcatFolds, FoldsEmpty

(* Count, of any sequence of ops.                                          *)
CountIn(s, tag) ==
  LET c[i \in 0..Len(s)] ==
        IF i = 0 THEN 0 ELSE c[i - 1] + IF s[i].tag = tag THEN 1 ELSE 0
  IN  c[Len(s)]

Counting(tag) == [p \in Nat \X Ops |-> p[1] + IF p[2].tag = tag THEN 1 ELSE 0]

LEMMA CountFolds ==
  ASSUME NEW s \in Seq(Ops), NEW tag
  PROVE  Folds(s, Nat, 0, Counting(tag), CountIn(s, tag))
  <1> DEFINE Body(f) == [i \in 0..Len(s) |->
                           IF i = 0 THEN 0 ELSE f[i - 1] + IF s[i].tag = tag THEN 1 ELSE 0]
             g == CHOOSE f : f = Body(f)
             F == Counting(tag)
  <1>1. F \in [Nat \X Ops -> Nat]
    BY DEF Counting
  <1>2. \A k \in Nat, o \in Ops : F[<<k, o>>] = k + IF o.tag = tag THEN 1 ELSE 0
    BY DEF Counting
  <1> HIDE DEF F
  <1>3. PICK f : Turns(s, Nat, 0, F, f)
    BY <1>1, TurnsExist
  <1>4. Len(s) \in Nat /\ \A i \in 1..Len(s) : s[i] \in Ops /\ i - 1 \in 0..Len(s) /\ i \in 0..Len(s)
    OBVIOUS
  <1>5. f = Body(f)
    <2>1. f \in [0..Len(s) -> Nat] /\ f[0] = 0
      BY <1>3 DEF Turns
    <2>2. ASSUME NEW i \in 0..Len(s)
          PROVE  f[i] = IF i = 0 THEN 0 ELSE f[i - 1] + IF s[i].tag = tag THEN 1 ELSE 0
      <3>1. CASE i = 0
        BY <2>1, <3>1
      <3>2. CASE i # 0
        <4>1. i \in 1..Len(s)
          BY <1>4, <3>2
        <4>2. f[i - 1] \in Nat /\ s[i] \in Ops
          BY <1>4, <2>1, <4>1
        <4>3. f[i] = F[<<f[i - 1], s[i]>>]
          BY <1>3, <4>1 DEF Turns
        <4>4. QED
          BY <1>2, <3>2, <4>2, <4>3
      <3>3. QED
        BY <3>1, <3>2
    <2>3. QED
      BY <2>1, <2>2
  <1>6. g = Body(g)
    BY <1>5
  <1>7. CountIn(s, tag) = g[Len(s)]
    BY DEF CountIn
  <1> HIDE DEF g
  <1>8. g[0] = 0 /\ \A i \in 1..Len(s) : g[i] = g[i - 1] + IF s[i].tag = tag THEN 1 ELSE 0
    <2>1. 0 \in 0..Len(s) /\ \A i \in 1..Len(s) : i \in 0..Len(s) /\ i # 0
      BY <1>4
    <2>2. QED
      BY <1>6, <2>1
  <1>9. \A i \in 1..Len(s) : g[i - 1] \in Nat => g[i] = F[<<g[i - 1], s[i]>>]
    BY <1>2, <1>4, <1>8
  <1>10. \A i \in 0..Len(s) : g[i] = f[i]
    BY <1>3, <1>4, <1>8, <1>9, TurnsUnique
  <1>11. Len(s) \in 0..Len(s)
    BY <1>4
  <1>12. QED
    BY <1>3, <1>7, <1>10, <1>11 DEF Folds, F

(* Count of one op more, and of none.                                      *)
LEMMA CountAppend ==
  ASSUME NEW s \in Seq(Ops), NEW o \in Ops, NEW tag
  PROVE  /\ CountIn(s, tag) \in Nat
         /\ CountIn(Append(s, o), tag) = CountIn(s, tag) + IF o.tag = tag THEN 1 ELSE 0
  <1>1. Append(s, o) \in Seq(Ops)
    OBVIOUS
  <1>2. CountIn(s, tag) \in Nat
    BY CountFolds, FoldsType
  <1>3. CountIn(Append(s, o), tag) = Counting(tag)[<<CountIn(s, tag), o>>]
    <2>1. /\ Folds(s, Nat, 0, Counting(tag), CountIn(s, tag))
          /\ Folds(Append(s, o), Nat, 0, Counting(tag), CountIn(Append(s, o), tag))
      BY <1>1, CountFolds
    <2>2. QED
      BY <2>1, FoldsAppend
  <1>4. QED
    BY <1>2, <1>3 DEF Counting

LEMMA CountEmpty ==
  ASSUME NEW tag
  PROVE  CountIn(<<>>, tag) = 0
  <1>1. <<>> \in Seq(Ops)
    BY EmptySeq
  <1>2. QED
    BY <1>1, CountFolds, FoldsEmpty
-----------------------------------------------------------------------------
(* Bytes in a frame.                                                       *)

(* The bytes b are in f, from offset i on.                                 *)
Holds(f, i, b) == i + Len(b) <= Len(f) /\ \A j \in 1..Len(b) : f[i + j] = b[j]

(* The bytes of one op.                                                    *)
Packed(o) == Pack(<<>>, o)

(* What holds two pieces holds each of them.                               *)
LEMMA HoldsBoth ==
  ASSUME NEW f \in Seq(Byte), NEW i \in Nat, NEW b \in Seq(Byte), NEW c \in Seq(Byte),
         Holds(f, i, b \o c)
  PROVE  Holds(f, i, b) /\ Holds(f, i + Len(b), c)
  <1>1. Len(b) \in Nat /\ Len(c) \in Nat /\ Len(f) \in Nat
    OBVIOUS
  <1>2. /\ Len(b \o c) = Len(b) + Len(c)
        /\ \A j \in 1..Len(b) + Len(c) :
              (b \o c)[j] = IF j <= Len(b) THEN b[j] ELSE c[j - Len(b)]
    BY ConcatProperties
  <1>3. Holds(f, i, b)
    BY <1>1, <1>2 DEF Holds
  <1>4. ASSUME NEW j \in 1..Len(c)
        PROVE  f[i + Len(b) + j] = c[j]
    <2>1. /\ Len(b) + j \in 1..Len(b) + Len(c) /\ ~(Len(b) + j <= Len(b))
          /\ Len(b) + j - Len(b) = j /\ i + (Len(b) + j) = i + Len(b) + j
      BY <1>1
    <2>2. QED
      BY <1>2, <2>1 DEF Holds
  <1>5. QED
    BY <1>1, <1>2, <1>3, <1>4 DEF Holds

(* The other way round.                                                    *)
LEMMA HoldsConcat ==
  ASSUME NEW b \in Seq(Byte), NEW c \in Seq(Byte)
  PROVE  /\ Holds(b \o c, 0, b) /\ Holds(b \o c, Len(b), c)
         /\ Len(b \o c) = Len(b) + Len(c) /\ b \o c \in Seq(Byte)
  <1>1. Len(b) \in Nat /\ Len(c) \in Nat
    OBVIOUS
  <1>2. /\ b \o c \in Seq(Byte) /\ Len(b \o c) = Len(b) + Len(c)
        /\ \A j \in 1..Len(b) + Len(c) :
              (b \o c)[j] = IF j <= Len(b) THEN b[j] ELSE c[j - Len(b)]
    BY ConcatProperties
  <1>3. Holds(b \o c, 0, b)
    BY <1>1, <1>2 DEF Holds
  <1>4. ASSUME NEW j \in 1..Len(c)
        PROVE  (b \o c)[Len(b) + j] = c[j]
    BY <1>1, <1>2
  <1>5. QED
    BY <1>1, <1>2, <1>3, <1>4 DEF Holds

(* What is held in a held piece is held.                                   *)
LEMMA HoldsIn ==
  ASSUME NEW f \in Seq(Byte), NEW b \in Seq(Byte), NEW c \in Seq(Byte), NEW i \in Nat,
         Holds(f, 0, b), Holds(b, i, c)
  PROVE  Holds(f, i, c)
  <1>1. Len(b) \in Nat /\ Len(c) \in Nat /\ Len(f) \in Nat
    OBVIOUS
  <1>2. Len(b) <= Len(f) /\ i + Len(c) <= Len(b)
    BY <1>1 DEF Holds
  <1>3. ASSUME NEW j \in 1..Len(c)
        PROVE  f[i + j] = c[j]
    <2>1. i + j \in 1..Len(b) /\ 0 + (i + j) = i + j
      BY <1>1, <1>2
    <2>2. QED
      BY <2>1 DEF Holds
  <1>4. QED
    BY <1>1, <1>2, <1>3 DEF Holds

(* A piece of a frame, byte by byte.                                       *)
LEMMA Cut ==
  ASSUME NEW f \in Seq(Byte), NEW i \in Nat, NEW k \in Nat, i + k <= Len(f)
  PROVE  /\ SubSeq(f, i + 1, i + k) \in Seq(Byte) /\ Len(SubSeq(f, i + 1, i + k)) = k
         /\ \A j \in 1..k : SubSeq(f, i + 1, i + k)[j] = f[i + j]
  <1> DEFINE m == i + 1
             e == i + k
  <1>1. m \in Int /\ e \in Int /\ e - m + 1 = k /\ (m <= e <=> k # 0) /\ Len(f) \in Nat
    OBVIOUS
  <1>2. \A j \in m..e : f[j] \in Byte
    BY <1>1
  <1>3. \A j \in 1..k : m + j - 1 = i + j
    OBVIOUS
  <1> HIDE DEF m, e
  <1>4. /\ SubSeq(f, m, e) \in Seq(Byte)
        /\ Len(SubSeq(f, m, e)) = IF m <= e THEN e - m + 1 ELSE 0
        /\ \A j \in 1..e - m + 1 : SubSeq(f, m, e)[j] = f[m + j - 1]
    BY <1>1, <1>2, SubSeqProperties
  <1>5. Len(SubSeq(f, m, e)) = k /\ \A j \in 1..k : SubSeq(f, m, e)[j] = f[i + j]
    BY <1>1, <1>3, <1>4
  <1>6. QED
    BY <1>4, <1>5 DEF m, e

(* Bytes that are held can be cut out.                                     *)
LEMMA HoldsCut ==
  ASSUME NEW f \in Seq(Byte), NEW i \in Nat, NEW b \in Seq(Byte), Holds(f, i, b)
  PROVE  SubSeq(f, i + 1, i + Len(b)) = b
  <1>1. Len(b) \in Nat /\ i + Len(b) <= Len(f)
    BY DEF Holds
  <1> DEFINE t == SubSeq(f, i + 1, i + Len(b))
  <1>2. t \in Seq(Byte) /\ Len(t) = Len(b) /\ \A j \in 1..Len(b) : t[j] = f[i + j]
    BY <1>1, Cut
  <1> HIDE DEF t
  <1>3. \A j \in 1..Len(t) : t[j] = b[j]
    BY <1>2 DEF Holds
  <1>4. t = b
    BY <1>2, <1>3, SeqEqual
  <1>5. QED
    BY <1>4 DEF t

(* A tag and two fields, or one.                                           *)
LEMMA Widen ==
  ASSUME NEW l \in Nat, NEW k \in Nat, NEW v \in Nat, NEW x, NEW y,
         x = 1 + l + k, y = x + l + v
  PROVE  /\ x \in Nat \ {0} /\ x = 1 + l + k
         /\ y \in Nat \ {0} /\ y = (1 + 2 * l) + k + v
  OBVIOUS

(* Appending twice is appending both.                                      *)
LEMMA Regroup ==
  ASSUME NEW B, NEW a \in Seq(B), NEW b \in Seq(B), NEW c \in Seq(B)
  PROVE  (a \o b) \o c = a \o (b \o c)
  BY ConcatAssociative

LEMMA RegroupBytes == \A a, b, c \in Seq(Byte) : (a \o b) \o c = a \o (b \o c)
  BY Regroup

(* Packing an op appends its bytes to what is there.                       *)
LEMMA PackAppends ==
  ASSUME NEW b \in Seq(Byte), NEW o \in Ops
  PROVE  /\ Packed(o) \in Seq(Byte) /\ Len(Packed(o)) \in Nat \ {0}
         /\ Len(Packed(o)) = IF o.tag = OpSet
                               THEN SetFrame + Len(o.fields[1]) + Len(o.fields[2])
                               ELSE DeleteFrame + Len(o.fields[1])
         /\ Pack(b, o) = b \o Packed(o)
  <1>0. LenBytes \in Nat
    BY Widths
  <1>1. <<>> \in Seq(Byte)
    BY EmptySeq
  <1>2. OpSet \in Byte /\ OpDelete \in Byte
    BY WidthAssumption DEF OpSet, OpDelete, Byte
  <1>3. /\ Append(b, OpSet) = b \o <<OpSet>> /\ Append(<<>>, OpSet) = <<OpSet>>
        /\ Append(b, OpDelete) = b \o <<OpDelete>> /\ Append(<<>>, OpDelete) = <<OpDelete>>
        /\ <<OpSet>> \in Seq(Byte) /\ <<OpDelete>> \in Seq(Byte)
        /\ Len(<<OpSet>>) = 1 /\ Len(<<OpDelete>>) = 1
    <2>1. ASSUME NEW x \in Byte
          PROVE  Append(<<>>, x) = <<x>> /\ <<x>> \in Seq(Byte) /\ Len(<<x>>) = 1
      OBVIOUS
    <2>2. ASSUME NEW x \in Byte
          PROVE  Append(b, x) = b \o <<x>>
      BY AppendIsConcat
    <2>3. QED
      BY <1>2, <2>1, <2>2
  <1>4. ASSUME NEW a \in Seq(Byte), NEW field \in Seq(Byte)
        PROVE  AppendField(b \o a, field) = b \o AppendField(a, field)
    <2>1. LengthField(Len(field)) \in Seq(Byte)
      BY LengthFieldType
    <2> DEFINE l == LengthField(Len(field))
    <2> HIDE DEF l
    <2>2. l \in Seq(Byte) /\ b \o a \in Seq(Byte) /\ a \o l \in Seq(Byte)
      BY <2>1 DEF l
    <2> DEFINE c == a \o l
    <2>3. (b \o a) \o l = b \o c
      BY <2>2, RegroupBytes
    <2>4. c \in Seq(Byte)
      BY <2>2
    <2> HIDE DEF c
    <2>5. (b \o c) \o field = b \o (c \o field)
      BY <2>4, RegroupBytes
    <2>6. QED
      BY <2>3, <2>5 DEF AppendField, l, c
  <1>5. Packed(o) \in Seq(Byte)
    BY <1>1, PackType DEF Packed
  <1>6. CASE o.tag = OpSet
    <2> DEFINE key == o.fields[1]
               value == o.fields[2]
               x == AppendField(<<OpSet>>, key)
    <2>1. key \in Seq(Byte) /\ value \in Seq(Byte)
      BY <1>6, OpCases
    <2>2. Packed(o) = AppendField(x, value)
      BY <1>3, <1>6 DEF Packed, Pack
    <2>3. Pack(b, o) = AppendField(AppendField(b \o <<OpSet>>, key), value)
      BY <1>3, <1>6 DEF Pack
    <2> HIDE DEF key, value
    <2>4. x \in Seq(Byte) /\ Len(x) = 1 + LenBytes + Len(key)
          /\ AppendField(b \o <<OpSet>>, key) = b \o x
      BY <1>3, <1>4, <2>1, AppendFieldType
    <2> HIDE DEF x
    <2>5. Pack(b, o) = b \o Packed(o) /\ Len(Packed(o)) = Len(x) + LenBytes + Len(value)
      BY <1>4, <2>1, <2>2, <2>3, <2>4, AppendFieldType
    <2>6. Len(key) \in Nat /\ Len(value) \in Nat
      BY <2>1, LenProperties
    <2>7. /\ Len(Packed(o)) \in Nat \ {0}
          /\ Len(Packed(o)) = (1 + 2 * LenBytes) + Len(key) + Len(value)
      BY <1>0, <2>4, <2>5, <2>6, Widen
    <2>8. QED
      BY <1>5, <1>6, <2>5, <2>7 DEF key, value, SetFrame
  <1>7. CASE o.tag # OpSet
    <2> DEFINE key == o.fields[1]
    <2>1. key \in Seq(Byte)
      BY <1>7, OpCases
    <2>2. Packed(o) = AppendField(<<OpDelete>>, key) /\ Pack(b, o) = AppendField(b \o <<OpDelete>>, key)
      BY <1>3, <1>7 DEF Packed, Pack
    <2> HIDE DEF key
    <2>3. Pack(b, o) = b \o Packed(o) /\ Len(Packed(o)) = 1 + LenBytes + Len(key)
      <3>1. Len(AppendField(<<OpDelete>>, key)) = Len(<<OpDelete>>) + LenBytes + Len(key)
        BY <1>3, <2>1, AppendFieldType
      <3>2. QED
        BY <1>3, <1>4, <2>1, <2>2, <3>1
    <2>4. Len(key) \in Nat
      BY <2>1, LenProperties
    <2>5. Len(Packed(o)) \in Nat \ {0}
      BY <1>0, <2>3, <2>4, Widen
    <2>6. QED
      BY <1>5, <1>7, <2>3, <2>5 DEF key, DeleteFrame
  <1>8. QED
    BY <1>6, <1>7
-----------------------------------------------------------------------------
(* Digits tell numbers apart.                                              *)

(* A quotient below one is none.                                           *)
LEMMA DivSmall ==
  ASSUME NEW x \in Nat, NEW p \in Nat \ {0}, x < p
  PROVE  x \div p = 0
  OBVIOUS

(* Dividing by a product is dividing twice.                                *)
LEMMA DivTwice ==
  ASSUME NEW x \in Nat, NEW p \in Nat \ {0}, NEW q \in Nat \ {0}
  PROVE  x \div (q * p) = (x \div p) \div q
  OBVIOUS

(* The quotient and the remainder are the number.                          *)
LEMMA DivMod ==
  ASSUME NEW x \in Nat, NEW q \in Nat \ {0}
  PROVE  x = q * (x \div q) + (x % q)
  OBVIOUS

(* Two lengths with the same digits are the same.                          *)
LEMMA DigitsDecide ==
  ASSUME NEW f, NEW i, NEW x \in Lengths, NEW y \in Lengths,
         IsLengthAt(f, i, x), IsLengthAt(f, i, y)
  PROVE  x = y
  <1> DEFINE L == LenBytes
             High(z, k) == z \div Base ^ (L - k)
             S == {k \in Nat : k <= L => High(x, k) = High(y, k)}
  <1>1. L \in Nat /\ Base \in Nat \ {0} /\ \A d \in 0..L : Base ^ d \in Nat \ {0}
    BY WidthAssumption, Powers
  <1>2. x \in Nat /\ y \in Nat /\ x < Base ^ L /\ y < Base ^ L
    <2>1. Base ^ L \in Nat
      BY <1>1
    <2>2. QED
      BY <2>1 DEF Lengths
  <1>3. 0 \in S
    <2>1. L - 0 = L /\ Base ^ L \in Nat \ {0}
      BY <1>1
    <2>2. x \div Base ^ L = 0 /\ y \div Base ^ L = 0
      BY <1>2, <2>1, DivSmall
    <2>3. QED
      BY <2>1, <2>2
  <1>4. ASSUME NEW k \in Nat, k \in S
        PROVE  k + 1 \in S
    <2>1. SUFFICES ASSUME k + 1 <= L
                   PROVE  High(x, k + 1) = High(y, k + 1)
      OBVIOUS
    <2> DEFINE p == Base ^ (L - (k + 1))
               d == L - k
    <2>2. d \in 1..L /\ L - (k + 1) = d - 1 /\ d - 1 \in 0..L
      BY <1>1, <2>1
    <2>3. p \in Nat \ {0} /\ Base ^ d = Base * p
      BY <1>1, <2>2, PowerAssumption
    <2>4. x \div Base ^ d = y \div Base ^ d
      BY <1>1, <1>4, <2>1
    <2>5. (x \div p) % Base = (y \div p) % Base
      BY <2>2 DEF IsLengthAt
    <2> HIDE DEF p
    <2>6. x \div (Base * p) = (x \div p) \div Base /\ y \div (Base * p) = (y \div p) \div Base
      BY <1>1, <1>2, <2>3, DivTwice, Zenon
    <2> DEFINE u == x \div p
               v == y \div p
    <2>7. u \in Nat /\ v \in Nat
      BY <1>2, <2>3, DivBound
    <2>8. u \div Base = v \div Base /\ u % Base = v % Base
      BY <2>3, <2>4, <2>5, <2>6
    <2> HIDE DEF u, v
    <2>9. u = Base * (u \div Base) + (u % Base) /\ v = Base * (v \div Base) + (v % Base)
      BY <1>1, <2>7, DivMod
    <2>10. u = v
      BY <2>8, <2>9
    <2>11. QED
      BY <2>10 DEF u, v, p
  <1>5. Nat \subseteq S
    <2> HIDE DEF S
    <2> QED BY <1>3, <1>4, Induction
  <1>6. x \div 1 = y \div 1
    <2>1. L \in S /\ L <= L /\ L - L = 0
      BY <1>1, <1>5
    <2>2. QED
      BY <2>1, PowerAssumption
  <1>7. QED
    BY <1>2, <1>6

(* field reads back what Set and Delete wrote.                             *)
LEMMA FieldRead ==
  ASSUME NEW f \in Seq(Byte), NEW i \in Nat, NEW x \in Seq(Byte), Len(x) \in Lengths,
         Holds(f, i, LengthField(Len(x)) \o x)
  PROVE  /\ HasField(f, i) /\ Field(f, i) = x /\ LengthAt(f, i) = Len(x)
         /\ FieldEnd(f, i) = i + LenBytes + Len(x)
  <1> DEFINE l == LengthField(Len(x))
  <1>1. LenBytes \in Nat /\ Len(x) \in Nat /\ Len(f) \in Nat
    BY Widths
  <1>2. l \in Seq(Byte) /\ Len(l) = LenBytes
    BY <1>1, LengthFieldType
  <1> HIDE DEF l
  <1>3. Holds(f, i, l) /\ Holds(f, i + LenBytes, x)
    BY <1>2, HoldsBoth DEF l
  <1>4. IsLengthAt(f, i, Len(x))
    BY <1>2, <1>3 DEF Holds, IsLengthAt, LengthField, l
  <1>5. LengthAt(f, i) \in Lengths /\ IsLengthAt(f, i, LengthAt(f, i))
    BY <1>4 DEF LengthAt
  <1>6. LengthAt(f, i) = Len(x)
    BY <1>4, <1>5, DigitsDecide
  <1>7. FieldEnd(f, i) = i + LenBytes + Len(x)
    BY <1>6 DEF FieldEnd
  <1>8. i + LenBytes + Len(x) <= Len(f)
    BY <1>3 DEF Holds
  <1>9. HasField(f, i)
    BY <1>1, <1>4, <1>7, <1>8 DEF HasField
  <1>10. SubSeq(f, i + LenBytes + 1, i + LenBytes + Len(x)) = x
    BY <1>1, <1>3, HoldsCut
  <1>11. QED
    BY <1>6, <1>7, <1>9, <1>10 DEF Field

(* The field that ends some bytes, read back.                              *)
LEMMA FieldHeld ==
  ASSUME NEW f \in Seq(Byte), NEW i \in Nat, NEW b \in Seq(Byte),
         NEW x \in Seq(Byte), Len(x) \in Lengths, Holds(f, i, AppendField(b, x))
  PROVE  /\ Holds(f, i, b) /\ HasField(f, i + Len(b)) /\ Field(f, i + Len(b)) = x
         /\ LengthAt(f, i + Len(b)) = Len(x)
         /\ FieldEnd(f, i + Len(b)) = i + Len(AppendField(b, x))
  <1> DEFINE l == LengthField(Len(x))
  <1>1. LenBytes \in Nat
    BY Widths
  <1> l \in Seq(Byte)
    BY LengthFieldType, LenProperties
  <1>2. AppendField(b, x) = b \o l \o x
    BY DEF AppendField
  <1> HIDE DEF l
  <1> DEFINE c == l \o x
  <1>3. b \o l \o x = b \o c
    BY RegroupBytes
  <1>4. c \in Seq(Byte)
    OBVIOUS
  <1>5. Holds(f, i, b \o c)
    BY <1>2, <1>3
  <1> HIDE DEF c
  <1>6. Holds(f, i, b) /\ Holds(f, i + Len(b), c)
    BY <1>4, <1>5, HoldsBoth
  <1>7. i + Len(b) \in Nat /\ Len(b) \in Nat /\ Len(x) \in Nat
    BY LenProperties
  <1>8. /\ HasField(f, i + Len(b)) /\ Field(f, i + Len(b)) = x
        /\ LengthAt(f, i + Len(b)) = Len(x)
        /\ FieldEnd(f, i + Len(b)) = i + Len(b) + LenBytes + Len(x)
    BY <1>6, <1>7, FieldRead DEF c, l
  <1>9. Len(AppendField(b, x)) = Len(b) + LenBytes + Len(x)
    BY AppendFieldType
  <1>10. i + Len(b) + LenBytes + Len(x) = i + (Len(b) + LenBytes + Len(x))
    BY <1>1, <1>7
  <1>11. QED
    BY <1>6, <1>8, <1>9, <1>10

(* walk reads back the op that Set or Delete packed.                       *)
LEMMA OpRead ==
  ASSUME NEW f \in Seq(Byte), NEW i \in Nat, NEW o \in Short, Holds(f, i, Packed(o))
  PROVE  /\ HasOp(f, i) /\ OpAt(f, i) = o
         /\ OpEnd(f, i) = i + Len(Packed(o)) /\ RecordLen(f, i) = Charge(o)
  <1>1. o \in Ops /\ \A j \in 1..Len(o.fields) : Len(o.fields[j]) \in Lengths
    BY DEF Short
  <1>2. ASSUME NEW t \in {OpSet, OpDelete}
        PROVE  /\ Append(<<>>, t) \in Seq(Byte) /\ Len(Append(<<>>, t)) = 1
               /\ Append(<<>>, t)[1] = t
    <2>1. t \in Byte
      BY WidthAssumption DEF OpSet, OpDelete, Byte
    <2>2. QED
      BY <2>1
  <1>3. CASE o.tag = OpSet
    <2> DEFINE key == o.fields[1]
               value == o.fields[2]
               b == Append(<<>>, OpSet)
               c == AppendField(b, key)
    <2>1. key \in Seq(Byte) /\ value \in Seq(Byte) /\ o = SetOp(key, value) /\ Len(o.fields) = 2
      BY <1>1, <1>3, OpCases
    <2>2. Len(key) \in Lengths /\ Len(value) \in Lengths
      BY <1>1, <2>1
    <2>3. Len(b) = 1 /\ b[1] = OpSet
      BY <1>2
    <2> b \in Seq(Byte)
      BY <1>2
    <2>4. c \in Seq(Byte) /\ Len(c) \in Nat
      BY <2>1, AppendFieldType, LenProperties
    <2>5. Packed(o) = AppendField(c, value)
      BY <1>3 DEF Packed, Pack
    <2> HIDE DEF key, value, b, c
    <2>6. /\ Holds(f, i, c) /\ HasField(f, i + Len(c)) /\ Field(f, i + Len(c)) = value
          /\ LengthAt(f, i + Len(c)) = Len(value)
          /\ FieldEnd(f, i + Len(c)) = i + Len(Packed(o))
      BY <2>1, <2>2, <2>4, <2>5, FieldHeld
    <2>7. Holds(f, i, AppendField(b, key))
      BY <2>6 DEF c
    <2>8. /\ Holds(f, i, b) /\ HasField(f, i + Len(b)) /\ Field(f, i + Len(b)) = key
          /\ LengthAt(f, i + Len(b)) = Len(key)
          /\ FieldEnd(f, i + Len(b)) = i + Len(AppendField(b, key))
      BY <2>1, <2>2, <2>7, FieldHeld
    <2>9. FieldEnd(f, i + 1) = i + Len(c)
      BY <2>3, <2>8 DEF c
    <2>10. f[i + 1] = OpSet
      BY <2>3, <2>8 DEF Holds
    <2>11. HasSet(f, i) /\ OpEnd(f, i) = i + Len(Packed(o)) /\ OpAt(f, i) = SetOp(key, value)
      BY <2>3, <2>6, <2>8, <2>9, <2>10 DEF HasSet, OpEnd, OpAt
    <2>12. RecordLen(f, i) = SetOverhead + Len(key) + Len(value)
      BY <2>3, <2>6, <2>8, <2>9, <2>10 DEF RecordLen
    <2>13. RecordLen(f, i) = Charge(o)
      BY <1>3, <2>12 DEF Charge, key, value
    <2>14. QED
      BY <2>1, <2>11, <2>13 DEF HasOp
  <1>4. CASE o.tag # OpSet
    <2> DEFINE key == o.fields[1]
               b == Append(<<>>, OpDelete)
    <2>1. key \in Seq(Byte) /\ o = DeleteOp(key) /\ Len(o.fields) = 1
      BY <1>1, <1>4, OpCases
    <2>2. Len(key) \in Lengths
      BY <1>1, <2>1
    <2>3. Len(b) = 1 /\ b[1] = OpDelete
      BY <1>2
    <2> b \in Seq(Byte)
      BY <1>2
    <2>4. Packed(o) = AppendField(b, key)
      BY <1>4 DEF Packed, Pack
    <2> HIDE DEF key, b
    <2>5. /\ Holds(f, i, b) /\ HasField(f, i + Len(b)) /\ Field(f, i + Len(b)) = key
          /\ LengthAt(f, i + Len(b)) = Len(key)
          /\ FieldEnd(f, i + Len(b)) = i + Len(Packed(o))
      BY <2>1, <2>2, <2>4, FieldHeld
    <2>6. f[i + 1] = OpDelete /\ OpDelete # OpSet
      BY <2>3, <2>5 DEF Holds, OpSet, OpDelete
    <2>7. HasDelete(f, i) /\ OpEnd(f, i) = i + Len(Packed(o)) /\ OpAt(f, i) = DeleteOp(key)
      BY <2>3, <2>5, <2>6 DEF HasDelete, OpEnd, OpAt
    <2>8. RecordLen(f, i) = DeleteOverhead + Len(key)
      BY <2>3, <2>5, <2>6 DEF RecordLen
    <2>9. RecordLen(f, i) = Charge(o)
      BY <1>4, <2>8 DEF Charge, key
    <2>10. QED
      BY <2>1, <2>7, <2>9 DEF HasOp
  <1>5. QED
    BY <1>3, <1>4

(* A field that is in the frame, packed again behind the bytes before it,  *)
(* is the frame up to its end.                                             *)
LEMMA FieldCopied ==
  ASSUME NEW f \in Seq(Byte), NEW i \in Nat, HasField(f, i)
  PROVE  /\ Field(f, i) \in Seq(Byte) /\ FieldEnd(f, i) \in Nat
         /\ AppendField(SubSeq(f, 1, i), Field(f, i)) = SubSeq(f, 1, FieldEnd(f, i))
  <1> DEFINE x == Field(f, i)
             len == LengthAt(f, i)
             l == SubSeq(f, i + 1, i + LenBytes)
  <1>1. PICK m \in Lengths : IsLengthAt(f, i, m)
    BY DEF HasField
  <1>2. len \in Nat /\ IsLengthAt(f, i, len)
    BY <1>1, LengthIsNat DEF LengthAt
  <1> HIDE DEF len
  <1>3. LenBytes \in Nat /\ Len(f) \in Nat
    BY Widths
  <1>4. FieldEnd(f, i) = i + LenBytes + len /\ i + LenBytes + len <= Len(f)
    BY DEF FieldEnd, HasField, len
  <1>5. x = SubSeq(f, i + LenBytes + 1, i + LenBytes + len)
    BY <1>4 DEF Field
  <1>6. x \in Seq(Byte) /\ Len(x) = len
    <2>1. i + LenBytes \in Nat
      BY <1>3
    <2> HIDE DEF x
    <2>2. QED
      BY <1>2, <1>4, <1>5, <2>1, Cut
  <1>7. l = LengthField(len)
    <2>1. i + LenBytes <= Len(f)
      BY <1>2, <1>3, <1>4
    <2>2. l \in Seq(Byte) /\ Len(l) = LenBytes /\ \A j \in 1..LenBytes : l[j] = f[i + j]
      BY <1>3, <2>1, Cut
    <2> HIDE DEF l
    <2> DEFINE r == LengthField(len)
    <2>3. r \in Seq(Byte) /\ Len(r) = LenBytes
      BY <1>2, LengthFieldType
    <2>4. \A j \in 1..LenBytes : l[j] = r[j]
      BY <1>2, <2>2 DEF IsLengthAt, LengthField
    <2> HIDE DEF r
    <2>5. l = r
      BY <2>2, <2>3, <2>4, SeqEqual
    <2>6. QED
      BY <2>5 DEF r
  <1>8. SubSeq(f, 1, i) \o l = SubSeq(f, 1, i + LenBytes)
    <2>1. 1 \in 1..Len(f) + 1 /\ i \in 1 - 1..Len(f) /\ i + LenBytes \in i..Len(f)
      BY <1>2, <1>3, <1>4
    <2>2. QED
      BY <2>1, ConcatAdjacentSubSeq
  <1>9. SubSeq(f, 1, i + LenBytes) \o x = SubSeq(f, 1, FieldEnd(f, i))
    <2>1. /\ 1 \in 1..Len(f) + 1 /\ i + LenBytes \in 1 - 1..Len(f)
          /\ i + LenBytes + len \in i + LenBytes..Len(f)
      BY <1>2, <1>3, <1>4
    <2> HIDE DEF x
    <2>2. QED
      BY <1>4, <1>5, <2>1, ConcatAdjacentSubSeq
  <1>10. AppendField(SubSeq(f, 1, i), x) = SubSeq(f, 1, i) \o l \o x
    <2> HIDE DEF x, l
    <2> QED BY <1>6, <1>7 DEF AppendField
  <1>11. FieldEnd(f, i) \in Nat
    BY <1>2, <1>3, <1>4
  <1>12. QED
    BY <1>6, <1>8, <1>9, <1>10, <1>11

(* An op that is in the frame is one, and packed again behind the bytes    *)
(* before it is the frame up to its end.                                   *)
LEMMA OpCopied ==
  ASSUME NEW f \in Seq(Byte), NEW i \in Nat, i < Len(f), HasOp(f, i)
  PROVE  /\ OpAt(f, i) \in Ops
         /\ Pack(SubSeq(f, 1, i), OpAt(f, i)) = SubSeq(f, 1, OpEnd(f, i))
  <1>1. Len(f) \in Nat /\ i + 1 \in Nat
    OBVIOUS
  <1>2. Append(SubSeq(f, 1, i), f[i + 1]) = SubSeq(f, 1, i + 1)
    <2>1. 1 \in 1..Len(f) /\ i + 1 \in 1..Len(f) /\ i + 1 - 1 = i
      BY <1>1
    <2>2. SubSeq(f, 1, i + 1) = SubSeq(f, 1, i + 1 - 1) \o <<f[i + 1]>>
      BY <2>1, SubSeqRecursiveSecond
    <2>3. SubSeq(f, 1, i) \in Seq(Byte) /\ f[i + 1] \in Byte
      BY <1>1
    <2>4. Append(SubSeq(f, 1, i), f[i + 1]) = SubSeq(f, 1, i) \o <<f[i + 1]>>
      BY <2>3, AppendIsConcat
    <2>5. QED
      BY <2>1, <2>2, <2>4
  <1>3. CASE HasSet(f, i)
    <2> DEFINE key == Field(f, i + 1)
               e == FieldEnd(f, i + 1)
               value == Field(f, e)
    <2>1. f[i + 1] = OpSet /\ HasField(f, i + 1) /\ HasField(f, e)
      BY <1>3 DEF HasSet
    <2>2. /\ key \in Seq(Byte) /\ e \in Nat
          /\ AppendField(SubSeq(f, 1, i + 1), key) = SubSeq(f, 1, e)
      BY <1>1, <2>1, FieldCopied
    <2>3. /\ value \in Seq(Byte)
          /\ AppendField(SubSeq(f, 1, e), value) = SubSeq(f, 1, FieldEnd(f, e))
      <3> HIDE DEF e
      <3> QED BY <2>1, <2>2, FieldCopied
    <2>4. OpAt(f, i) = SetOp(key, value) /\ OpEnd(f, i) = FieldEnd(f, e)
      BY <2>1 DEF OpAt, OpEnd
    <2> HIDE DEF key, value, e
    <2>5. SetOp(key, value).tag = OpSet /\ SetOp(key, value).fields = <<key, value>>
      BY DEF SetOp
    <2>6. <<key, value>>[1] = key /\ <<key, value>>[2] = value
      OBVIOUS
    <2>7. SetOp(key, value) \in Ops
      BY <2>2, <2>3 DEF Ops
    <2>8. Pack(SubSeq(f, 1, i), OpAt(f, i)) =
            AppendField(AppendField(Append(SubSeq(f, 1, i), OpSet), key), value)
      BY <2>4, <2>5, <2>6 DEF Pack
    <2>9. QED
      BY <1>2, <2>1, <2>2, <2>3, <2>4, <2>7, <2>8
  <1>4. CASE HasDelete(f, i)
    <2> DEFINE key == Field(f, i + 1)
               e == FieldEnd(f, i + 1)
    <2>1. f[i + 1] = OpDelete /\ OpDelete # OpSet /\ HasField(f, i + 1)
      BY <1>4 DEF HasDelete, OpSet, OpDelete
    <2>2. /\ key \in Seq(Byte)
          /\ AppendField(SubSeq(f, 1, i + 1), key) = SubSeq(f, 1, e)
      BY <1>1, <2>1, FieldCopied
    <2>3. OpAt(f, i) = DeleteOp(key) /\ OpEnd(f, i) = e
      BY <2>1 DEF OpAt, OpEnd
    <2> HIDE DEF key, e
    <2>4. DeleteOp(key).tag = OpDelete /\ DeleteOp(key).fields = <<key>> /\ <<key>>[1] = key
      BY DEF DeleteOp
    <2>5. DeleteOp(key) \in Ops
      BY <2>2 DEF Ops
    <2>6. Pack(SubSeq(f, 1, i), OpAt(f, i)) = AppendField(Append(SubSeq(f, 1, i), OpDelete), key)
      BY <2>1, <2>3, <2>4 DEF Pack
    <2>7. QED
      BY <1>2, <2>1, <2>2, <2>3, <2>5, <2>6
  <1>5. QED
    BY <1>3, <1>4 DEF HasOp
-----------------------------------------------------------------------------
(* The ops a caller added, and the bytes and the record they come to.      *)

Prefix(s, k) == SubSeq(s, 1, k)

(* One op more of the ops that were added.                                 *)
LEMMA PrefixNext ==
  ASSUME NEW S, NEW s \in Seq(S), NEW k \in Nat, k + 1 <= Len(s)
  PROVE  /\ Prefix(s, k) \in Seq(S) /\ s[k + 1] \in S
         /\ Prefix(s, k + 1) = Append(Prefix(s, k), s[k + 1])
  <1>1. Prefix(s, k) \in Seq(S) /\ s[k + 1] \in S
    BY DEF Prefix
  <1>2. 1 \in 1..Len(s) /\ k + 1 \in 1..Len(s) /\ k + 1 - 1 = k
    OBVIOUS
  <1>3. SubSeq(s, 1, k + 1) = SubSeq(s, 1, k + 1 - 1) \o <<s[k + 1]>>
    BY <1>2, SubSeqRecursiveSecond
  <1>4. Append(Prefix(s, k), s[k + 1]) = Prefix(s, k) \o <<s[k + 1]>>
    BY <1>1, AppendIsConcat
  <1>5. QED
    BY <1>1, <1>2, <1>3, <1>4 DEF Prefix

(* Some of them are ops as well.                                           *)
LEMMA PrefixType ==
  ASSUME NEW S, NEW s \in Seq(S), NEW k \in Nat, k <= Len(s)
  PROVE  Prefix(s, k) \in Seq(S)
  BY DEF Prefix

(* None of them, and all of them.                                          *)
LEMMA PrefixEnds ==
  ASSUME NEW S, NEW s \in Seq(S)
  PROVE  Prefix(s, 0) = <<>> /\ Prefix(s, Len(s)) = s
  BY SubSeqEmpty, SubSeqFull DEF Prefix

(* The bytes of the first ops begin the bytes of them all.                 *)
Begun(s, m) == \A k \in 0..m : Holds(Concat(Prefix(s, m)), 0, Concat(Prefix(s, k)))

LEMMA ConcatNext ==
  ASSUME NEW s \in Seq(Ops), NEW k \in Nat, k + 1 <= Len(s)
  PROVE  /\ Concat(Prefix(s, k)) \in Seq(Byte) /\ Concat(Prefix(s, k + 1)) \in Seq(Byte)
         /\ Concat(Prefix(s, k + 1)) = Concat(Prefix(s, k)) \o Packed(s[k + 1])
         /\ Packed(s[k + 1]) \in Seq(Byte) /\ Len(Packed(s[k + 1])) \in Nat \ {0}
  <1>1. /\ Prefix(s, k) \in Seq(Ops) /\ s[k + 1] \in Ops
        /\ Prefix(s, k + 1) = Append(Prefix(s, k), s[k + 1])
    BY PrefixNext
  <1>2. /\ Concat(Prefix(s, k)) \in Seq(Byte)
        /\ Concat(Prefix(s, k + 1)) = Pack(Concat(Prefix(s, k)), s[k + 1])
    BY <1>1, ConcatAppend
  <1>3. QED
    BY <1>1, <1>2, PackAppends, PackType

LEMMA PrefixBegins ==
  ASSUME NEW s \in Seq(Ops), NEW m \in Nat, m <= Len(s)
  PROVE  Begun(s, m)
  <1> DEFINE S == {k \in Nat : k <= Len(s) => Begun(s, k)}
  <1>1. 0 \in S
    <2>1. Prefix(s, 0) = <<>>
      BY PrefixEnds
    <2>2. Concat(Prefix(s, 0)) = <<>> /\ Len(<<>>) = 0
      BY <2>1, ConcatEmpty
    <2>3. Holds(Concat(Prefix(s, 0)), 0, Concat(Prefix(s, 0)))
      BY <2>2 DEF Holds
    <2>4. QED
      BY <2>3 DEF Begun
  <1>2. ASSUME NEW k \in Nat, k \in S
        PROVE  k + 1 \in S
    <2>1. SUFFICES ASSUME k + 1 <= Len(s)
                   PROVE  Begun(s, k + 1)
      OBVIOUS
    <2>2. Len(s) \in Nat /\ k <= Len(s) /\ Begun(s, k)
      BY <1>2, <2>1
    <2> DEFINE b == Concat(Prefix(s, k))
               c == Concat(Prefix(s, k + 1))
    <2>3. b \in Seq(Byte) /\ c \in Seq(Byte) /\ c = b \o Packed(s[k + 1]) /\ Packed(s[k + 1]) \in Seq(Byte)
      BY <2>1, ConcatNext
    <2>4. Holds(c, 0, b) /\ Holds(c, 0, c)
      <3> HIDE DEF b, c
      <3>1. Holds(c, 0, b)
        BY <2>3, HoldsConcat
      <3>2. Holds(c, 0, c)
        BY <2>3 DEF Holds
      <3>3. QED
        BY <3>1, <3>2
    <2>5. ASSUME NEW j \in 0..k + 1
          PROVE  Holds(c, 0, Concat(Prefix(s, j)))
      <3>1. CASE j = k + 1
        BY <2>4, <3>1
      <3>2. CASE j # k + 1
        <4>1. j \in 0..k
          BY <3>2
        <4>2. Holds(b, 0, Concat(Prefix(s, j)))
          BY <2>2, <4>1 DEF Begun
        <4>3. Concat(Prefix(s, j)) \in Seq(Byte)
          <5>1. j \in Nat /\ j + 1 <= Len(s)
            BY <2>1, <2>2, <4>1
          <5>2. QED
            BY <5>1, ConcatNext
        <4> HIDE DEF b, c
        <4>4. QED
          BY <2>3, <2>4, <4>2, <4>3, HoldsIn
      <3>3. QED
        BY <3>1, <3>2
    <2>6. QED
      BY <2>5 DEF Begun
  <1>3. Nat \subseteq S
    <2> HIDE DEF S
    <2> QED BY <1>1, <1>2, Induction
  <1>4. QED
    BY <1>3

(* Where the first ops end the next one begins, within the whole.          *)
LEMMA NextHeld ==
  ASSUME NEW s \in Seq(Ops), NEW k \in Nat, k + 1 <= Len(s)
  PROVE  /\ Holds(Concat(s), Len(Concat(Prefix(s, k))), Packed(s[k + 1]))
         /\ Len(Concat(Prefix(s, k))) \in Nat
         /\ Len(Concat(Prefix(s, k))) < Len(Concat(s))
         /\ Len(Concat(Prefix(s, k + 1))) = Len(Concat(Prefix(s, k))) + Len(Packed(s[k + 1]))
  <1> DEFINE b == Concat(Prefix(s, k))
             c == Concat(Prefix(s, k + 1))
             p == Packed(s[k + 1])
             f == Concat(s)
  <1>1. b \in Seq(Byte) /\ c \in Seq(Byte) /\ c = b \o p /\ p \in Seq(Byte) /\ Len(p) \in Nat \ {0}
    BY ConcatNext
  <1>2. f \in Seq(Byte) /\ Len(s) \in Nat /\ k + 1 \in 0..Len(s)
    BY ConcatAppend
  <1>3. Holds(f, 0, c)
    <2>1. Begun(s, Len(s)) /\ Prefix(s, Len(s)) = s
      BY <1>2, PrefixBegins, PrefixEnds
    <2>2. QED
      BY <1>2, <2>1 DEF Begun
  <1> HIDE DEF b, c, p, f
  <1>4. Holds(c, Len(b), p) /\ Len(c) = Len(b) + Len(p)
    BY <1>1, HoldsConcat
  <1>5. Len(b) \in Nat
    BY <1>1
  <1>6. Holds(f, Len(b), p)
    BY <1>1, <1>2, <1>3, <1>4, <1>5, HoldsIn
  <1>7. Len(b) + Len(p) <= Len(f) /\ Len(f) \in Nat
    BY <1>2, <1>6 DEF Holds
  <1>8. Len(b) < Len(f)
    BY <1>1, <1>5, <1>7
  <1>9. QED
    BY <1>4, <1>5, <1>6, <1>8 DEF b, c, p, f

(* The record of ops, by the rule of WriteBatch.Size.                      *)
RecordOf(s) == Len(Concat(s)) + (SetOverhead - SetFrame) * CountIn(s, OpSet)
                              + (DeleteOverhead - DeleteFrame) * CountIn(s, OpDelete) + CountLen

(* There are ops.                                                          *)
LEMMA OpsExist == DeleteOp(<<>>) \in Ops
  <1>1. <<>> \in Seq(Byte)
    BY EmptySeq
  <1>2. \A key \in Seq(Byte) : DeleteOp(key) \in Ops
    BY DEF Ops
  <1>3. QED
    BY <1>1, <1>2

(* One more of a kind, at its price.                                       *)
LEMMA OneMore ==
  ASSUME NEW u \in Int, NEW c \in Nat
  PROVE  u * (c + 1) = u * c + u /\ u * (c + 0) = u * c /\ u * c \in Int
  OBVIOUS

(* It grows with each op by what the decoder charges for it.               *)
LEMMA RecordAppend ==
  ASSUME NEW s \in Seq(Ops), NEW o \in Ops
  PROVE  /\ RecordOf(s) \in Int /\ Charge(o) \in Nat
         /\ RecordOf(Append(s, o)) = RecordOf(s) + Charge(o)
  <1> DEFINE u == SetOverhead - SetFrame
             w == DeleteOverhead - DeleteFrame
             c == CountIn(s, OpSet)
             d == CountIn(s, OpDelete)
             l == Len(Concat(s))
             p == Len(Packed(o))
  <1>1. /\ u \in Int /\ w \in Int /\ u + SetFrame = SetOverhead /\ w + DeleteFrame = DeleteOverhead
        /\ SetFrame \in Nat /\ DeleteFrame \in Nat /\ SetOverhead \in Nat /\ DeleteOverhead \in Nat
        /\ CountLen \in Nat
    BY Widths
  <1>2. /\ Concat(s) \in Seq(Byte) /\ Concat(Append(s, o)) = Concat(s) \o Packed(o)
        /\ Packed(o) \in Seq(Byte) /\ Len(Packed(o)) \in Nat
    BY ConcatAppend, PackAppends
  <1>3. l \in Nat /\ p \in Nat /\ Len(Concat(Append(s, o))) = l + p
    BY <1>2, ConcatProperties
  <1>4. /\ c \in Nat /\ d \in Nat
        /\ CountIn(Append(s, o), OpSet) = c + IF o.tag = OpSet THEN 1 ELSE 0
        /\ CountIn(Append(s, o), OpDelete) = d + IF o.tag = OpDelete THEN 1 ELSE 0
    BY CountAppend
  <1>5. /\ RecordOf(s) = l + u * c + w * d + CountLen
        /\ RecordOf(Append(s, o)) = l + p + u * CountIn(Append(s, o), OpSet)
                                          + w * CountIn(Append(s, o), OpDelete) + CountLen
    BY <1>3 DEF RecordOf
  <1>6. u * c \in Int /\ w * d \in Int /\ u * (c + 1) = u * c + u /\ w * (d + 1) = w * d + w
    <2> HIDE DEF u, w, c, d
    <2> QED BY <1>1, <1>4, OneMore
  <1>7. CASE o.tag = OpSet
    <2> DEFINE k == Len(o.fields[1])
               v == Len(o.fields[2])
    <2>1. k \in Nat /\ v \in Nat
      BY <1>7, OpCases, LenProperties
    <2>2. p = SetFrame + k + v /\ Charge(o) = SetOverhead + k + v
      BY <1>7, PackAppends, EmptySeq DEF Charge
    <2>3. CountIn(Append(s, o), OpSet) = c + 1 /\ CountIn(Append(s, o), OpDelete) = d
      BY <1>4, <1>7 DEF OpSet, OpDelete
    <2>4. RecordOf(Append(s, o)) = l + p + u * (c + 1) + w * d + CountLen
      BY <1>5, <2>3
    <2> DEFINE uc == u * c
               wd == w * d
    <2> HIDE DEF k, v, l, p, u, w, c, d, uc, wd
    <2>5. RecordOf(Append(s, o)) = l + p + (uc + u) + wd + CountLen /\ RecordOf(s) = l + uc + wd + CountLen
      BY <1>5, <1>6, <2>4 DEF uc, wd
    <2>6. uc \in Int /\ wd \in Int
      BY <1>6 DEF uc, wd
    <2>7. QED
      BY <1>1, <1>3, <2>1, <2>2, <2>5, <2>6
  <1>8. CASE o.tag # OpSet
    <2> DEFINE k == Len(o.fields[1])
    <2>1. k \in Nat /\ o.tag = OpDelete
      BY <1>8, OpCases, LenProperties
    <2>2. p = DeleteFrame + k /\ Charge(o) = DeleteOverhead + k
      BY <1>8, PackAppends, EmptySeq DEF Charge
    <2>3. CountIn(Append(s, o), OpSet) = c /\ CountIn(Append(s, o), OpDelete) = d + 1
      BY <1>4, <1>8, <2>1
    <2>4. RecordOf(Append(s, o)) = l + p + u * c + w * (d + 1) + CountLen
      BY <1>5, <2>3
    <2> DEFINE uc == u * c
               wd == w * d
    <2> HIDE DEF k, l, p, u, w, c, d, uc, wd
    <2>5. RecordOf(Append(s, o)) = l + p + uc + (wd + w) + CountLen /\ RecordOf(s) = l + uc + wd + CountLen
      BY <1>5, <1>6, <2>4 DEF uc, wd
    <2>6. uc \in Int /\ wd \in Int
      BY <1>6 DEF uc, wd
    <2>7. QED
      BY <1>1, <1>3, <2>1, <2>2, <2>5, <2>6
  <1>9. QED
    BY <1>7, <1>8

(* No op makes a record of just its header.                                *)
LEMMA RecordEmpty == RecordOf(<<>>) = CountLen
  <1>1. /\ Concat(<<>>) = <<>> /\ Len(<<>>) = 0
        /\ CountIn(<<>>, OpSet) = 0 /\ CountIn(<<>>, OpDelete) = 0
    BY ConcatEmpty, CountEmpty
  <1>2. /\ SetOverhead - SetFrame \in Int /\ DeleteOverhead - DeleteFrame \in Int /\ CountLen \in Nat
    BY Widths
  <1>3. (SetOverhead - SetFrame) * 0 = 0 /\ (DeleteOverhead - DeleteFrame) * 0 = 0
    BY <1>2
  <1>4. QED
    BY <1>1, <1>2, <1>3 DEF RecordOf

(* The record of some of the ops is no longer than that of all.            *)
LEMMA RecordGrows ==
  ASSUME NEW s \in Seq(Ops), NEW k \in Nat, k <= Len(s)
  PROVE  RecordOf(Prefix(s, k)) <= RecordOf(s)
  <1> DEFINE R(j) == RecordOf(Prefix(s, j))
             S == {j \in Nat : k + j <= Len(s) => R(k) <= R(k + j)}
  <1>1. \A j \in Nat : j <= Len(s) => R(j) \in Int
    <2>1. SUFFICES ASSUME NEW j \in Nat, j <= Len(s)
                   PROVE  R(j) \in Int
      OBVIOUS
    <2>2. Prefix(s, j) \in Seq(Ops)
      BY <2>1, PrefixType
    <2>3. QED
      BY <2>2, OpsExist, RecordAppend
  <1>2. 0 \in S
    BY <1>1
  <1>3. ASSUME NEW j \in Nat, j \in S
        PROVE  j + 1 \in S
    <2>1. SUFFICES ASSUME k + (j + 1) <= Len(s)
                   PROVE  R(k) <= R(k + (j + 1))
      OBVIOUS
    <2>2. Len(s) \in Nat /\ k + j \in Nat /\ k + (j + 1) = (k + j) + 1 /\ k + j <= Len(s)
      BY <2>1
    <2>3. R(k) <= R(k + j)
      BY <1>3, <2>2
    <2>4. /\ Prefix(s, k + j) \in Seq(Ops) /\ s[k + j + 1] \in Ops
          /\ Prefix(s, k + j + 1) = Append(Prefix(s, k + j), s[k + j + 1])
      BY <2>1, <2>2, PrefixNext
    <2>5. R(k + j + 1) = R(k + j) + Charge(s[k + j + 1]) /\ Charge(s[k + j + 1]) \in Nat
      BY <2>4, RecordAppend
    <2>6. R(k) \in Int /\ R(k + j) \in Int
      BY <1>1, <2>2
    <2> HIDE DEF R
    <2>7. QED
      BY <2>2, <2>3, <2>5, <2>6
  <1>4. Nat \subseteq S
    <2> HIDE DEF S
    <2> QED BY <1>2, <1>3, Induction
  <1>5. Len(s) - k \in Nat /\ k + (Len(s) - k) = Len(s)
    OBVIOUS
  <1>6. R(k) <= R(Len(s))
    BY <1>4, <1>5
  <1>7. QED
    BY <1>6, PrefixEnds
-----------------------------------------------------------------------------
(* The steps of a walk.                                                    *)

(* The invariant holds before the first op is packed.                      *)
LEMMA BInvInit == Init => BInv
  BY Widths, EmptySeq
     DEF Init, BInv, TypeOK, SizedInv, RetracedInv, GrowthInv, Byte

(* Adding to the Go batch or emptying it.                                  *)
LEMMA CallerStep ==
  ASSUME BInv, BatchSet \/ BatchDelete \/ BatchReset
  PROVE  BInv'
  <1>1. buf' \in Seq(Byte) /\ n' \in Nat /\ answer' = "none"
    <2>1. CASE BatchReset
      BY <2>1, EmptySeq DEF BatchReset
    <2>2. CASE BatchSet \/ BatchDelete
      <3>1. buf \in Seq(Byte) /\ n \in Nat
        BY DEF BInv, TypeOK
      <3>2. PICK key \in Payloads, value \in Payloads :
              AddOp(SetOp(key, value)) \/ AddOp(DeleteOp(key))
        BY <2>2 DEF BatchSet, BatchDelete
      <3>3. Pack(buf, SetOp(key, value)) \in Seq(Byte) /\ Pack(buf, DeleteOp(key)) \in Seq(Byte)
        BY <3>1, GoOps, PackType DEF Short
      <3>4. /\ buf' = Pack(buf, SetOp(key, value)) \/ buf' = Pack(buf, DeleteOp(key))
            /\ n' = n + 1 /\ answer' = "none"
        BY <3>2 DEF AddOp
      <3>5. QED
        BY <3>1, <3>3, <3>4
    <2>3. QED
      BY <2>1, <2>2
  <1>2. phase = "idle" /\ UNCHANGED <<fromGo, frame, phase, at, rec, batch, sized>>
    BY DEF BatchSet, BatchDelete, BatchReset, AddOp
  <1>3. QED
    BY <1>1, <1>2 DEF BInv, TypeOK, SizedInv, RetracedInv, GrowthInv

(* Entering decode.                                                        *)
LEMMA DecodeStep ==
  ASSUME BInv, GoWrite \/ CWrite
  PROVE  BInv'
  <1>1. CASE /\ UNCHANGED <<goVars, frame, phase, at, rec, batch, sized>>
             /\ fromGo' = TRUE /\ answer' = "ok"
    <2>1. NeedsSizing(frame)' = NeedsSizing(frame)
      BY <1>1 DEF NeedsSizing
    <2>2. phase' = phase /\ sized' = sized /\ at' = at /\ rec' = rec /\ frame' = frame
          /\ buf' = buf /\ n' = n /\ fromGo' = TRUE /\ answer' = "ok"
      BY <1>1 DEF goVars
    <2>3. \A p : Following(p)' = Following(p)
      BY <2>2 DEF Following
    <2>4. QED
      BY <2>1, <2>2, <2>3 DEF BInv, TypeOK, SizedInv, RetracedInv, GrowthInv
  <1>2. CASE \E f \in Seq(Byte) : Decode(f) /\ fromGo' \in BOOLEAN
    <2>1. PICK f \in Seq(Byte) : Decode(f) /\ fromGo' \in BOOLEAN
      BY <1>2
    <2>2. /\ frame' = f /\ at' = 0 /\ rec' = CountLen /\ sized' = {<<0, CountLen>>}
          /\ phase' = IF NeedsSizing(f) THEN "size" ELSE "build"
          /\ answer' = "none" /\ buf' = buf /\ n' = n
      BY <2>1 DEF Decode, goVars
    <2>3. TypeOK'
      BY <2>1, <2>2, Widths DEF BInv, TypeOK
    <2>4. NeedsSizing(frame)' = NeedsSizing(f)
      BY <2>2 DEF NeedsSizing
    <2>5. SizedInv' /\ RetracedInv'
      BY <2>2, <2>4, Widths DEF SizedInv, RetracedInv
    <2>6. GrowthInv'
      BY <2>2, Widths DEF GrowthInv
    <2>7. QED
      BY <2>3, <2>5, <2>6 DEF BInv
  <1>3. QED
    BY <1>1, <1>2, WidthAssumption DEF GoWrite, CWrite, BInv, TypeOK

(* Leaving it.                                                             *)
LEMMA ReturnStep ==
  ASSUME BInv, NEW a \in {"ok", "err", "invalid"}, Return(a), UNCHANGED <<goVars, fromGo>>
  PROVE  BInv'
  BY Widths, EmptySeq
     DEF BInv, TypeOK, SizedInv, RetracedInv, GrowthInv, Return, goVars, Byte

(* One op further, in either pass.                                         *)
LEMMA OpStep ==
  ASSUME BInv, at < Len(frame), HasOp(frame, at),
         at' = OpEnd(frame, at), rec' = rec + RecordLen(frame, at),
         UNCHANGED <<goVars, fromGo, frame, phase, answer>>,
         sized' \subseteq sized \cup {<<at', rec'>>}
  PROVE  /\ TypeOK' /\ at' \in at + 1..Len(frame)
         /\ RecordLen(frame, at) \in Nat
         /\ RecordLen(frame, at) * DeleteFrame <= DeleteOverhead * (at' - at)
         /\ \A p : Following(p)' = Following(p)
         /\ NeedsSizing(frame)' = NeedsSizing(frame)
  <1>1. Len(frame) \in Nat /\ at \in Nat /\ rec \in Nat
    BY DEF BInv, TypeOK
  <1>2. /\ at' \in at + 1..Len(frame) /\ RecordLen(frame, at) \in Nat
        /\ RecordLen(frame, at) * DeleteFrame <= DeleteOverhead * (at' - at)
    BY <1>1, OpSpan
  <1>3. at' \in 0..Len(frame') /\ rec' \in Nat /\ <<at', rec'>> \in Nat \X Nat
    BY <1>1, <1>2
  <1>4. TypeOK'
    BY <1>3 DEF BInv, TypeOK, goVars
  <1>5. QED
    BY <1>2, <1>4 DEF Following, NeedsSizing

(* The sizing pass goes through ops inside the frame and the limit.        *)
LEMMA SizeStep ==
  ASSUME BInv, SizeOp
  PROVE  BInv'
  <1>1. CASE HasOp(frame, at) /\ rec + RecordLen(frame, at) <= MaxRecord
    <2>1. /\ phase = "size" /\ at < Len(frame)
          /\ at' = OpEnd(frame, at) /\ rec' = rec + RecordLen(frame, at)
          /\ sized' = sized \cup {<<at', rec'>>} /\ frame' = frame /\ phase' = phase
          /\ UNCHANGED <<goVars, fromGo, frame, phase, answer>>
      BY <1>1 DEF SizeOp
    <2>2. /\ TypeOK' /\ \A p : Following(p)' = Following(p)
          /\ NeedsSizing(frame)' = NeedsSizing(frame)
      BY <1>1, <2>1, OpStep
    <2>3. Following(<<at, rec>>) = <<at', rec'>>
      BY <2>1 DEF Following
    <2>4. /\ <<0, CountLen>> \in sized' /\ <<at', rec'>> \in sized'
          /\ \A p \in sized' : p[2] <= MaxRecord
      BY <1>1, <2>1 DEF BInv, SizedInv
    <2>5. ASSUME NEW p \in sized', p # <<at', rec'>>
          PROVE  p[1] < Len(frame) /\ Following(p) \in sized'
      <3>1. p \in sized
        BY <2>1, <2>5
      <3>2. CASE p = <<at, rec>>
        BY <2>1, <2>3, <3>2
      <3>3. CASE p # <<at, rec>>
        BY <2>1, <3>1, <3>3 DEF BInv, SizedInv
      <3>4. QED
        BY <3>2, <3>3
    <2>6. SizedInv'
      BY <2>1, <2>2, <2>4, <2>5 DEF BInv, SizedInv
    <2>7. RetracedInv' /\ GrowthInv'
      BY <2>1 DEF RetracedInv, GrowthInv
    <2>8. QED
      BY <2>2, <2>6, <2>7 DEF BInv
  <1>2. CASE ~(HasOp(frame, at) /\ rec + RecordLen(frame, at) <= MaxRecord)
    BY <1>2, ReturnStep DEF SizeOp
  <1>3. QED
    BY <1>1, <1>2

(* The building pass starts where the sizing pass started.                 *)
LEMMA SizeDoneStep ==
  ASSUME BInv, SizeDone
  PROVE  BInv'
  <1>1. /\ phase = "size" /\ at = Len(frame) /\ phase' = "build" /\ at' = 0 /\ rec' = CountLen
        /\ frame' = frame /\ sized' = sized /\ UNCHANGED <<goVars, fromGo, answer>>
    BY DEF SizeDone
  <1>2. TypeOK'
    BY <1>1, Widths DEF BInv, TypeOK, goVars
  <1>3. /\ \A p : Following(p)' = Following(p)
        /\ NeedsSizing(frame)' = NeedsSizing(frame)
    BY <1>1 DEF Following, NeedsSizing
  <1>4. Len(frame) \in Nat
    BY DEF BInv, TypeOK
  <1>5. \A p \in sized : p[1] < Len(frame) => Following(p) \in sized
    BY <1>1, <1>4 DEF BInv, SizedInv
  <1>6. SizedInv' /\ RetracedInv' /\ GrowthInv'
    BY <1>1, <1>3, <1>5 DEF BInv, SizedInv, RetracedInv, GrowthInv
  <1>7. QED
    BY <1>2, <1>6 DEF BInv

(* The building pass is at a place sized before, or within the rate.       *)
LEMMA BuildStep ==
  ASSUME BInv, BuildOp
  PROVE  BInv'
  <1>1. CASE HasOp(frame, at)
    <2>1. /\ phase = "build" /\ at < Len(frame)
          /\ at' = OpEnd(frame, at) /\ rec' = rec + RecordLen(frame, at)
          /\ sized' = sized /\ frame' = frame /\ phase' = phase
          /\ UNCHANGED <<goVars, fromGo, frame, phase, answer>>
      BY <1>1 DEF BuildOp
    <2>2. /\ TypeOK' /\ at' \in at + 1..Len(frame)
          /\ RecordLen(frame, at) \in Nat
          /\ RecordLen(frame, at) * DeleteFrame <= DeleteOverhead * (at' - at)
          /\ \A p : Following(p)' = Following(p)
          /\ NeedsSizing(frame)' = NeedsSizing(frame)
      BY <1>1, <2>1, OpStep
    <2>3. SizedInv'
      BY <2>1 DEF SizedInv
    <2>4. RetracedInv'
      <3>1. Following(<<at, rec>>) = <<at', rec'>>
        BY <2>1 DEF Following
      <3>2. QED
        BY <2>1, <2>2, <3>1 DEF BInv, RetracedInv
    <2>5. GrowthInv'
      <3> SUFFICES ASSUME ~NeedsSizing(frame)
                   PROVE  (rec' - CountLen) * DeleteFrame <= DeleteOverhead * at'
        BY <2>1, <2>2 DEF GrowthInv
      <3>1. (rec - CountLen) * DeleteFrame <= DeleteOverhead * at
        BY <2>1 DEF BInv, GrowthInv
      <3>2. rec \in Nat /\ at \in Nat /\ at' \in Nat /\ Len(frame) \in Nat
        BY <2>2 DEF BInv, TypeOK
      <3>3. (rec' - CountLen) * DeleteFrame
              = (rec - CountLen) * DeleteFrame + RecordLen(frame, at) * DeleteFrame
        <4>1. CountLen \in Nat /\ DeleteFrame \in Nat
          BY Widths
        <4>2. rec' = rec + RecordLen(frame, at) /\ RecordLen(frame, at) \in Nat
          BY <2>1, <2>2
        <4>3. QED
          BY <3>2, <4>1, <4>2, Spread
      <3>4. DeleteOverhead * at' = DeleteOverhead * at + DeleteOverhead * (at' - at)
        BY <3>2, Widths
      <3>5. QED
        BY <2>2, <3>1, <3>2, <3>3, <3>4, Widths
    <2>6. QED
      BY <2>2, <2>3, <2>4, <2>5 DEF BInv
  <1>2. CASE ~HasOp(frame, at)
    BY <1>2, ReturnStep DEF BuildOp
  <1>3. QED
    BY <1>1, <1>2

(* A frame built to its end is applied.                                    *)
LEMMA BuildDoneStep ==
  ASSUME BInv, BuildDone
  PROVE  BInv'
  <1>1. /\ phase = "build" /\ phase' = "apply"
        /\ UNCHANGED <<goVars, fromGo, frame, at, rec, sized, answer>>
    BY DEF BuildDone
  <1>2. /\ \A p : Following(p)' = Following(p)
        /\ NeedsSizing(frame)' = NeedsSizing(frame)
    BY <1>1 DEF Following, NeedsSizing
  <1>3. QED
    BY <1>1, <1>2 DEF BInv, TypeOK, SizedInv, RetracedInv, GrowthInv, goVars

(* The invariant does not notice a step that changes nothing.              *)
LEMMA BStutter ==
  ASSUME BInv, UNCHANGED vars
  PROVE  BInv'
  <1>1. /\ \A p : Following(p)' = Following(p)
        /\ NeedsSizing(frame)' = NeedsSizing(frame)
    BY DEF Following, NeedsSizing, vars
  <1>2. QED
    BY <1>1 DEF BInv, TypeOK, SizedInv, RetracedInv, GrowthInv, vars, goVars
-----------------------------------------------------------------------------
(* The inductive invariant.                                                *)
THEOREM BInductive == Spec => []BInv
  <1>1. BInv /\ [Next]_vars => BInv'
    <2> SUFFICES ASSUME BInv, [Next]_vars PROVE BInv'
      OBVIOUS
    <2>1. CASE Apply
      BY <2>1, ReturnStep DEF Apply, EngineAnswers
    <2>2. QED
      BY <2>1, CallerStep, DecodeStep, SizeStep, SizeDoneStep, BuildStep, BuildDoneStep,
         BStutter DEF Next
  <1>2. QED
    BY BInvInit, <1>1, PTL DEF Spec

(* Type correctness: among others, the decoder never reads past its frame. *)
THEOREM BatchTypeCorrect == Spec => []TypeOK
  <1>1. BInv => TypeOK
    BY DEF BInv
  <1>2. QED
    BY BInductive, <1>1, PTL

(* decode hands the engine no batch whose log record exceeds the limit,    *)
(* whatever the frame, sized or not.                                       *)
THEOREM RecordsFit == Spec => []NeverOversized
  <1>1. BInv => NeverOversized
    <2> SUFFICES ASSUME BInv, phase \in {"build", "apply"} PROVE rec <= MaxRecord
      BY DEF NeverOversized
    <2>1. CASE NeedsSizing(frame)
      BY <2>1 DEF BInv, RetracedInv
    <2>2. CASE ~NeedsSizing(frame)
      <3>1. (rec - CountLen) * DeleteFrame <= DeleteOverhead * at
        BY <2>2 DEF BInv, GrowthInv
      <3>2. rec \in Nat /\ at \in Nat /\ at <= MaxFrameWithoutSizing
        BY <2>2, Widths DEF BInv, TypeOK, NeedsSizing
      <3>3. DeleteOverhead * at <= DeleteOverhead * MaxFrameWithoutSizing
        BY <3>2, Widths, MulMonotone
      <3>4. DeleteOverhead * MaxFrameWithoutSizing <= (MaxRecord - CountLen) * DeleteFrame
        BY Widths
      <3>5. (rec - CountLen) * DeleteFrame <= (MaxRecord - CountLen) * DeleteFrame
        BY <3>1, <3>2, <3>3, <3>4, Widths
      <3>6. rec - CountLen <= MaxRecord - CountLen
        BY <3>2, <3>5, Widths, MulCancel
      <3>7. QED
        BY <3>2, <3>6, Widths
    <2>3. QED
      BY <2>1, <2>2
  <1>2. QED
    BY BInductive, <1>1, PTL
-----------------------------------------------------------------------------
(* What comes of a frame.                                                  *)

(* The Go batch is the ops that were added, packed.                        *)
CallerInv == /\ meant \in Seq(Short) /\ meant \in Seq(Packable)
             /\ n = Len(meant) /\ buf = Concat(meant)

(* The engine's batch is what the walked bytes stand for.                  *)
BuiltInv == /\ batch \in Seq(Ops) /\ BuiltFromPrefix
            /\ phase = "size" => batch = <<>>
            /\ phase = "apply" => at = Len(frame)

(* Short ops are ops.                                                      *)
LEMMA ShortOps ==
  ASSUME NEW s \in Seq(Short)
  PROVE  s \in Seq(Ops)
  <1>1. Short \subseteq Ops
    BY DEF Short
  <1>2. QED
    BY <1>1, SeqMonotonic

LEMMA CallerKept ==
  ASSUME CallerInv, [Next]_vars
  PROVE  CallerInv'
  <1>1. ASSUME NEW o \in Short, o \in Packable, AddOp(o)
        PROVE  CallerInv'
    <2>1. o \in Ops /\ meant \in Seq(Ops)
      BY ShortOps DEF CallerInv, Short
    <2>2. meant' = Append(meant, o) /\ n' = n + 1 /\ buf' = Pack(buf, o)
      BY <1>1 DEF AddOp
    <2>3. Concat(Append(meant, o)) = Pack(Concat(meant), o)
      BY <2>1, ConcatAppend
    <2>4. /\ Append(meant, o) \in Seq(Short) /\ Append(meant, o) \in Seq(Packable)
          /\ Len(Append(meant, o)) = Len(meant) + 1
      BY <1>1 DEF CallerInv
    <2>5. QED
      BY <2>2, <2>3, <2>4 DEF CallerInv
  <1>2. CASE BatchSet
    BY <1>1, <1>2, GoOps DEF BatchSet, Packable
  <1>3. CASE BatchDelete
    BY <1>1, <1>3, GoOps DEF BatchDelete, Packable
  <1>4. CASE BatchReset
    <2>1. meant' = <<>> /\ n' = 0 /\ buf' = <<>>
      BY <1>4 DEF BatchReset
    <2>2. <<>> \in Seq(Short) /\ <<>> \in Seq(Packable) /\ Len(<<>>) = 0
      BY EmptySeq
    <2>3. QED
      BY <2>1, <2>2, ConcatEmpty DEF CallerInv
  <1>5. CASE UNCHANGED goVars
    BY <1>5 DEF CallerInv, goVars
  <1>6. QED
    BY <1>2, <1>3, <1>4, <1>5
       DEF Next, GoWrite, CWrite, Decode, SizeOp, SizeDone, BuildOp, BuildDone, Apply, vars

(* A walk starts with nothing.                                             *)
LEMMA BuiltStart ==
  ASSUME NEW f, Decode(f)
  PROVE  BuiltInv'
  <1>1. /\ batch' = <<>> /\ at' = 0 /\ frame' = f /\ phase' \in {"size", "build"}
    BY DEF Decode
  <1>2. SubSeq(f, 1, 0) = <<>> /\ <<>> \in Seq(Ops)
    BY SubSeqEmpty, EmptySeq
  <1>3. QED
    BY <1>1, <1>2, ConcatEmpty DEF BuiltInv, BuiltFromPrefix

(* decode returns with nothing.                                            *)
LEMMA BuiltReturn ==
  ASSUME NEW a, Return(a)
  PROVE  BuiltInv'
  <1>1. <<>> \in Seq(Ops)
    BY EmptySeq
  <1>2. QED
    BY <1>1 DEF Return, BuiltInv, BuiltFromPrefix

LEMMA BuiltKept ==
  ASSUME TypeOK, BuiltInv, [Next]_vars
  PROVE  BuiltInv'
  <1> USE DEF BuiltInv, BuiltFromPrefix
  <1>1. CASE BatchSet \/ BatchDelete \/ BatchReset
    BY <1>1 DEF BatchSet, BatchDelete, BatchReset, AddOp
  <1>2. CASE GoWrite
    BY <1>2, BuiltStart DEF GoWrite
  <1>3. CASE CWrite
    BY <1>3, BuiltStart DEF CWrite
  <1>4. CASE SizeOp
    BY <1>4, BuiltReturn DEF SizeOp
  <1>5. CASE SizeDone
    <2>1. batch' = batch /\ batch = <<>> /\ at' = 0 /\ frame' = frame /\ phase' = "build"
      BY <1>5 DEF SizeDone
    <2>2. SubSeq(frame, 1, 0) = <<>>
      BY SubSeqEmpty
    <2>3. QED
      BY <2>1, <2>2, ConcatEmpty
  <1>6. CASE BuildOp
    <2>1. CASE ~HasOp(frame, at)
      BY <1>6, <2>1, BuiltReturn DEF BuildOp
    <2>2. CASE HasOp(frame, at)
      <3>1. /\ batch' = Append(batch, OpAt(frame, at)) /\ at' = OpEnd(frame, at)
            /\ frame' = frame /\ phase' = "build" /\ phase = "build" /\ at < Len(frame)
        BY <1>6, <2>2 DEF BuildOp
      <3>2. frame \in Seq(Byte) /\ at \in Nat
        BY DEF TypeOK
      <3>3. /\ OpAt(frame, at) \in Ops
            /\ Pack(SubSeq(frame, 1, at), OpAt(frame, at)) = SubSeq(frame, 1, OpEnd(frame, at))
        BY <2>2, <3>1, <3>2, OpCopied
      <3>4. /\ Append(batch, OpAt(frame, at)) \in Seq(Ops)
            /\ Concat(Append(batch, OpAt(frame, at))) = Pack(Concat(batch), OpAt(frame, at))
        BY <3>3, ConcatAppend
      <3>5. QED
        BY <3>1, <3>3, <3>4
    <2>3. QED
      BY <2>1, <2>2
  <1>7. CASE BuildDone
    BY <1>7 DEF BuildDone
  <1>8. CASE Apply
    BY <1>8, BuiltReturn DEF Apply
  <1>9. CASE UNCHANGED vars
    BY <1>9 DEF vars
  <1>10. QED
    BY <1>1, <1>2, <1>3, <1>4, <1>5, <1>6, <1>7, <1>8, <1>9 DEF Next

(* A walk over the Go batch is past the first k of its ops.                *)
ReadTo(k) == /\ at = Len(Concat(Prefix(meant, k))) /\ rec = RecordOf(Prefix(meant, k))
             /\ phase # "size" => batch = Prefix(meant, k)

GoInv == fromGo /\ phase # "idle" => frame = buf /\ \E k \in 0..Len(meant) : ReadTo(k)

(* What an answer says of a Go batch.                                      *)
AnswerInv == fromGo =>
  /\ answer = "err" => RecordOf(meant) <= MaxRecord
  /\ answer = "invalid" => RecordOf(meant) > MaxRecord \/ AnyTooLong(meant)
  /\ answer = "ok" => RecordOf(meant) <= MaxRecord /\ ~AnyTooLong(meant)

PInv == CallerInv /\ BuiltInv /\ GoInv /\ AnswerInv

(* Walking the Go batch, the decoder finds at the next offset the op that  *)
(* was added there.                                                        *)
LEMMA NextRead ==
  ASSUME CallerInv, frame = buf, at < Len(frame),
         NEW k \in 0..Len(meant), ReadTo(k)
  PROVE  /\ k + 1 \in 0..Len(meant) /\ HasOp(frame, at) /\ OpAt(frame, at) = meant[k + 1]
         /\ OpEnd(frame, at) = Len(Concat(Prefix(meant, k + 1)))
         /\ rec + RecordLen(frame, at) = RecordOf(Prefix(meant, k + 1))
         /\ Prefix(meant, k + 1) = Append(Prefix(meant, k), meant[k + 1])
  <1>1. meant \in Seq(Ops) /\ meant \in Seq(Short) /\ frame = Concat(meant) /\ Len(meant) \in Nat
    BY ShortOps DEF CallerInv
  <1>2. k + 1 <= Len(meant) /\ k \in Nat
    <2>1. SUFFICES ASSUME k = Len(meant)
                   PROVE  FALSE
      BY <1>1
    <2>2. Prefix(meant, k) = meant
      BY <1>1, <2>1, PrefixEnds
    <2>3. Concat(meant) \in Seq(Byte)
      BY <1>1, ConcatAppend, OpsExist
    <2>4. Len(Concat(meant)) \in Nat
      BY <2>3
    <2>5. QED
      BY <1>1, <2>2, <2>4 DEF ReadTo
  <1>3. /\ Holds(frame, at, Packed(meant[k + 1])) /\ at \in Nat
        /\ Len(Concat(Prefix(meant, k + 1))) = at + Len(Packed(meant[k + 1]))
    BY <1>1, <1>2, NextHeld DEF ReadTo
  <1>4. /\ Prefix(meant, k) \in Seq(Ops) /\ meant[k + 1] \in Short /\ meant[k + 1] \in Ops
        /\ Prefix(meant, k + 1) = Append(Prefix(meant, k), meant[k + 1])
    <2>1. k + 1 \in 1..Len(meant)
      BY <1>1, <1>2
    <2>2. meant[k + 1] \in Short
      BY <1>1, <2>1, ElementOfSeq
    <2>3. QED
      BY <1>1, <1>2, <2>2, PrefixNext
  <1>5. frame \in Seq(Byte)
    BY <1>1, ConcatAppend, OpsExist
  <1>6. /\ HasOp(frame, at) /\ OpAt(frame, at) = meant[k + 1]
        /\ OpEnd(frame, at) = at + Len(Packed(meant[k + 1]))
        /\ RecordLen(frame, at) = Charge(meant[k + 1])
    BY <1>3, <1>4, <1>5, OpRead
  <1>7. RecordOf(Prefix(meant, k + 1)) = RecordOf(Prefix(meant, k)) + Charge(meant[k + 1])
    BY <1>4, RecordAppend
  <1>8. k + 1 \in 0..Len(meant)
    BY <1>1, <1>2
  <1>9. rec = RecordOf(Prefix(meant, k))
    BY DEF ReadTo
  <1>10. QED
    BY <1>3, <1>4, <1>6, <1>7, <1>8, <1>9

(* At the end of the frame it has read all that was added.                 *)
LEMMA AllRead ==
  ASSUME CallerInv, frame = buf, at = Len(frame), NEW k \in 0..Len(meant), ReadTo(k)
  PROVE  Prefix(meant, k) = meant
  <1>1. meant \in Seq(Ops) /\ frame = Concat(meant) /\ Len(meant) \in Nat
    BY ShortOps DEF CallerInv
  <1>2. ASSUME k # Len(meant)
        PROVE  FALSE
    <2>1. k + 1 <= Len(meant) /\ k \in Nat
      BY <1>1, <1>2
    <2>2. /\ Len(Concat(Prefix(meant, k))) \in Nat
          /\ Len(Concat(Prefix(meant, k))) < Len(Concat(meant))
      BY <1>1, <2>1, NextHeld
    <2>3. at = Len(Concat(Prefix(meant, k))) /\ at = Len(Concat(meant))
      BY <1>1 DEF ReadTo
    <2>4. QED
      BY <2>2, <2>3
  <1>3. QED
    BY <1>1, <1>2, PrefixEnds

(* What the engine is handed of a Go batch is all of it, within the limit. *)
LEMMA HandedOver ==
  ASSUME CallerInv, BuiltInv, GoInv, NeverOversized, fromGo, phase = "apply"
  PROVE  batch = meant /\ RecordOf(meant) <= MaxRecord
  <1>1. PICK k \in 0..Len(meant) : frame = buf /\ ReadTo(k)
    BY DEF GoInv
  <1>2. at = Len(frame)
    BY DEF BuiltInv
  <1>3. Prefix(meant, k) = meant
    BY <1>1, <1>2, AllRead
  <1>4. batch = meant /\ rec = RecordOf(meant)
    BY <1>1, <1>3 DEF ReadTo
  <1>5. QED
    BY <1>4 DEF NeverOversized

(* decode refuses a Go batch for its size only.                            *)
LEMMA RefusedForSize ==
  ASSUME CallerInv, GoInv, fromGo, SizeOp \/ BuildOp, phase' = "idle"
  PROVE  RecordOf(meant) > MaxRecord
  <1>1. phase \in {"size", "build"} /\ at < Len(frame)
    BY DEF SizeOp, BuildOp
  <1>2. PICK k \in 0..Len(meant) : frame = buf /\ ReadTo(k)
    BY <1>1 DEF GoInv
  <1>3. /\ k + 1 \in 0..Len(meant) /\ HasOp(frame, at)
        /\ rec + RecordLen(frame, at) = RecordOf(Prefix(meant, k + 1))
    BY <1>1, <1>2, NextRead
  <1>4. ~(rec + RecordLen(frame, at) <= MaxRecord)
    BY <1>1, <1>3 DEF SizeOp, BuildOp
  <1>5. meant \in Seq(Ops) /\ k + 1 \in Nat /\ k + 1 <= Len(meant)
    BY <1>3, ShortOps DEF CallerInv
  <1>6. RecordOf(Prefix(meant, k + 1)) <= RecordOf(meant)
    BY <1>5, RecordGrows
  <1>7. Prefix(meant, k + 1) \in Seq(Ops)
    BY <1>5, PrefixType
  <1>8. RecordOf(Prefix(meant, k + 1)) \in Int /\ RecordOf(meant) \in Int
    BY <1>5, <1>7, OpsExist, RecordAppend
  <1>9. MaxRecord \in Nat
    BY Widths
  <1>10. QED
    BY <1>3, <1>4, <1>6, <1>8, <1>9

(* The record of an empty batch fits, and nothing in it is too long.       *)
LEMMA EmptyFits == RecordOf(<<>>) <= MaxRecord /\ ~AnyTooLong(<<>>)
  <1>1. RecordOf(<<>>) <= MaxRecord
    BY RecordEmpty, Widths
  <1>2. ~AnyTooLong(<<>>)
    BY EmptySeq DEF AnyTooLong
  <1>3. QED
    BY <1>1, <1>2

(* A walk over the Go batch starts before its first op.                    *)
LEMMA GoStart ==
  ASSUME CallerInv, NEW f, Decode(f), fromGo' = TRUE => f = buf
  PROVE  GoInv' /\ AnswerInv'
  <1>1. /\ frame' = f /\ at' = 0 /\ rec' = CountLen /\ batch' = <<>> /\ answer' = "none"
        /\ meant' = meant /\ buf' = buf
    BY DEF Decode, goVars
  <1>2. meant \in Seq(Ops) /\ 0 \in 0..Len(meant)
    BY ShortOps DEF CallerInv
  <1>3. Prefix(meant, 0) = <<>> /\ Concat(<<>>) = <<>> /\ Len(<<>>) = 0 /\ RecordOf(<<>>) = CountLen
    BY <1>2, PrefixEnds, ConcatEmpty, RecordEmpty
  <1>4. ReadTo(0)'
    BY <1>1, <1>3 DEF ReadTo
  <1>5. QED
    BY <1>1, <1>2, <1>4 DEF GoInv, AnswerInv

LEMMA GoKept ==
  ASSUME CallerInv, BuiltInv, GoInv, AnswerInv, NeverOversized, [Next]_vars
  PROVE  GoInv' /\ AnswerInv'
  <1>1. CASE BatchSet \/ BatchDelete \/ BatchReset
    BY <1>1 DEF BatchSet, BatchDelete, BatchReset, AddOp, GoInv, AnswerInv
  <1>2. CASE GoWrite
    <2>1. CASE Decode(buf)
      BY <2>1, GoStart
    <2>2. CASE phase = "idle" /\ n = 0 /\ answer' = "ok" /\ UNCHANGED <<goVars, phase>>
      <3>1. meant' = meant /\ meant = <<>> /\ phase' = "idle"
        BY <2>2, EmptySeq DEF CallerInv, goVars
      <3>2. QED
        BY <2>2, <3>1, EmptyFits DEF GoInv, AnswerInv
    <2>3. QED
      BY <1>2, <2>1, <2>2 DEF GoWrite
  <1>3. CASE CWrite
    BY <1>3, GoStart DEF CWrite
  <1>4. CASE SizeOp
    <2>1. /\ phase = "size" /\ at < Len(frame) /\ meant' = meant /\ buf' = buf /\ fromGo' = fromGo
      BY <1>4 DEF SizeOp, goVars
    <2>2. CASE ~fromGo
      BY <2>1, <2>2 DEF GoInv, AnswerInv
    <2>3. CASE fromGo
      <3>1. PICK k \in 0..Len(meant) : frame = buf /\ ReadTo(k)
        BY <2>1, <2>3 DEF GoInv
      <3>2. /\ k + 1 \in 0..Len(meant) /\ HasOp(frame, at)
            /\ OpEnd(frame, at) = Len(Concat(Prefix(meant, k + 1)))
            /\ rec + RecordLen(frame, at) = RecordOf(Prefix(meant, k + 1))
        BY <2>1, <3>1, NextRead
      <3>3. CASE rec + RecordLen(frame, at) <= MaxRecord
        <4>1. /\ at' = OpEnd(frame, at) /\ rec' = rec + RecordLen(frame, at)
              /\ frame' = frame /\ phase' = phase /\ answer' = answer
          BY <1>4, <3>2, <3>3 DEF SizeOp
        <4>2. ReadTo(k + 1)'
          BY <2>1, <3>2, <4>1 DEF ReadTo
        <4>3. QED
          BY <2>1, <3>1, <3>2, <4>1, <4>2 DEF GoInv, AnswerInv
      <3>4. CASE ~(rec + RecordLen(frame, at) <= MaxRecord)
        <4>1. Return("invalid")
          BY <1>4, <3>4 DEF SizeOp
        <4>2. RecordOf(meant) > MaxRecord
          BY <1>4, <2>3, <4>1, RefusedForSize DEF Return
        <4>3. QED
          BY <2>1, <4>1, <4>2 DEF Return, GoInv, AnswerInv
      <3>5. QED
        BY <3>3, <3>4
    <2>4. QED
      BY <2>2, <2>3
  <1>5. CASE SizeDone
    <2>1. /\ phase = "size" /\ phase' = "build" /\ at' = 0 /\ rec' = CountLen
          /\ meant' = meant /\ buf' = buf /\ fromGo' = fromGo /\ frame' = frame /\ batch' = batch
          /\ answer' = answer
      BY <1>5 DEF SizeDone, goVars
    <2>2. batch = <<>>
      BY <2>1 DEF BuiltInv
    <2>3. meant \in Seq(Ops) /\ 0 \in 0..Len(meant)
      BY ShortOps DEF CallerInv
    <2>4. Prefix(meant, 0) = <<>> /\ Concat(<<>>) = <<>> /\ Len(<<>>) = 0 /\ RecordOf(<<>>) = CountLen
      BY <2>3, PrefixEnds, ConcatEmpty, RecordEmpty
    <2>5. ReadTo(0)'
      BY <2>1, <2>2, <2>4 DEF ReadTo
    <2>6. QED
      BY <2>1, <2>3, <2>5 DEF GoInv, AnswerInv
  <1>6. CASE BuildOp
    <2>1. /\ phase = "build" /\ at < Len(frame) /\ meant' = meant /\ buf' = buf /\ fromGo' = fromGo
      BY <1>6 DEF BuildOp, goVars
    <2>2. CASE ~fromGo
      BY <2>1, <2>2 DEF GoInv, AnswerInv
    <2>3. CASE fromGo
      <3>1. PICK k \in 0..Len(meant) : frame = buf /\ ReadTo(k)
        BY <2>1, <2>3 DEF GoInv
      <3>2. /\ k + 1 \in 0..Len(meant) /\ HasOp(frame, at) /\ OpAt(frame, at) = meant[k + 1]
            /\ OpEnd(frame, at) = Len(Concat(Prefix(meant, k + 1)))
            /\ rec + RecordLen(frame, at) = RecordOf(Prefix(meant, k + 1))
            /\ Prefix(meant, k + 1) = Append(Prefix(meant, k), meant[k + 1])
        BY <2>1, <3>1, NextRead
      <3>3. /\ batch' = Append(batch, OpAt(frame, at)) /\ at' = OpEnd(frame, at)
            /\ rec' = rec + RecordLen(frame, at)
            /\ frame' = frame /\ phase' = phase /\ answer' = answer
        BY <1>6, <3>2 DEF BuildOp
      <3>4. batch = Prefix(meant, k)
        BY <2>1, <3>1 DEF ReadTo
      <3>5. ReadTo(k + 1)'
        BY <2>1, <3>2, <3>3, <3>4 DEF ReadTo
      <3>6. QED
        BY <2>1, <3>1, <3>2, <3>3, <3>5 DEF GoInv, AnswerInv
    <2>4. QED
      BY <2>2, <2>3
  <1>7. CASE BuildDone
    BY <1>7 DEF BuildDone, GoInv, AnswerInv, ReadTo, goVars
  <1>8. CASE Apply
    <2>1. PICK a \in EngineAnswers(batch) : Return(a)
      BY <1>8 DEF Apply
    <2>2. phase = "apply" /\ meant' = meant /\ fromGo' = fromGo
      BY <1>8 DEF Apply, goVars
    <2>3. phase' = "idle" /\ answer' = a
      BY <2>1 DEF Return
    <2>4. CASE ~fromGo
      BY <2>2, <2>3, <2>4 DEF GoInv, AnswerInv
    <2>5. CASE fromGo
      <3>1. batch = meant /\ RecordOf(meant) <= MaxRecord
        BY <2>2, <2>5, HandedOver
      <3>2. a = "err" \/ (a = "invalid" /\ AnyTooLong(meant)) \/ (a = "ok" /\ ~AnyTooLong(meant))
        BY <2>1, <3>1 DEF EngineAnswers
      <3>3. QED
        BY <2>2, <2>3, <3>1, <3>2 DEF GoInv, AnswerInv
    <2>6. QED
      BY <2>4, <2>5
  <1>9. CASE UNCHANGED vars
    BY <1>9 DEF vars, goVars, GoInv, AnswerInv, ReadTo
  <1>10. QED
    BY <1>1, <1>2, <1>3, <1>4, <1>5, <1>6, <1>7, <1>8, <1>9 DEF Next
(* The number WriteBatch.Size documents is the length of the record that   *)
(* the decoder sizes, before a step and after it.                          *)
LEMMA DocumentedIs == CallerInv => Documented = RecordOf(meant)
  <1>1. Count(OpSet) = CountIn(meant, OpSet) /\ Count(OpDelete) = CountIn(meant, OpDelete)
    BY DEF Count, CountIn
  <1>2. CallerInv => Len(buf) = Len(Concat(meant))
    BY DEF CallerInv
  <1>3. QED
    BY <1>1, <1>2 DEF Documented, RecordOf

LEMMA DocumentedBecomes == CallerInv' => Documented' = RecordOf(meant')
  <1>1. Count(OpSet)' = CountIn(meant', OpSet) /\ Count(OpDelete)' = CountIn(meant', OpDelete)
    BY DEF Count, CountIn
  <1>2. CallerInv' => Len(buf') = Len(Concat(meant'))
    BY DEF CallerInv
  <1>3. QED
    BY <1>1, <1>2 DEF Documented, RecordOf
-----------------------------------------------------------------------------
(* What a batch becomes.                                                   *)
THEOREM PInductive == Spec => [](BInv /\ PInv)
  <1>1. Init => PInv
    <2>1. SUFFICES ASSUME Init PROVE PInv
      OBVIOUS
    <2>2. <<>> \in Seq(Short) /\ <<>> \in Seq(Packable) /\ <<>> \in Seq(Ops) /\ Len(<<>>) = 0
      BY EmptySeq
    <2>3. CallerInv
      BY <2>1, <2>2, ConcatEmpty DEF Init, CallerInv
    <2>4. BuiltInv
      BY <2>1, <2>2 DEF Init, BuiltInv, BuiltFromPrefix
    <2>5. GoInv /\ AnswerInv
      BY <2>1 DEF Init, GoInv, AnswerInv
    <2>6. QED
      BY <2>3, <2>4, <2>5 DEF PInv
  <1>2. BInv /\ PInv /\ NeverOversized /\ [Next]_vars => PInv'
    BY CallerKept, BuiltKept, GoKept DEF PInv, BInv
  <1>3. QED
    BY <1>1, <1>2, BInductive, RecordsFit, PTL DEF Spec

(* The engine's batch is at every point exactly the ops the walked bytes   *)
(* stand for, whatever the frame.                                          *)
THEOREM BuiltFromBytes == Spec => []BuiltFromPrefix
  <1>1. PInv => BuiltFromPrefix
    BY DEF PInv, BuiltInv
  <1>2. QED
    BY <1>1, PInductive, PTL

(* What reaches the engine from a Go batch is what the caller added.       *)
THEOREM RoundTrip == Spec => []AppliesWhatWasPacked
  <1>1. PInv /\ NeverOversized => AppliesWhatWasPacked
    BY HandedOver DEF PInv, AppliesWhatWasPacked
  <1>2. QED
    BY <1>1, PInductive, RecordsFit, PTL

(* Only a Go batch whose documented number is within the limit reaches the *)
(* engine, and its answer tells which of the refusals it met, or none:     *)
(* over the limit or a key or value too long if invalid, neither if ok.    *)
THEOREM SizeIsTheLimit == Spec => []LimitIsExact
  <1>1. PInv /\ NeverOversized => LimitIsExact
    <2>1. SUFFICES ASSUME PInv, NeverOversized, fromGo
                   PROVE  /\ phase = "apply" \/ answer = "err" => RecordOf(meant) <= MaxRecord
                          /\ answer = "invalid" => RecordOf(meant) > MaxRecord \/ AnyTooLong(meant)
                          /\ answer = "ok" => RecordOf(meant) <= MaxRecord /\ ~AnyTooLong(meant)
      BY DocumentedIs DEF PInv, LimitIsExact
    <2>2. phase = "apply" => RecordOf(meant) <= MaxRecord
      BY <2>1, HandedOver DEF PInv
    <2>3. QED
      BY <2>1, <2>2 DEF PInv, AnswerInv
  <1>2. QED
    BY <1>1, PInductive, RecordsFit, PTL
-----------------------------------------------------------------------------
(* A batch is written whole or not at all.                                 *)

(* A step that leaves the caller's side alone leaves its record alone.     *)
LEMMA RecordKept ==
  ASSUME UNCHANGED goVars
  PROVE  meant' = meant /\ Documented' = Documented
  <1>1. buf' = buf /\ meant' = meant
    BY DEF goVars
  <1>2. Count(OpSet)' = Count(OpSet) /\ Count(OpDelete)' = Count(OpDelete)
    BY <1>1 DEF Count
  <1>3. QED
    BY <1>1, <1>2 DEF Documented

(* The caller sees nothing of a write from C.                              *)
LEMMA UnseenStep ==
  ASSUME UNCHANGED <<goVars, fromGo>>, ~fromGo
  PROVE  UNCHANGED Atomic!writeVars
  <1>1. Stage' = Stage /\ Handed' = Handed /\ Answered' = Answered
    BY DEF Stage, Handed, Answered
  <1>2. QED
    BY <1>1, RecordKept DEF Atomic!writeVars

(* Nor of a pass that goes on.                                             *)
LEMMA PassStep ==
  ASSUME UNCHANGED <<goVars, fromGo, answer>>,
         phase \in {"size", "build"}, phase' \in {"size", "build"}
  PROVE  UNCHANGED Atomic!writeVars
  <1>1. Stage' = Stage /\ Handed' = Handed /\ Answered' = Answered
    BY DEF Stage, Handed, Answered
  <1>2. QED
    BY <1>1, RecordKept DEF Atomic!writeVars

(* Set and Delete add an op and its charge.                                *)
LEMMA AddRefines ==
  ASSUME CallerInv, CallerInv', NEW o \in Packable, o \in Short, AddOp(o)
  PROVE  Atomic!Add(o)
  <1>1. /\ phase = "idle" /\ phase' = "idle" /\ answer' = "none"
        /\ meant' = Append(meant, o)
    BY DEF AddOp
  <1>2. o \in Ops /\ meant \in Seq(Ops)
    BY ShortOps DEF CallerInv, Short
  <1>3. Documented' = Documented + Charge(o)
    <2>1. Documented' = RecordOf(Append(meant, o))
      BY <1>1, DocumentedBecomes
    <2>2. RecordOf(Append(meant, o)) = RecordOf(meant) + Charge(o)
      BY <1>2, RecordAppend
    <2>3. QED
      BY <2>1, <2>2, DocumentedIs
  <1>4. [p \in Packable |-> Charge(p)][o] = Charge(o)
    OBVIOUS
  <1>5. Stage = "idle" /\ Stage' = "idle" /\ Handed = <<>> /\ Handed' = <<>> /\ Answered' = "none"
    BY <1>1 DEF Stage, Handed, Answered
  <1>6. QED
    BY <1>1, <1>3, <1>4, <1>5 DEF Atomic!Add

LEMMA ResetRefines ==
  ASSUME CallerInv', BatchReset
  PROVE  Atomic!Reset
  <1>1. phase = "idle" /\ phase' = "idle" /\ answer' = "none" /\ meant' = <<>>
    BY DEF BatchReset
  <1>2. Documented' = CountLen
    BY <1>1, DocumentedBecomes, RecordEmpty
  <1>3. Stage = "idle" /\ Stage' = "idle" /\ Handed = <<>> /\ Handed' = <<>> /\ Answered' = "none"
    BY <1>1 DEF Stage, Handed, Answered
  <1>4. QED
    BY <1>1, <1>2, <1>3 DEF Atomic!Reset

(* DB.Write sets off, or has nothing to do.                                *)
LEMMA WriteRefines ==
  ASSUME CallerInv, GoWrite
  PROVE  Atomic!Write
  <1>1. meant \in Seq(Short) /\ n = Len(meant)
    BY DEF CallerInv
  <1>2. UNCHANGED goVars /\ fromGo' = TRUE /\ phase = "idle"
    BY DEF GoWrite, Decode
  <1>3. meant' = meant /\ Documented' = Documented
    BY <1>2, RecordKept
  <1>4. Stage = "idle" /\ Handed = <<>>
    BY <1>2 DEF Stage, Handed
  <1>5. CASE n > 0 /\ Decode(buf)
    <2>1. meant # <<>>
      BY <1>1, <1>5, EmptySeq
    <2>2. phase' \in {"size", "build"} /\ answer' = "none"
      BY <1>5 DEF Decode
    <2>3. Stage' = "writing" /\ Handed' = <<>> /\ Answered' = "none"
      BY <1>2, <2>2 DEF Stage, Handed, Answered
    <2>4. QED
      BY <1>3, <1>4, <2>1, <2>3 DEF Atomic!Write
  <1>6. CASE n = 0 /\ answer' = "ok" /\ phase' = phase
    <2>1. meant = <<>>
      BY <1>1, <1>6, EmptySeq
    <2>2. Stage' = "idle" /\ Handed' = <<>> /\ Answered' = "ok"
      BY <1>2, <1>6 DEF Stage, Handed, Answered
    <2>3. QED
      BY <1>3, <1>4, <2>1, <2>2 DEF Atomic!Write
  <1>7. QED
    BY <1>5, <1>6 DEF GoWrite

(* A refusal says that the record is too long.                             *)
LEMMA RefuseRefines ==
  ASSUME CallerInv, GoInv, fromGo, SizeOp \/ BuildOp, Return("invalid")
  PROVE  Atomic!Refuse
  <1>1. /\ phase \in {"size", "build"} /\ phase' = "idle" /\ answer' = "invalid"
        /\ UNCHANGED <<goVars, fromGo>>
    BY DEF Return, SizeOp, BuildOp
  <1>2. meant' = meant /\ Documented' = Documented
    BY <1>1, RecordKept
  <1>3. Documented > MaxRecord
    BY <1>1, RefusedForSize, DocumentedIs
  <1>4. /\ Stage = "writing" /\ Stage' = "idle" /\ Handed = <<>> /\ Handed' = <<>>
        /\ Answered' = "invalid"
    BY <1>1 DEF Stage, Handed, Answered
  <1>5. QED
    BY <1>2, <1>3, <1>4 DEF Atomic!Refuse

(* The engine is handed what the list is.                                  *)
LEMMA HandRefines ==
  ASSUME LimitIsExact', AppliesWhatWasPacked', fromGo, BuildDone
  PROVE  Atomic!Hand
  <1>1. /\ phase = "build" /\ phase' = "apply"
        /\ UNCHANGED <<goVars, fromGo, batch, answer>>
    BY DEF BuildDone
  <1>2. meant' = meant /\ Documented' = Documented
    BY <1>1, RecordKept
  <1>3. Documented <= MaxRecord /\ batch' = meant
    BY <1>1, <1>2 DEF LimitIsExact, AppliesWhatWasPacked
  <1>4. /\ Stage = "writing" /\ Stage' = "handed" /\ Handed' = batch'
        /\ Answered' = Answered
    BY <1>1 DEF Stage, Handed, Answered
  <1>5. QED
    BY <1>2, <1>3, <1>4 DEF Atomic!Hand

(* The engine's answer is the answer to the list.                          *)
LEMMA ReturnRefines ==
  ASSUME CallerInv, AppliesWhatWasPacked, fromGo, Apply
  PROVE  Atomic!Return
  <1>1. PICK a \in EngineAnswers(batch) :
          phase = "apply" /\ Return(a) /\ UNCHANGED <<goVars, fromGo>>
    BY DEF Apply
  <1>2. phase' = "idle" /\ answer' = a /\ fromGo'
    BY <1>1 DEF Return
  <1>3. meant' = meant /\ Documented' = Documented
    BY <1>1, RecordKept
  <1>4. /\ Stage = "handed" /\ Stage' = "idle" /\ Handed = batch /\ Handed' = <<>>
        /\ Answered' = a
    BY <1>1, <1>2 DEF Stage, Handed, Answered
  <1>5. batch \in Seq(Packable)
    BY <1>1 DEF AppliesWhatWasPacked, CallerInv
  <1>6. AnyTooLong(batch)
          <=> \E i \in 1..Len(batch) : batch[i] \in {o \in Packable : TooLong(o)}
    BY <1>5, ElementOfSeq DEF AnyTooLong
  <1>7. a = "err" \/ a = IF AnyTooLong(batch) THEN "invalid" ELSE "ok"
    BY DEF EngineAnswers
  <1>8. QED
    BY <1>3, <1>4, <1>6, <1>7 DEF Atomic!Return

(* A write from C, to the caller, is somebody else's.                      *)
LEMMA CRefines ==
  ASSUME CWrite
  PROVE  Atomic!Elsewhere
  <1>1. phase = "idle" /\ fromGo' = FALSE /\ UNCHANGED goVars
    BY DEF CWrite, Decode
  <1>2. Stage = "idle" /\ Stage' = "idle" /\ Handed = <<>> /\ Handed' = <<>> /\ Answered' = "none"
    BY <1>1 DEF Stage, Handed, Answered
  <1>3. QED
    BY <1>1, <1>2, RecordKept DEF Atomic!Elsewhere

LEMMA WriteInitRefines == Init => Atomic!Init
  <1>1. SUFFICES ASSUME Init PROVE Atomic!Init
    OBVIOUS
  <1>2. CallerInv
    <2>1. <<>> \in Seq(Short) /\ <<>> \in Seq(Packable) /\ Len(<<>>) = 0
      BY EmptySeq
    <2>2. QED
      BY <1>1, <2>1, ConcatEmpty DEF Init, CallerInv
  <1>3. meant = <<>> /\ Documented = CountLen
    BY <1>1, <1>2, DocumentedIs, RecordEmpty DEF Init
  <1>4. Stage = "idle" /\ Handed = <<>> /\ Answered = "none"
    BY <1>1 DEF Init, Stage, Handed, Answered
  <1>5. QED
    BY <1>3, <1>4 DEF Atomic!Init

(* Every step of packing and decoding is a step of the list, or is unseen. *)
LEMMA WriteStepRefines ==
    PInv /\ AppliesWhatWasPacked /\ PInv' /\ AppliesWhatWasPacked' /\ LimitIsExact' /\ [Next]_vars
      => [Atomic!Next]_(Atomic!writeVars)
  <1> SUFFICES ASSUME PInv, AppliesWhatWasPacked, PInv', AppliesWhatWasPacked', LimitIsExact',
                      [Next]_vars
               PROVE  Atomic!Next \/ UNCHANGED Atomic!writeVars
    OBVIOUS
  <1>0. CallerInv /\ GoInv /\ CallerInv'
    BY DEF PInv
  <1>1. CASE BatchSet
    <2>1. PICK key \in Payloads, value \in Payloads : AddOp(SetOp(key, value))
      BY <1>1 DEF BatchSet
    <2>2. SetOp(key, value) \in Packable /\ SetOp(key, value) \in Short
      BY GoOps DEF Packable
    <2>3. QED
      BY <1>0, <2>1, <2>2, AddRefines DEF Atomic!Next
  <1>2. CASE BatchDelete
    <2>1. PICK key \in Payloads : AddOp(DeleteOp(key))
      BY <1>2 DEF BatchDelete
    <2>2. DeleteOp(key) \in Packable /\ DeleteOp(key) \in Short
      BY GoOps DEF Packable
    <2>3. QED
      BY <1>0, <2>1, <2>2, AddRefines DEF Atomic!Next
  <1>3. CASE BatchReset
    BY <1>0, <1>3, ResetRefines DEF Atomic!Next
  <1>4. CASE GoWrite
    BY <1>0, <1>4, WriteRefines DEF Atomic!Next
  <1>5. CASE CWrite
    BY <1>5, CRefines DEF Atomic!Next
  <1>6. CASE SizeOp \/ BuildOp
    <2>1. phase \in {"size", "build"} /\ UNCHANGED <<goVars, fromGo>>
      BY <1>6 DEF SizeOp, BuildOp
    <2>2. CASE phase' = phase /\ answer' = answer
      BY <2>1, <2>2, PassStep
    <2>3. CASE Return("invalid")
      BY <1>0, <1>6, <2>1, <2>3, RefuseRefines, UnseenStep DEF Atomic!Next
    <2>4. QED
      BY <1>6, <2>2, <2>3 DEF SizeOp, BuildOp
  <1>7. CASE SizeDone
    <2>1. /\ phase \in {"size", "build"} /\ phase' \in {"size", "build"}
          /\ UNCHANGED <<goVars, fromGo, answer>>
      BY <1>7 DEF SizeDone
    <2>2. QED
      BY <2>1, PassStep
  <1>8. CASE BuildDone
    <2>1. UNCHANGED <<goVars, fromGo>>
      BY <1>8 DEF BuildDone
    <2>2. QED
      BY <1>8, <2>1, HandRefines, UnseenStep DEF Atomic!Next
  <1>9. CASE Apply
    <2>1. UNCHANGED <<goVars, fromGo>>
      BY <1>9 DEF Apply
    <2>2. QED
      BY <1>0, <1>9, <2>1, ReturnRefines, UnseenStep DEF Atomic!Next
  <1>10. CASE UNCHANGED vars
    <2>1. UNCHANGED <<goVars, fromGo, phase, batch, answer>>
      BY <1>10 DEF vars
    <2>2. Stage' = Stage /\ Handed' = Handed /\ Answered' = Answered
      BY <2>1 DEF Stage, Handed, Answered
    <2>3. QED
      BY <2>1, <2>2, RecordKept DEF Atomic!writeVars
  <1>11. QED
    BY <1>1, <1>2, <1>3, <1>4, <1>5, <1>6, <1>7, <1>8, <1>9, <1>10 DEF Next

(* To its Go caller a batch is a list of ops that a write hands to the     *)
(* engine whole and in order, or refuses before that because its           *)
(* documented size is over the limit; a write leaves it as it was          *)
(* (batch.go:53-86, regolith.go:280-294).                                  *)
THEOREM WriteIsAtomic == Spec => IsAtomicWrite
  <1>1. QED
    BY PInductive, RoundTrip, SizeIsTheLimit, WriteInitRefines, WriteStepRefines, PTL
       DEF Spec, IsAtomicWrite, Atomic!Spec
=============================================================================
