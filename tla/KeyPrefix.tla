----------------------------- MODULE KeyPrefix -----------------------------
(***************************************************************************)
(* Byte-string keys, and how the bounds a caller asks for (IterOptions of  *)
(* regolith.go, in C memory RegolithIterOptions) become the range an       *)
(* iterator walks (bounds_from and prefix_end of ffi/src/iter.rs).         *)
(*                                                                         *)
(* A byte string that may be absent is a set of at most one string.        *)
(***************************************************************************)
EXTENDS Integers, Sequences

CONSTANT Base   \* bytes are 0..Base - 1; 256 in the code

ASSUME BaseAssumption == Base \in Nat \ {0}

Bytes       == 0..Base - 1
TopByte     == Base - 1
ByteStrings == Seq(Bytes)

(* a < b in the order of byte slices: they agree on n bytes, then a ends   *)
(* or has the smaller byte.                                                *)
Less(a, b) == \E n \in 0..Len(a) :
  /\ n < Len(b)
  /\ \A i \in 1..n : a[i] = b[i]
  /\ n < Len(a) => a[n + 1] < b[n + 1]

StartsWith(k, p) == /\ Len(p) <= Len(k)
                    /\ \A i \in 1..Len(p) : k[i] = p[i]

(* The places of the last byte of p that can still be incremented: one, or *)
(* none when p is all TopByte.                                             *)
LastBelowTop(p) == {n \in 1..Len(p) : /\ p[n] < TopByte
                                      /\ \A i \in n + 1..Len(p) : p[i] = TopByte}

(* Mutant: the last byte is incremented without a carry.                   *)
PrefixEndNoCarry(p) ==
  {[i \in 1..n |-> IF i = n THEN (p[i] + 1) % Base ELSE p[i]] : n \in {Len(p)} \ {0}}

(* prefix_end: drop the trailing TopBytes, increment the byte before them. *)
PrefixEnd(p) ==
  {[i \in 1..n |-> IF i = n THEN p[i] + 1 ELSE p[i]] : n \in LastBelowTop(p)}

(* An optional byte range crosses as a pointer and a length.               *)
Args == [null : BOOLEAN, bytes : ByteStrings]

(* iterOptions.dup: an empty slice crosses as a null pointer.              *)
Dup(b) == [null |-> b = <<>>, bytes |-> b]

(* in_opt_bytes: null or of length zero is absent.                         *)
InOptBytes(a) == IF a.null \/ a.bytes = <<>> THEN {} ELSE {a.bytes}

(* bounds_from *)
BoundsFrom(o) ==
  LET prefix == InOptBytes(o.prefix)
  IN  IF prefix # {}
        THEN [start |-> prefix, end |-> UNION {PrefixEnd(p) : p \in prefix}]
        ELSE [start |-> InOptBytes(o.start), end |-> InOptBytes(o.end)]

(* Bounds::contains *)
InBounds(b, k) == /\ \A s \in b.start : ~Less(k, s)
                  /\ \A e \in b.end : Less(k, e)

(* newIterOptions *)
ToC(q) == [prefix |-> Dup(q.prefix), start |-> Dup(q.start), end |-> Dup(q.end)]

(* What IterOptions promises (regolith.go:131-140): the keys beginning     *)
(* with Prefix, which overrides Start and End; else Start inclusive, End   *)
(* exclusive, an empty one being no bound.                                 *)
Asked(q, k) ==
  IF q.prefix # <<>>
    THEN StartsWith(k, q.prefix)
    ELSE /\ q.start # <<>> => ~Less(k, q.start)
         /\ q.end # <<>> => Less(k, q.end)
=============================================================================
