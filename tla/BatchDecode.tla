---------------------------- MODULE BatchDecode ----------------------------
(***************************************************************************)
(* A write batch on its way to the engine: packed by WriteBatch (batch.go) *)
(* into a frame of bytes, decoded by batch::decode (ffi/src/batch.rs) and  *)
(* handed to Db::write.  The decoder walks the frame once to build the     *)
(* engine's batch, and only a frame longer than MaxFrameWithoutSizing is   *)
(* walked once before that to size the log record the batch will become.   *)
(*                                                                         *)
(* A byte is a digit below Base, a length field is LenBytes of them,       *)
(* little-endian.  Every width and limit of the code is a constant here.   *)
(***************************************************************************)
EXTENDS Integers, Sequences

CONSTANTS Base,            \* 256 in the code
          LenBytes,        \* 8
          CountLen,        \* BATCH_COUNT_LEN, 4
          SetOverhead,     \* SET_RECORD_OVERHEAD, 25
          DeleteOverhead,  \* DELETE_RECORD_OVERHEAD, 21
          MaxRecord,       \* MAX_BATCH_RECORD_LEN, 2^30
          MaxKeyLen,       \* the longest key the engine takes, 8 MiB,
          MaxValueLen,     \* and the longest value
          Payloads,        \* keys and values a Go caller packs
          MaxOps,          \* bound on the ops it packs in one batch
          Frames           \* frames another C caller passes

Byte == 0..Base - 1
OpSet    == 1
OpDelete == 2

DeleteFrame == 1 + LenBytes
SetFrame    == 1 + 2 * LenBytes

ASSUME WidthAssumption ==
  /\ Base \in Nat \ {0, 1, 2} /\ LenBytes \in Nat \ {0}
  /\ CountLen \in Nat /\ MaxRecord \in Nat /\ CountLen <= MaxRecord
  /\ Payloads \subseteq Seq(Byte) /\ Frames \subseteq Seq(Byte)
  /\ \A p \in Payloads : Len(p) < Base ^ LenBytes

(* What a power is, for the powers used here.                              *)
ASSUME PowerAssumption ==
  Base ^ 0 = 1 /\ \A d \in 1..LenBytes : Base ^ d = Base * Base ^ (d - 1)

(* A delete is the op whose record outgrows its frame the most.            *)
ASSUME OverheadAssumption ==
  /\ SetOverhead \in Nat /\ DeleteOverhead \in Nat
  /\ DeleteOverhead >= DeleteFrame
  /\ SetOverhead * DeleteFrame <= DeleteOverhead * SetFrame

MaxFrameWithoutSizing == ((MaxRecord - CountLen) * DeleteFrame) \div DeleteOverhead

VARIABLES buf, n,    \* the Go batch: its packed ops and their number
          meant,     \* history: the ops the Go caller added
          fromGo,    \* history: the last write was of the Go batch
          frame,     \* the frame being decoded
          phase,     \* "idle", "size", "build" or "apply"
          at,        \* bytes of frame walked in this pass
          rec,       \* record bytes of the ops walked in this pass
          batch,     \* the engine's WriteBatch
          sized,     \* history: <<at, rec>> all through the sizing pass
          answer     \* what Write returned

goVars == <<buf, n, meant>>
vars   == <<goVars, fromGo, frame, phase, at, rec, batch, sized, answer>>
-----------------------------------------------------------------------------
(* Reading the frame.  Offset i is the number of bytes before.             *)

Lengths == 0..Base ^ LenBytes - 1

IsLengthAt(f, i, len) ==
  \A d \in 1..LenBytes : f[i + d] = (len \div Base ^ (d - 1)) % Base

LengthAt(f, i) == CHOOSE len \in Lengths : IsLengthAt(f, i, len)

FieldEnd(f, i) == i + LenBytes + LengthAt(f, i)

(* field: the length and the bytes are in the frame.                       *)
HasField(f, i) == /\ i + LenBytes <= Len(f)
                  /\ \E len \in Lengths : IsLengthAt(f, i, len)
                  /\ FieldEnd(f, i) <= Len(f)

Field(f, i) == SubSeq(f, i + LenBytes + 1, FieldEnd(f, i))

(* walk, one op: a tag and its fields, or an error.                        *)
HasSet(f, i)    == f[i + 1] = OpSet /\ HasField(f, i + 1) /\ HasField(f, FieldEnd(f, i + 1))
HasDelete(f, i) == f[i + 1] = OpDelete /\ HasField(f, i + 1)
HasOp(f, i)     == HasSet(f, i) \/ HasDelete(f, i)

SetOp(key, value) == [tag |-> OpSet, fields |-> <<key, value>>]
DeleteOp(key)     == [tag |-> OpDelete, fields |-> <<key>>]

(* Mutant: a set is taken to end with its key.                             *)
OpEndOfKey(f, i) == FieldEnd(f, i + 1)

OpEnd(f, i) == IF f[i + 1] = OpSet THEN FieldEnd(f, FieldEnd(f, i + 1))
                                   ELSE FieldEnd(f, i + 1)

OpAt(f, i) == IF f[i + 1] = OpSet
                THEN SetOp(Field(f, i + 1), Field(f, FieldEnd(f, i + 1)))
                ELSE DeleteOp(Field(f, i + 1))

(* Mutant: every op is charged as a set.                                   *)
RecordLenAsSet(f, i) ==
  SetOverhead + LengthAt(f, i + 1)
              + IF f[i + 1] = OpSet THEN LengthAt(f, FieldEnd(f, i + 1)) ELSE 0

(* set_record_len, delete_record_len                                       *)
RecordLen(f, i) ==
  IF f[i + 1] = OpSet
    THEN SetOverhead + LengthAt(f, i + 1) + LengthAt(f, FieldEnd(f, i + 1))
    ELSE DeleteOverhead + LengthAt(f, i + 1)
-----------------------------------------------------------------------------
(* Packing, on the Go side.                                                *)

LengthField(len) == [d \in 1..LenBytes |-> (len \div Base ^ (d - 1)) % Base]

AppendField(b, field) == b \o LengthField(Len(field)) \o field

(* Mutant: the value goes before the key.                                  *)
PackValueFirst(b, o) ==
  IF o.tag = OpSet
    THEN AppendField(AppendField(Append(b, OpSet), o.fields[2]), o.fields[1])
    ELSE AppendField(Append(b, OpDelete), o.fields[1])

Pack(b, o) == IF o.tag = OpSet
                THEN AppendField(AppendField(Append(b, OpSet), o.fields[1]), o.fields[2])
                ELSE AppendField(Append(b, OpDelete), o.fields[1])

Init ==
  /\ buf = <<>> /\ n = 0 /\ meant = <<>>
  /\ fromGo = TRUE /\ frame = <<>> /\ phase = "idle"
  /\ at = 0 /\ rec = CountLen /\ batch = <<>> /\ sized = {}
  /\ answer = "none"

AddOp(o) ==
  /\ phase = "idle" /\ n < MaxOps
  /\ buf' = Pack(buf, o) /\ n' = n + 1 /\ meant' = Append(meant, o)
  /\ answer' = "none"
  /\ UNCHANGED <<fromGo, frame, phase, at, rec, batch, sized>>

BatchSet    == \E key, value \in Payloads : AddOp(SetOp(key, value))
BatchDelete == \E key \in Payloads : AddOp(DeleteOp(key))

BatchReset ==
  /\ phase = "idle" /\ n > 0
  /\ buf' = <<>> /\ n' = 0 /\ meant' = <<>>
  /\ answer' = "none"
  /\ UNCHANGED <<fromGo, frame, phase, at, rec, batch, sized>>

(* Mutant: a set is taken for the op that outgrows its frame the most.     *)
NeedsSizingBySets(f) == Len(f) > ((MaxRecord - CountLen) * SetFrame) \div SetOverhead

(* decode starts with a sizing pass only over a long frame.                *)
NeedsSizing(f) == Len(f) > MaxFrameWithoutSizing

Decode(f) ==
  /\ phase = "idle"
  /\ frame' = f
  /\ phase' = IF NeedsSizing(f) THEN "size" ELSE "build"
  /\ at' = 0 /\ rec' = CountLen /\ batch' = <<>>
  /\ sized' = {<<0, CountLen>>}
  /\ answer' = "none"
  /\ UNCHANGED goVars

(* DB.Write of the Go batch: an empty one never crosses.                   *)
GoWrite ==
  \/ n > 0 /\ Decode(buf) /\ fromGo' = TRUE
  \/ /\ phase = "idle" /\ n = 0 /\ answer' = "ok"
     /\ fromGo' = TRUE
     /\ UNCHANGED <<goVars, frame, phase, at, rec, batch, sized>>

(* regolith_db_write from C, with any bytes at all.  The decoder shares     *)
(* nothing with a Go batch, so the two callers take turns.                  *)
CWrite == n = 0 /\ \E f \in Frames : Decode(f) /\ fromGo' = FALSE
-----------------------------------------------------------------------------
(* Mutant: the offset outlives the frame.                                  *)
ReturnKeepsOffset(a) ==
  /\ phase' = "idle" /\ answer' = a
  /\ frame' = <<>> /\ rec' = CountLen /\ batch' = <<>> /\ sized' = {}
  /\ UNCHANGED at

(* Returning, decode drops its frame, its totals and its batch.            *)
Return(a) ==
  /\ phase' = "idle" /\ answer' = a
  /\ frame' = <<>> /\ at' = 0 /\ rec' = CountLen /\ batch' = <<>> /\ sized' = {}

(* The sizing pass: RecordLen::charge refuses the op that crosses the limit. *)
SizeOp ==
  /\ phase = "size" /\ at < Len(frame)
  /\ IF HasOp(frame, at) /\ rec + RecordLen(frame, at) <= MaxRecord
       THEN /\ at' = OpEnd(frame, at)
            /\ rec' = rec + RecordLen(frame, at)
            /\ sized' = sized \cup {<<at', rec'>>}
            /\ UNCHANGED <<frame, phase, batch, answer>>
       ELSE Return("invalid")
  /\ UNCHANGED <<goVars, fromGo>>

SizeDone ==
  /\ phase = "size" /\ at = Len(frame)
  /\ phase' = "build" /\ at' = 0 /\ rec' = CountLen
  /\ UNCHANGED <<goVars, fromGo, frame, batch, sized, answer>>

(* The building pass charges nothing: rec is here what the record of batch *)
(* amounts to, not a number the code computes.                             *)
BuildOp ==
  /\ phase = "build" /\ at < Len(frame)
  /\ IF HasOp(frame, at)
       THEN /\ batch' = Append(batch, OpAt(frame, at))
            /\ at' = OpEnd(frame, at)
            /\ rec' = rec + RecordLen(frame, at)
            /\ UNCHANGED <<frame, phase, sized, answer>>
       ELSE Return("invalid")
  /\ UNCHANGED <<goVars, fromGo>>

BuildDone ==
  /\ phase = "build" /\ at = Len(frame)
  /\ phase' = "apply"
  /\ UNCHANGED <<goVars, fromGo, frame, at, rec, batch, sized, answer>>

(* Db::write (external) checks the length of every key and value of a      *)
(* batch, then applies it whole; it may also fail for reasons of its own.  *)
TooLong(o) == \/ Len(o.fields[1]) > MaxKeyLen
              \/ o.tag = OpSet /\ Len(o.fields[2]) > MaxValueLen

AnyTooLong(s) == \E i \in 1..Len(s) : TooLong(s[i])

EngineAnswers(s) == {"err", IF AnyTooLong(s) THEN "invalid" ELSE "ok"}

(* What it refuses as too long comes back as an invalid argument, like a   *)
(* frame that decode refuses.                                              *)
Apply ==
  /\ phase = "apply"
  /\ \E a \in EngineAnswers(batch) : Return(a)
  /\ UNCHANGED <<goVars, fromGo>>

Next == \/ BatchSet \/ BatchDelete \/ BatchReset \/ GoWrite \/ CWrite
        \/ SizeOp \/ SizeDone \/ BuildOp \/ BuildDone \/ Apply

Spec == Init /\ [][Next]_vars
-----------------------------------------------------------------------------
TypeOK ==
  /\ buf \in Seq(Byte) /\ n \in Nat /\ fromGo \in BOOLEAN
  /\ frame \in Seq(Byte)
  /\ phase \in {"idle", "size", "build", "apply"}
  /\ at \in 0..Len(frame) /\ rec \in Nat
  /\ sized \subseteq Nat \X Nat
  /\ answer \in {"none", "ok", "err", "invalid"}

(* No op that takes the log record past its limit is ever put in a batch,  *)
(* let alone reaches the engine: also not by way of the frames decode does *)
(* not size.                                                               *)
NeverOversized == phase \in {"build", "apply"} => rec <= MaxRecord

Concat(s) ==
  LET packed[i \in 0..Len(s)] == IF i = 0 THEN <<>> ELSE Pack(packed[i - 1], s[i])
  IN  packed[Len(s)]

(* The engine's batch is at every point exactly the ops the walked bytes   *)
(* stand for, in their order: nothing skipped, read twice or misaligned.   *)
BuiltFromPrefix == phase \in {"build", "apply"} => Concat(batch) = SubSeq(frame, 1, at)

(* What reaches the engine from a Go batch is what the caller added, a     *)
(* part of IsAtomicWrite below.                                            *)
AppliesWhatWasPacked == phase = "apply" /\ fromGo => batch = meant

Count(tag) ==
  LET c[i \in 0..Len(meant)] ==
        IF i = 0 THEN 0 ELSE c[i - 1] + IF meant[i].tag = tag THEN 1 ELSE 0
  IN  c[Len(meant)]

(* The rule of WriteBatch.Size (batch.go:73-80): Size, plus 8 per set, 12  *)
(* per delete and 4, is what Write bounds.                                 *)
Documented == Len(buf) + (SetOverhead - SetFrame) * Count(OpSet)
                       + (DeleteOverhead - DeleteFrame) * Count(OpDelete) + CountLen

(* Only a Go batch whose number is within the limit reaches the engine.    *)
(* One answered ErrInvalidArgument is over it, or holds a key or value too *)
(* long for the engine; one that was written is not, and holds none        *)
(* (batch.go:73-80, regolith_ffi.h:374-381).                               *)
LimitIsExact == fromGo =>
  /\ phase = "apply" \/ answer = "err" => Documented <= MaxRecord
  /\ answer = "invalid" => Documented > MaxRecord \/ AnyTooLong(meant)
  /\ answer = "ok" => Documented <= MaxRecord /\ ~AnyTooLong(meant)

(* The ops a Go caller packs, and the bytes that rule charges for one.     *)
Packable == {SetOp(key, value) : key, value \in Payloads} \cup {DeleteOp(key) : key \in Payloads}

Charge(o) == IF o.tag = OpSet THEN SetOverhead + Len(o.fields[1]) + Len(o.fields[2])
                              ELSE DeleteOverhead + Len(o.fields[1])

(* Between its call and the answer, a write of the Go batch is either on   *)
(* its way or with the engine.                                             *)
Stage == IF fromGo /\ phase # "idle" THEN IF phase = "apply" THEN "handed" ELSE "writing"
                                     ELSE "idle"

Handed   == IF Stage = "handed" THEN batch ELSE <<>>
Answered == IF fromGo THEN answer ELSE "none"

(* To its Go caller a batch is a list of ops that is written whole or not  *)
(* at all, and kept from the engine exactly when its documented size is    *)
(* over the limit.                                                         *)
Atomic == INSTANCE AtomicWrite WITH
       Ops <- Packable, Cost <- [o \in Packable |-> Charge(o)], Header <- CountLen,
       Overlong <- {o \in Packable : TooLong(o)},
       ops <- meant, record <- Documented, phase <- Stage,
       handed <- Handed, answer <- Answered

IsAtomicWrite == Atomic!Spec
=============================================================================
