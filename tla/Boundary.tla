------------------------------ MODULE Boundary ------------------------------
(***************************************************************************)
(* One call across the FFI boundary at a time: the C memory it allocates,  *)
(* the out-params it fills, the status and error detail it comes back with *)
(* (ffi/src/lib.rs), and what the Go half makes of them (errors.go and the *)
(* helpers at the end of regolith.go).                                     *)
(*                                                                         *)
(*   idle --Call--> inside --Ffi...--> returned --StatusToErr--> decoded   *)
(*        <--Deferred-- copied <--Copy...--                                *)
(***************************************************************************)
EXTENDS KeyPrefix

CONSTANTS Strings,     \* byte strings to try as Prefix, Start, End and keys
          HeaderLen,   \* bytes of a key's length in a frame
          MaxKeyLen,   \* the engine's longest key
          MaxEntries,  \* batchEntries of iter.go
          IntHalf      \* C.int is IntHalf values below zero, IntHalf from it

ASSUME BoundaryAssumption ==
  /\ Strings \subseteq ByteStrings /\ <<>> \in Strings
  /\ HeaderLen \in Nat \ {0} /\ MaxKeyLen \in Nat
  /\ MaxEntries \in Nat \ {0} /\ IntHalf \in Nat \ {0}
  /\ MaxEntries * (HeaderLen + MaxKeyLen) < 2 * IntHalf

VARIABLES stage,
          call,     \* the kind of call
          heap,     \* C and Rust objects the call may have to release
          misuse,   \* history: reads of and releases of objects not there
          cause,    \* history: what happened inside the call
          text,     \* history: the text of the failure
          frame,    \* history: lengths of the keys next_batch framed
          ret,      \* what the call came back with
          go,       \* what the Go half answers
          asked,    \* the options of the open iterator
          range     \* the range it resolved them to

vars == <<stage, call, heap, misuse, cause, text, frame, ret, go, asked, range>>
-----------------------------------------------------------------------------
(* Failures: where they come from and how they cross.                      *)

EngineErrors == {"Closed", "InvalidArgument", "OtherError"}
TxnErrors    == {"Conflict", "Busy", "UnsupportedRangeDelete", "NoSavepoint", "Io"}
FfiFailures  == {"not found", "read only", "discarded", "bad argument"}

(* What may happen inside a call of each kind, besides success.            *)
CausesOf(kind) == {"panic"} \cup
  CASE kind = "get"    -> EngineErrors \cup TxnErrors \cup {"not found", "discarded", "bad argument"}
    [] kind = "bool"   -> EngineErrors \cup TxnErrors \cup {"discarded", "bad argument"}
    [] kind = "unit"   -> EngineErrors \cup TxnErrors \cup (FfiFailures \ {"not found"})
    [] kind = "batch"  -> EngineErrors \cup {"discarded", "bad argument"}
    [] kind = "iter"   -> {"discarded", "bad argument"}
    [] OTHER           -> {"bad argument"}   \* "ignored"; a "close" does not fail

(* A failure's text may hold nul bytes, among others or nothing else.      *)
Texts == {"some", "holed", "nuls", ""}

(* Mutant: nul bytes are left in, and end the C string.                    *)
CutAtNul(t) == IF t \in {"holed", "nuls"} THEN "" ELSE t

(* RegolithError::into_raw                                                 *)
WithoutNuls(t) == CASE t = "holed" -> "some" [] t = "nuls" -> "" [] OTHER -> t

(* The constants of lib.rs.                                                *)
RustCode == [ OK |-> 0, NOT_FOUND |-> 1, DB_CLOSED |-> 2, TXN_CONFLICT |-> 3, READ_ONLY_TXN |-> 4,
              DISCARDED |-> 5, INVALID_ARG |-> 6, PANIC |-> 7, OTHER_ERR |-> 8 ]

(* Mutant: a lock conflict gets a code that only one side knows.           *)
StatusBusyUnlisted(c) ==
  CASE c = "ok" -> RustCode.OK [] c = "not found" -> RustCode.NOT_FOUND
    [] c = "Closed" -> RustCode.DB_CLOSED [] c = "Busy" -> 9 [] c = "Conflict" -> RustCode.TXN_CONFLICT
    [] c = "read only" -> RustCode.READ_ONLY_TXN [] c = "discarded" -> RustCode.DISCARDED
    [] c = "panic" -> RustCode.PANIC [] c \in {"Io", "OtherError"} -> RustCode.OTHER_ERR
    [] OTHER -> RustCode.INVALID_ARG

(* The From conversions of engine and transaction errors, and the codes    *)
(* the entry points fail with themselves.                                  *)
StatusOf(c) ==
  CASE c = "ok"                      -> RustCode.OK
    [] c = "not found"               -> RustCode.NOT_FOUND
    [] c = "Closed"                  -> RustCode.DB_CLOSED
    [] c \in {"Conflict", "Busy"}    -> RustCode.TXN_CONFLICT
    [] c = "read only"               -> RustCode.READ_ONLY_TXN
    [] c = "discarded"               -> RustCode.DISCARDED
    [] c \in {"InvalidArgument", "bad argument", "UnsupportedRangeDelete", "NoSavepoint"}
                                     -> RustCode.INVALID_ARG
    [] c = "panic"                   -> RustCode.PANIC
    [] OTHER                         -> RustCode.OTHER_ERR

(* Failure: only these statuses come with a text.                          *)
CarriesDetail(status) == status \in {RustCode.INVALID_ARG, RustCode.PANIC, RustCode.OTHER_ERR}
TextsOf(status) == IF CarriesDetail(status) THEN Texts ELSE {""}

(* The macros of regolith_ffi.h that statusToErr switches on.              *)
HeaderCode == [ nil |-> 0, ErrNotFound |-> 1, ErrClosed |-> 2, ErrConflict |-> 3, ErrReadOnly |-> 4,
                ErrDiscarded |-> 5, ErrInvalidArgument |-> 6, ErrPanic |-> 7 ]

SentinelOf(status) ==
  IF \E e \in DOMAIN HeaderCode : HeaderCode[e] = status
    THEN CHOOSE e \in DOMAIN HeaderCode : HeaderCode[e] = status
    ELSE "ErrUnexpected"
-----------------------------------------------------------------------------
(* C integers and batches of keys.                                         *)

(* C.int(n) and int32(n) of a size.                                        *)
CInt(n) == ((n + IntHalf) % (2 * IntHalf)) - IntHalf

(* Where the next key's length goes in a frame of keys of these lengths.   *)
FrameEnd(lens) ==
  LET end[i \in 0..Len(lens)] == IF i = 0 THEN 0 ELSE end[i - 1] + HeaderLen + lens[i]
  IN  end

FrameLen(lens) == FrameEnd(lens)[Len(lens)]

(* Mutant: the loop steps over a key but not over its length.              *)
IndexShort(lens) == [i \in 1..Len(lens) |->
  [off |-> CInt(FrameEnd(lens)[i - 1]), len |-> CInt(lens[i])]]

(* The loop of refill: one entry per key, located in int32.                *)
Index(lens) == [i \in 1..Len(lens) |->
  [off |-> CInt(FrameEnd(lens)[i - 1] + HeaderLen), len |-> CInt(lens[i])]]

KeyLists == UNION {[1..n -> 0..MaxKeyLen] : n \in 0..MaxEntries}
-----------------------------------------------------------------------------
Options == [prefix : Strings, start : Strings, end : Strings]
NoOptions == [prefix |-> <<>>, start |-> <<>>, end |-> <<>>]

(* Objects of one call: C memory of an iterator's options and of the byte  *)
(* ranges in it, an error detail, a buffer handed over, the handle pinning *)
(* a lent value, an iterator.                                              *)
OptionsMemory(q) == {"opts"} \cup {f \in {"prefix", "start", "end"} : q[f] # <<>>}
Objects == {"opts", "prefix", "start", "end", "detail", "buffer", "pin", "iterator"}

(* The err slot holds an error detail or null; an out-param an object and  *)
(* the number of bytes behind it.                                          *)
NoOut == [obj |-> "none", len |-> 0]
Returned(status, detail, out) == [status |-> status, detail |-> detail, out |-> out]
Nothing == Returned(0, {}, NoOut)
Answer(err, msg) == [err |-> err, msg |-> msg, ents |-> <<>>, panicked |-> FALSE]

Init ==
  /\ stage = "idle"
  /\ call = "unit"
  /\ heap = {} /\ misuse = {}
  /\ cause = "ok" /\ text = "" /\ frame = <<>>
  /\ ret = Nothing /\ go = Answer("nil", "")
  /\ asked = NoOptions /\ range = BoundsFrom(ToC(NoOptions))

(* Releasing or reading an object that is not there is recorded.           *)
Release(objs) == /\ heap' = heap \ objs
                 /\ misuse' = misuse \cup {<<"release", o>> : o \in objs \ heap}
Read(objs) == misuse' = misuse \cup {<<"read", o>> : o \in objs \ heap}

(* The Go half prepares a call and crosses.  Reset and Discard pass no err *)
(* slot and ignore the status; NewIter copies its options to C memory      *)
(* (newIterOptions).                                                       *)
Kinds == {"get", "bool", "unit", "batch", "iter", "close", "ignored"}

HasErrSlot == call # "ignored"

Call(kind, q) ==
  /\ stage = "idle" /\ stage' = "inside"
  /\ kind = "iter" => "iterator" \notin heap
  /\ kind \in {"batch", "close"} => "iterator" \in heap
  /\ call' = kind
  /\ heap' = heap \cup (IF kind = "iter" THEN OptionsMemory(q) ELSE {})
  /\ asked' = IF kind = "iter" THEN q ELSE asked
  /\ ret' = Nothing /\ go' = Answer("nil", "")
  /\ cause' = "ok" /\ text' = "" /\ frame' = <<>>
  /\ UNCHANGED <<misuse, range>>

(* guard: a success, with what the body handed over.                       *)
Succeed(out, handed) ==
  /\ cause' = "ok" /\ text' = ""
  /\ heap' = heap \cup handed
  /\ ret' = Returned(StatusOf("ok"), {}, out)

Inside(kind) == /\ stage = "inside" /\ call = kind
                /\ stage' = IF kind = "ignored" THEN "idle" ELSE "returned"
                /\ UNCHANGED <<call, misuse, go, asked>>

(* regolith_db_get_borrowed, regolith_txn_get_borrowed through             *)
(* out_borrowed: an empty value has no owner, so it comes without a pin.   *)
FfiGet ==
  /\ Inside("get")
  /\ \E len \in {0, 1} :
       IF len = 0 THEN Succeed(NoOut, {}) ELSE Succeed([obj |-> "pin", len |-> len], {"pin"})
  /\ UNCHANGED <<frame, range>>

(* Calls that hand over nothing but a status, or a status and a boolean.   *)
FfiPlain ==
  /\ \E kind \in {"bool", "unit", "ignored"} : Inside(kind)
  /\ Succeed(NoOut, {})
  /\ UNCHANGED <<frame, range>>

(* regolith_iter_next_batch through out_bytes: an empty frame is a dangling *)
(* pointer with nothing behind it.                                         *)
FfiBatch ==
  /\ Inside("batch")
  /\ \E lens \in KeyLists :
       /\ frame' = lens
       /\ Succeed([obj |-> "buffer", len |-> FrameLen(lens)],
                  IF FrameLen(lens) = 0 THEN {} ELSE {"buffer"})
  /\ UNCHANGED range

(* regolith_db_iter, regolith_txn_iter: the options are read during the    *)
(* call, the iterator keeps its own copy of the bounds.                    *)
FfiIter ==
  /\ Inside("iter")
  /\ Succeed([obj |-> "iterator", len |-> 0], {"iterator"})
  /\ range' = BoundsFrom(ToC(asked))
  /\ UNCHANGED frame

FfiClose ==
  /\ stage = "inside" /\ call = "close" /\ stage' = "returned"
  /\ cause' = "ok" /\ text' = ""
  /\ ret' = Returned(StatusOf("ok"), {}, NoOut)
  /\ Release({"iterator"})
  /\ range' = BoundsFrom(ToC(NoOptions))
  /\ UNCHANGED <<call, frame, go, asked>>

(* Mutant: the detail is boxed although nobody can take it.                *)
FailBoxedAnyway ==
  /\ Inside(call) /\ call # "close"
  /\ \E c \in CausesOf(call) : \E t \in TextsOf(StatusOf(c)) :
       LET boxed == IF CarriesDetail(StatusOf(c)) THEN {"detail"} ELSE {} IN
       /\ cause' = c /\ text' = t
       /\ heap' = heap \cup boxed
       /\ ret' = Returned(StatusOf(c), IF HasErrSlot THEN boxed ELSE {}, NoOut)
  /\ UNCHANGED <<frame, range>>

(* guard: a failure or a caught panic, which writes no out-param but err.  *)
(* The closing call fails only for a null handle, which Go never passes.   *)
FfiFail ==
  /\ Inside(call) /\ call # "close"
  /\ \E c \in CausesOf(call) : \E t \in TextsOf(StatusOf(c)) :
       LET boxed == IF HasErrSlot /\ CarriesDetail(StatusOf(c)) THEN {"detail"} ELSE {} IN
       /\ cause' = c /\ text' = t
       /\ heap' = heap \cup boxed
       /\ ret' = Returned(StatusOf(c), boxed, NoOut)
  /\ UNCHANGED <<frame, range>>

(* Mutant: the pin is released before the bytes are copied.                *)
StatusToErrUnpinning ==
  /\ stage = "returned" /\ stage' = "decoded"
  /\ Release(ret.detail \cup ({ret.out.obj} \cap {"pin"}))
  /\ go' = Answer(SentinelOf(ret.status), IF ret.detail # {} THEN WithoutNuls(text) ELSE "")
  /\ UNCHANGED <<call, cause, text, frame, ret, asked, range>>

(* statusToErr: take the message and release the detail, then map the code. *)
StatusToErr ==
  /\ stage = "returned" /\ stage' = "decoded"
  /\ Release(ret.detail)
  /\ LET err == SentinelOf(ret.status)
         msg == IF ret.detail # {} THEN WithoutNuls(text) ELSE ""
     IN  go' = Answer(err, IF err \in {"ErrInvalidArgument", "ErrPanic", "ErrUnexpected"}
                             THEN msg ELSE "")
  /\ UNCHANGED <<call, cause, text, frame, ret, asked, range>>

Failed == go.err # "nil"

(* C.GoBytes in takeBuf and copyBorrowed: panics on a negative length.     *)
Copied(o, ents) ==
  IF o.len = 0 THEN UNCHANGED <<misuse, go>>
  ELSE /\ Read({o.obj})
       /\ go' = IF CInt(o.len) < 0 THEN [go EXCEPT !.panicked = TRUE]
                                   ELSE [go EXCEPT !.ents = ents]

(* The call's result is copied into Go memory, unless there is none.       *)
Copy ==
  /\ stage = "decoded" /\ stage' = "copied"
  /\ IF Failed THEN UNCHANGED <<misuse, go>>
     ELSE Copied(ret.out, IF call = "batch" THEN Index(frame) ELSE <<>>)
  /\ UNCHANGED <<call, heap, cause, text, frame, ret, asked, range>>

(* Mutant: releases that only a call that succeeds reaches.                *)
DeferredOnSuccess ==
  /\ stage = "copied" /\ stage' = "idle"
  /\ Release(IF Failed \/ go.panicked THEN {}
             ELSE (IF call = "iter" THEN OptionsMemory(asked) ELSE {})
                  \cup ({ret.out.obj} \cap (IF ret.out.len = 0 THEN {} ELSE {"pin", "buffer"})))
  /\ asked' = IF "iterator" \in heap THEN asked ELSE NoOptions
  /\ UNCHANGED <<call, cause, text, frame, ret, go, range>>

(* The deferred releases, which run on a panic too: iterOptions.free in    *)
(* NewIter, regolith_release_value in copyBorrowed for a value that came   *)
(* with a handle, regolith_free_buf in takeBuf for a buffer of some length. *)
Deferred ==
  /\ stage = "copied" /\ stage' = "idle"
  /\ Release((IF call = "iter" THEN OptionsMemory(asked) ELSE {})
             \cup ({ret.out.obj} \cap (IF ret.out.len = 0 THEN {} ELSE {"pin", "buffer"})))
  /\ asked' = IF "iterator" \in heap THEN asked ELSE NoOptions
  /\ UNCHANGED <<call, cause, text, frame, ret, go, range>>

Next ==
  \/ \E kind \in Kinds : \E q \in IF kind = "iter" THEN Options ELSE {NoOptions} : Call(kind, q)
  \/ FfiGet \/ FfiPlain \/ FfiBatch \/ FfiIter \/ FfiClose \/ FfiFail
  \/ StatusToErr \/ Copy \/ Deferred

Spec == Init /\ [][Next]_vars
-----------------------------------------------------------------------------
(* Types: what is alive at each stage, and what C and Go saw of the call.  *)
TypeOK ==
  /\ stage \in {"idle", "inside", "returned", "decoded", "copied"}
  /\ call \in Kinds
  /\ heap \subseteq Objects
  /\ asked \in Options
  /\ ret.status \in 0..8 /\ ret.detail \subseteq {"detail"}
  /\ ret.out \in [obj : Objects \cup {"none"}, len : Nat]
  /\ frame \in KeyLists

(* When a call has returned to the Go caller, whether it succeeded, failed  *)
(* or panicked, what it allocated on either side is released (errors.go:63,*)
(* regolith.go:610, 643, 693): only an iterator the caller asked for stays.*)
EverythingReleased == stage = "idle" => heap \subseteq {"iterator"}

(* No call reads C or engine memory after releasing it, or releases it      *)
(* twice: copyBorrowed copies while the pin is held, an empty value has     *)
(* none, a failure leaves no buffer (lib.rs:326-356, regolith.go:630-654).  *)
NeverMisused == misuse = {}

(* What a caller must be told of a failure, by what happened: the sentinel  *)
(* errors of errors.go:12-48 by their own comments.                         *)
Documented(c) ==
  CASE c = "ok"                   -> {"nil"}
    [] c = "not found"            -> {"ErrNotFound"}
    [] c = "Closed"               -> {"ErrClosed"}
    [] c \in {"Conflict", "Busy"} -> {"ErrConflict"}
    [] c = "read only"            -> {"ErrReadOnly"}
    [] c = "discarded"            -> {"ErrDiscarded"}
    [] c = "panic"                -> {"ErrPanic"}
    [] c \in {"Io", "OtherError"} -> {"ErrUnexpected"}
    [] OTHER                      -> {"ErrInvalidArgument"}

(* A call answers the sentinel of what really went wrong, although the code *)
(* crosses two independent lists of numbers (lib.rs:61-78, the header's     *)
(* macros) and two switches; and the text that comes with a sentinel is     *)
(* whole, nul bytes aside, or absent where the sentinel says everything.    *)
ErrorIsTheCause ==
  stage = "idle" /\ call # "ignored" =>
    /\ go.err \in Documented(cause)
    /\ go.msg = IF go.err \in {"ErrInvalidArgument", "ErrPanic", "ErrUnexpected"} /\ text \in {"some", "holed"}
                  THEN "some" ELSE ""

(* The range an open iterator walks holds exactly the keys its IterOptions  *)
(* ask for (regolith.go:131-140), after copying to C memory, where empty    *)
(* means absent, and the carry of prefix_end (iter.rs:103-145).             *)
RangeIsDocumented ==
  "iterator" \in heap => \A k \in Strings : InBounds(range, k) <=> Asked(asked, k)

(* A batch of keys arrives with every key where it was framed, or the call  *)
(* panics, and that only when the frame is longer than a C.int counts       *)
(* (regolith.go:613): no key is silently mislocated by int32 offsets        *)
(* (iter.go:125-130).                                                       *)
KeysArrive ==
  stage = "idle" /\ call = "batch" /\ cause = "ok" =>
    IF FrameLen(frame) >= IntHalf
      THEN go.panicked
      ELSE /\ ~go.panicked
           /\ Len(go.ents) = Len(frame)
           /\ \A i \in 1..Len(frame) :
                /\ go.ents[i].len = frame[i]
                /\ go.ents[i].off = HeaderLen + IF i = 1 THEN 0 ELSE go.ents[i - 1].off + frame[i - 1]
=============================================================================
