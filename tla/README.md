# A TLA+ development of go-regolith

go-regolith is a Go binding of the regolith key-value engine: a Go package
(`*.go`) over a Rust static library (`ffi/`) that wraps the engine in a C
interface. The engine itself is a crate outside the repository; here it is
*external*, and modelled only as far as the binding relies on it.

What the binding adds, and what can go wrong in it, is not storage. It is
pointers that must not outlive what they point at, two halves of an iterator on
two sides of a boundary, a byte format written in one language and read in
another, and promises (closed, resolved, exhausted, too large) that must hold
whoever calls what and when. That is what these modules are about.

## Inventory

| Component | State it keeps | Operations | Hard behaviour |
|---|---|---|---|
| `DB` (`regolith.go:116-377`) | the `RegolithDb` box, `closed` (atomic), `closeLk` (RWMutex) | Open, Get, Has, Set, Delete, Write, DropAll, NewIter, NewTxn, Close | any goroutine calls anything at any time; Close frees the box |
| `Txn` (`regolith.go:395-574`) | the `RegolithTxn` box, `resolved`, `lk` | reads, writes, NewIter, Commit, Discard | Commit and Discard race, both free the box; the store is closed in between |
| `Iter` (`iter.go`) | batch of keys (`buf`, `ents`), `pos`, `done`, `closed` | Next, Seek, Reset, Key, Value, BorrowValue, AppendValue, Close | runs a batch behind the engine's cursor; read failures; writes in the transaction below |
| `RegolithIter` (`ffi/src/iter.rs`) | bounds, cursor or scan stream, `reset`, `include_current`, `batch_values`, `batch_count`, `pending` | next, next_batch, batch_value, key, value, seek, reset, close | two walking styles share a cursor; a failure held back; both directions, exclusive bounds |
| `WriteBatch` (`batch.go`) | packed bytes, op count | Set, Delete, Reset, Len, Size | format shared with Rust |
| batch decoder (`ffi/src/batch.rs`) | offset, record length | decode | malformed frames; a size limit it may skip checking |
| store and transaction entry points (`ffi/src/db.rs`, `ffi/src/txn.rs`) | `Arc` of the engine; `TxnInner` = `RwLock<Option<OwnedTransaction>>` shared with iterators | one function per operation | consumed handles, iterators outliving a resolution |
| boundary (`ffi/src/lib.rs`, `errors.go`) | error objects, lent values, owned buffers | guard, release_value, free_buf, error_free, statusToErr | ownership on every error path |
| options (`options.go`, `ffi/src/options.rs`) | `is_set` bits, values | toC, options_from | zero value against unset |
| isolation (engine, relied on by `options.go:125-144` and the tests) | snapshots, read and write sets | begin, commit | lost updates, write skew, what a prefetching scan validates |

How they interact: every Go call takes a lock, tests a flag, and crosses into
the FFI layer with a raw pointer; the FFI layer calls the engine and hands back
a status with, possibly, an error object, a buffer the caller owns, or bytes
lent under a handle. An iterator over a transaction keeps an `Arc` of the
transaction and calls back into it at every Seek and Reset. There are no
callbacks from Rust into Go.

Correctness, per component: no handle is used after, freed during, or freed
twice by any interleaving, none is leaked, and answers after a close or a
resolution are the documented ones (DB, Txn); an iterator is a cursor over one
view of the data, in order, without gap or repeat, and reports its failures
(Iter, RegolithIter); a batch reaches the engine as it was packed, all or
nothing, and never as a record that replay would drop (WriteBatch, decoder);
options arrive as set (options); each lent or owned object is released once
(boundary); the isolation levels admit the documented anomalies only.

## Modules

| Module | Models |
|---|---|
| `RWMutex` | Go's `sync.RWMutex` as a value (external): announced writer, queued readers |
| `Handles` | `DB` and `Txn`: locks, flags and native boxes under concurrent calls |
| `KeyRange` | keys, views and an iterator's bounds |
| `Cursor` | abstract: what an iterator promises its caller |
| `RegolithIter` | the FFI iterator handle and its operations, as operators from a handle to a handle and an answer |
| `Iter` | the Go iterator over `RegolithIter`; implements `Cursor` |
| `FfiIter` | a C caller that mixes the handle's operations |
| `BatchDecode` | `WriteBatch`, the frame format byte by byte, the two-pass decoder; implements `AtomicWrite` |
| `AtomicWrite` | abstract: what a batch and `DB.Write` promise a Go caller |
| `KeyPrefix` | byte-string keys, `newIterOptions`, `bounds_from`, `prefix_end` |
| `Boundary` | one call across the boundary: C memory, out-params, statuses, error details, decoded keys |
| `StoreOptions` | `Options.toC` and `options_from` with their tables of bits and values |
| `TxnStore` | a store opened with options, transactions at its level, commits and conflicts |
| `Lifetimes` | what keeps a transaction's body, its streams and lent bytes alive |
| `HandlesProofs`, `RegolithIterProofs`, `IterProofs`, `FfiIterProofs`, `BatchProofs`, `BoundaryProofs`, `TxnStoreProofs`, `LifetimesProofs` | theorems |
| `MC...` | instances for TLC |

`RegolithIter` is used twice: `Iter` composes it with the Go side, `FfiIter`
drives it directly, as the header allows a C program to. `Boundary` extends
`KeyPrefix` and `TxnStore` extends `StoreOptions`, because what a NewIter and an
Open carry across is exactly what these two describe.

The same code appears in several modules, cut along different seams. A commit is a
freed box in `Handles`, a validated write set in `TxnStore`, an emptied `Option`
in `Lifetimes`. What each leaves out is what another is about: `TxnStore` and
`Lifetimes` take resolutions as atomic with respect to other calls on the handle
because `Handles` shows that the Go half keeps them apart; `Handles` takes an FFI
call as one interval because `Boundary` follows a single call through.

### Handles

A goroutine goes through `idle -> enter -> (queued | drain) -> check -> [ffi] ->
leave -> idle`. `check` is the code between taking the lock and crossing;
`ffi` is the whole time between the crossing and its return, during which any
other goroutine may move, so "in ffi with a freed pointer" is exactly a use after
free. What the crossing reads or writes in the store is abstracted to its answer.
`lock` holds every RWMutex; a call locks `closeLk` or the transaction's `lk`
(`LockOf`). The order of the tests is the code's, which differs between `begin`
(closed, then resolved) and `Commit` (resolved, then closed), and `begin` reads
`closed` without `closeLk`, as an atomic. History variables: `closeReturned`
(a Close has returned), `late` (this call began after that) and `fate` (what the
engine did with a transaction).

Clients are unconstrained. The documentation asks for transactions to be
resolved before `Close`; the model lets them be open, and the properties hold
anyway, because `Txn` calls do not use the store's box.

### Iter, RegolithIter, FfiIter

Keys are numbers: an iterator only compares them, and "target with a zero byte
appended" (`iter.rs:347-349`) is the next number. Values are their lengths, which is
what the byte cap needs. `live` is what the transaction holds; the handle's
`view` is what its source was built from. The two engine sources are external: a
cursor over all keys of the store (`AtOrAbove`, `AtOrBelow`) and a stream over a
range that only yields (`Pull`). Any move of either may fail to read and leave
it without a current entry. A failing source may fail again or answer "end":
both are allowed.

The flags (`reset`, `include`, `pending`), the counters and every early return
are the code's. `BatchWalk` is the loop of `next_batch`; its `failAt`-th advance
fails. `Iter` adds `ents`, `pos` and `done`, and the actions Next (split into its
three cases), Seek, Reset, a write in the transaction and a close of the store.

`Iter` implements `Cursor`: the current key while positioned, "at the end" when
`done`, "at the start" when a reset is pending, otherwise broken off by a
failure. One `Next` of `Iter`, batch or no batch, is one step of `Cursor`.

### BatchDecode

Works on bytes: `Base` digits, length fields of `LenBytes` little-endian digits,
tags 1 and 2. Each op walked is one step. The record length is what
`RecordLen` charges; while building, where the code counts nothing, `rec` is the
length the engine's record will have. All widths, overheads and the limit are
constants, and the code's `(MAX - 4) * 3 / 7` is the general
`(MaxRecord - CountLen) * DeleteFrame \div DeleteOverhead` at `9` and `21`.

`BatchDecode` implements `AtomicWrite`, a list of ops with the length of its log record.
Between the call and the answer the list is "writing" while the decoder walks, and "handed"
once the engine has a batch; the record's length is what `WriteBatch.Size` documents
(`Documented`, from the bytes packed so far), which the list adds up op by op (`Charge`).
Writes from C happen elsewhere. `Db::write` is external: it refuses a batch with a key
longer than `MaxKeyLen` or a value longer than `MaxValueLen`, as a whole and as
`INVALID_ARG` (`db.rs:245-247`, `batch_test.go:401-422`), and may also fail for reasons
of its own (`EngineAnswers`). A Go caller thus sees `ErrInvalidArgument` for two
reasons: the record is too long, and the batch never gets past the decoder, or a key or
value is, and the engine refuses the batch. `LimitIsExact` allows no third reason, and
no written batch that meets one of the two. A batch is used again after a write, an
error or a Reset, as the comment on `DB.Write` allows (`regolith.go:273`).

### Boundary, KeyPrefix

One call at a time goes `idle -> inside -> returned -> decoded -> copied -> idle`: the
Go half prepares its arguments and crosses (`Call`); the FFI function succeeds
(`FfiGet`, `FfiPlain`, `FfiBatch`, `FfiIter`, `FfiClose`) or fails, a caught panic
included (`FfiFail`); `statusToErr` takes and releases the error detail; the
result is copied; the deferred releases run. Calls are grouped by what they hand
over, not by name: a borrowed value, a boolean, nothing, a frame of keys, an
iterator. `ignored` stands for Reset and Discard, which pass no error slot.

`heap` is the set of objects on the C and Rust heaps that the call must have
released by its end, and `misuse` records each read or release of an object that is
not there. `cause`, `text` and `frame` are histories of what happened inside, against
which the answer is judged: the properties compare the two ends of two
hand-kept lists (`RustCode`/`StatusOf` on one side, `HeaderCode`/`SentinelOf` on
the other) with what the comments of the sentinel errors promise.

Failure texts are four cases: with text, with nul bytes among text, nul bytes only,
empty; that is all `into_raw` and a C string tell apart. Lengths of keys matter as
numbers only, to `Index`, the offsets that `refill` keeps in an `int32`.
`C.GoBytes` panics on a negative length; that panic goes to the caller after the
deferred releases.

`KeyPrefix` has keys as sequences of bytes over any `Base`. `Less` is the
lexicographic order, `PrefixEnd` the carry of `prefix_end`, `BoundsFrom` the precedence
of the prefix over start and end.

### StoreOptions, TxnStore

`StoreOptions` keeps the three tables apart that the code keeps by hand (Go
constants, header macros, Rust constants). An optional value is a set of at most one
element. A Go enumeration has its zero for "default" and its other values shifted by
one against the header's.

`TxnStore` opens a store with any options at all, then runs transactions at the
level that arrived. A key's value is the number of the commit that wrote it
(`latest`), so a transaction's snapshot is a function (`view`) and what it read is
determined. `log` lists commits in order with their reads and writes. The engine's
validation is external: what is compared at commit (`Validated`) is what
`options.go:111-144` says of each level. A batch of an iterator walks keys its
caller may never look at (`TxnWalk`), and all of them are validated: the prefetch
enlarges the read set, which can only add conflicts. Phantoms are outside:
`options.go:129-131` excludes them from what serializable detects, so every key
exists from the start.

### Lifetimes

`TxnInner` is an `Arc` (`arcs`), a lock (`Quiet`: no reader inside `with`) and an
`Option` (`held`). `owner` is the `OwnedTransaction` wherever it is at the moment,
and with it the snapshot pin: `take` moves it out of the `Option`, the commit or
rollback that follows ends it. Rebuilding a stream is three steps (the old stream
goes in `Enter`, the `Option` is tested in `With`, the new stream is stored in
`Build`), so a resolution can try to get in between. Values lie in engine blocks; a
block's bytes are there while the engine, a value handle, the current entry of an
iterator or a retained batch holds it (`Resident`), and `Evict` may take away the
engine's hold at any time, also while Go copies the bytes or runs a callback over
them (`lent`).

Of the rules in `regolith_ffi.h` the model keeps two: one thread per iterator, and
no resolution racing other calls on the handle. The third, that iterators are
closed before their transaction is resolved, may be broken here, because
`txn.rs:22-28` and `iter.rs:399-405` say what holds then. A stream that was live at
that moment loses its pin; the history `orphans` remembers it, and `StreamsPinned`
excepts it and nothing else. A callback of BorrowValue that moves its own iterator
is excluded, as `iter.go` tells callers.

### Mutants

Each module carries operators marked "Mutant": plausible mistakes in the
definition they stand beside, with which the named property fails in the named
run (`PROJECT.json`, "mutants"). They are not part of any specification.

## Runs

| Run | Instance | Shows |
|---|---|---|
| `handles` | 3 goroutines, 2 transactions | no use after free, exclusive frees, Close returns only once the handle is released (the losing Close too), nothing succeeds after a Close, one Commit is told "ok" and truthfully, no leak, a transaction's fate is final |
| `handles_live` | 2 goroutines, 1 transaction | every call returns |
| `handles_commit` | 3 goroutines, 1 transaction | *violated*: "the handle is released by the commit itself ... on failure alike" (`regolith.go:533-534`) |
| `iter` | keys 0..3 over a snapshot, 0..2 over a transaction written to during the walk; batches of 2 | the two halves agree on the batch, bytes pinned are bounded, held-back failures are reported, `Iter` implements `Cursor` |
| `iter_empty_batch` | as `iter` | *violated*: "only an empty batch means the range is exhausted" (`iter.go:114`) |
| `ffi_iter` | keys 0..3 over a snapshot, 0..2 over a transaction | steps and batches mixed freely continue one walk, an end without error is an end, a batch's values stay addressable |
| `ffi_iter_held_error` | as `ffi_iter` | *violated*: the held-back error "is returned from the next call" (`regolith_ffi.h:525-527`) |
| `ffi_iter_captured` | as `ffi_iter` | *violated*: writes are "captured when the iterator is created" (`txn.rs:203-204`) |
| `batch` | 3 ops of payloads of 0 to 2 bytes; all frames of up to 8 bytes, base 3 | what Go packs is what the engine gets, the decoder consumes exactly the bytes of what it builds, only batches within the documented limit reach the engine and the answer fits what became of them, no frame yields an oversized record; together the two sides implement `AtomicWrite` |
| `boundary` | base 2, strings of up to 2 bytes; batches of 2 keys; a C int of 16 values | every path releases what it allocated, once; errors name their cause; ranges hold the keys asked for; keys arrive where they were framed |
| `isolation` | all options over three numbers and six enumeration values; 2 keys, 2 transactions, 3 commits, 2 operations each | options arrive as set or refuse the open; conflicted, discarded and read-only transactions leave nothing; no lost update; serializable histories at the two strongest levels |
| `lifetimes` | 2 iterators, 2 blocks, 1 transaction, 1 point read | lent bytes stay, no stream is built on a resolved transaction, the body outlives its box, a transaction is resolved once, nothing is left |

**Bounds.** Three goroutines let a freeing call, a competing freeing call and a
reader overlap; two transactions separate their locks from each other and from
`closeLk`. Batches of two entries over up to four keys give a full batch, a short
one and an empty one, with a bound strictly inside the key space on either side
(`MCStarts`, `MCEnds`); values of one and two bytes against a cap of two make a
batch end by count and by bytes. In `batch`, frames of more than six bytes are
sized and a record holds 14 bytes, so accepted, exactly full and refused batches
all occur on both sides of the sizing threshold; `MaxKeyLen` and `MaxValueLen` are 1, so
the payload of two bytes is one the engine refuses, in a record of any length. Whether an iterator walks a
snapshot or a transaction is chosen in `Bounds`, so both are in one run; over a
transaction the key space is smaller (`TxnMaxKey`) because its contents change.

In `boundary`, two bytes and strings of up to two of them contain every shape of a
prefix (empty, all top bytes, a carry, no carry). `IntHalf` is 8: of two keys
of at most 3 bytes with a header of one, only the longest frame, 8 bytes, does not
fit a C int. That is the real proportion: 256 keys of the engine's default limit of
8 MiB (`abi_tests.rs:397`) with 4 bytes of length each frame to 2^31 + 1024 bytes, just
above the largest C int. In `isolation`, two keys and two transactions make a write
skew; direct writes make a third party, which a lost update and a three-commit cycle
need; `MaxLog` and `MaxOps` bound the commits and a transaction's operations,
numbers above `MaxUsize` and enumeration values past the last name make options
that must be refused. In `lifetimes`, a second iterator shows that one's close or rebuild
leaves the other's body and bytes alone, a second block that bytes are not kept by
accident of being read again.

Bounds that are not a size of the input are `MaxOps` of `BatchDecode` and `MaxOps` and
`MaxLog` of `TxnStore`. The runs `isolation` and `lifetimes` allow a state without
successors: everything is resolved and closed, or the bounds are reached.

**Fairness** (`handles_live` only). Weak fairness of every goroutine's step: the
Go scheduler runs what can run, and FFI calls return. Strong fairness of taking
the announced-writer slot: `sync.RWMutex.Lock` goes through a `sync.Mutex`, whose
starvation mode serves each waiter. Nothing forces a goroutine to make a call.

**Symmetry** is used in `handles` (goroutines, transactions), `isolation` (keys,
transactions) and `lifetimes` (iterators, blocks). None of the three checks liveness.

## Proofs

`HandlesProofs` proves every safety property of the run `handles`, for any
sets of goroutines and transactions:

- `TypeCorrect`, `HandlesAreSafe` (no use after free), `FreeingIsExclusive`,
  `CloseReleases` (a returned Close has released the handle), `CloseIsFinal` (later
  calls fail), `CommitOkIsTrue`, `ResolvingReleases` (no leak), `FatesAreFinal`.

Assumptions: `NoThread` is no goroutine; `NoTxn` and `CloseLk` are no
transaction.

The argument is one inductive invariant, `IInv`. No property is inductive alone:
that no call uses a freed box needs that calls in the FFI layer hold the lock
(`LockInv`: readers registered, writers alone once drained), that the box is live
while `closed` or `resolved` is unset (`StoreInv`, `TxnInv`), and that a call in
the FFI layer saw it unset and nobody can have set it since, because setting it
takes the lock exclusively. `StoreInv` keeps the window in which `closed` is set
and the box is still there tied to the one Close that is in it. `LateInv` and
`AnswerInv` do the same for what calls answer. The proof that a step keeps the
invariant has one lemma per conjunct (`TypeStep`, `LockStep`, ...), one step per
action in each; `InsideMoves` states once what all steps under a lock leave alone.

`RegolithIterProofs` says what the operations of the FFI handle do to it, for every store,
bounds, batch size and failure: where `iter_next`, `iter_next_batch` and `iter_seek` land, that
what a batch hands out is the run of live entries from the mark on (`BatchIs`), and that a
handle broken by a read failure stays so until a seek (`BrokenStays`). `BatchWalk` is a loop,
and the prover has no induction over data. What replaces it: the library's least-element
theorem (`WFMin`) takes the set itself, so "a set that holds 0 and the successor of each of its
numbers holds every number" (`Induction`) can be proved and then used with a set defined by
comprehension. `Iteration` follows from it: n turns of a loop are a function on 0..n, which is
what the LET functions of the model are unfolded to.

`IterProofs` proves every property of the run `iter`, the refinement included, from these
lemmas: `IterTypeCorrect`, `HalvesAgree` (`BatchAgrees`), `PinnedStaysBounded`,
`HeldErrorIsReported` (an action property) and `IteratorIsCursor`, that `Iter` implements
`Cursor`. The invariant `IterInv` ties the Go side to the handle: the batch holds consecutive
keys of the range (`Consecutive`), the handle stands right beyond the last of them unless a
failure is held back (`StandsBeyond`), and without a batch nothing is left of a walk that has
begun (`NothingLeft`). The refinement maps every
step to a step of the abstract cursor or to a stutter, one lemma per action.

`FfiIterProofs` proves the same for a C caller that mixes the operations, in any order:
`FfiIterTypeCorrect`, `BatchStaysAddressable`, `MixedWalkContinues` and `EndsAreExhausted`. Its
invariant `FInv` says that the count and the retained batch belong together, and that the
caller's mark, the last key any operation returned, is where the handle would continue
(`OnMark`) unless it is past the end (`PastEnd`); a walk without gaps is then a walk over the
whole range (`GaplessIsWalk`).

`BatchProofs` proves every property of the run `batch`, for every width, overhead and
limit. From `WidthAssumption` (a payload's length fits its length field, as a Go length fits
64 bits), `PowerAssumption` (what a power is: the provers leave `^` uninterpreted) and
`OverheadAssumption` (a delete is the op whose record outgrows its frame the most:
25 * 9 <= 21 * 17 in the code):

- `RecordsFit` is `NeverOversized` for every frame, the claim the comment on
  `MAX_FRAME_WITHOUT_SIZING` argues for in prose. It is not inductive: the building
  pass counts nothing, so what bounds the record has to be carried there. For frames
  exempt from sizing, `GrowthInv`: the record has grown by at most `DeleteOverhead` for every
  `DeleteFrame` bytes walked. For sized frames the history `sized` holds every offset and
  length the first pass went through, and the second pass is always at one of them
  (`SizedInv`, `RetracedInv`); `OpSpan` says that an op ends inside its frame and that its
  record is within the rate.
- `BuiltFromBytes`: the batch built from any frame, packed again, is the bytes walked so
  far (`OpCopied`: the op read at an offset, packed, is the bytes up to its end).
- `RoundTrip`: what reaches the engine from a Go batch is what its caller added. The
  digits of a length field decide the length (`DigitsDecide`), so the decoder reads at the end
  of the first k ops the op that was added there (`NextRead`); `GoInv` says that this is
  where it always is. `Concat` and `Count` are unfolded with `Iteration`, as above.
- `SizeIsTheLimit`: the number `WriteBatch.Size` documents grows with each op by what the
  decoder charges for it (`RecordAppend`), so the decoder refuses a batch (`RefusedForSize`)
  exactly when that number exceeds the limit. What gets past it is the caller's list
  (`HandedOver`, by `RoundTrip`), so if the engine answers that something is too long, the
  caller added it; the invariant `AnswerInv` keeps the reason with the answer. The half for
  frames that are not sized needs `RecordsFit`.
- `WriteIsAtomic`: `BatchDecode` implements `AtomicWrite`, one lemma per action
  (`AddRefines`, `ResetRefines`, `WriteRefines`, ...). An op adds its charge to the record by
  `RecordAppend`; a refusal, wherever in the two passes, is the list's by
  `RefusedForSize` and a hand-over by `SizeIsTheLimit`, and what is handed over, the part the
  engine finds too long included, is the list by `RoundTrip`.

`BoundaryProofs` covers `KeyPrefix` and `Boundary`. Of keys, for every base and strings
of any length: the range from a prefix to its `prefix_end` holds exactly the keys that begin
with it (`PrefixRangeExact`), trailing top bytes or not, and no key lies between a target and
the target with a zero byte appended (`ZeroByteIsNext`): the fact a reverse seek over a
transaction uses, and the reason why "the next number" stands for it in `RegolithIter`. Of
a call, from `BoundaryAssumption` on the constants: nothing leaks (`NothingLeaks`), nothing is
read or released after its release (`NothingMisused`) and ranges are exact (`RangeIsExact`).
The invariant `BInv` says what `heap` holds at each stage: the options of a NewIter until the
deferred free, an error detail until `statusToErr`, a pin or buffer as long as its out-param
has bytes behind it. Neither leak nor misuse can be proved without the other half: a release
is safe because the object is there, and nothing is left because nothing else was. A second
invariant, `AInv`, follows what a call answers: `CausesAreTold` (the error a caller sees is the
one that happened) and `KeysAreLocated` (the decoded keys are those of the frame, unless the
frame does not fit a C int, and then it is refused), with the types (`BoundaryTypeCorrect`).

`TxnStoreProofs` proves every property of the run `isolation`, for any keys, transactions
and options: `StoreTypeCorrect`, `OptionsReachTheEngine` (`SettingsArrive`: what `toC` packs,
`options_from` unpacks), `OnlyCommitsWrite`, `UpdatesAreNotLost` and `HistoryIsSerializable`.
The last asks, of a store opened for serializable transactions or repeatable read, for an
order of the log that explains every read in it. The proof gives one (`SerialOrder`): a writer
at its commit, a reader at its snapshot, by commit count and then by place in the log.
`StoreInv` says why it works: every view is the store as of some number of commits
(`ViewsArePast`), and no key a writer read was written between its snapshot and its commit
(`WritersReadTheLast`). The second is what the engine's validation gives; that the validation
runs at the level the store was opened with is this repository's part of it (`AtStoreLevel`).

`LifetimesProofs` proves every property of `Lifetimes` for any blocks and any finite
set of iterators (`ItersAssumption`, for the strong count to be a number): `LentBytesStay`,
`BodyOutlivesBox`, `StreamsArePinned`, `ResolvedOnce`, `NothingIsLeft`, `LifetimesTypeCorrect`.
The invariant `LInv` adds to the properties that lent bytes are in the batch or under
the handle that keeps them (`LentInv`), that the `Option` is emptied before its owner goes and
that a reader that found it full still has it full (`OwnerInv`: the writer waits for the
readers, which is why a stream is never built on a resolved transaction), and that an
iterator not open owns nothing (`ClosedInv`). What each action makes of an iterator's fields
is stated once, in a lemma per action; the count of `BodyOutlivesBox` is carried by `ArcStep`
with the cardinality of the set of holders.

**Model-checked only.** `CallsReturn`, the liveness of `handles_live`: leads-to under
fairness, and the ENABLED in it, are out of the prover's reach. Every other property of a
passing run is also a theorem. The runs that expect a violation are counterexamples and
have nothing to prove.

## Findings

All are places where a comment and the code disagree; `PROJECT.json` quotes them.

1. `Txn.Commit` on a closed store returns before crossing and keeps the handle.
   A deferred `Discard` still frees it (`NoLeak`).
2. After a read failure, an empty batch (and `Next` answering false without an
   error) does not mean the range is exhausted: the broken cursor answers "end".
3. `regolith_iter_next` ignores a failure held back by a batch.
4. A transaction iterator samples the write set at its first advance, not at its
   creation. `regolith.go:503` and `regolith_ffi.h:433` say so; `txn.rs:203` does not.

## Not modelled, and the plan

- What DropAll does to open transactions and snapshots: the call takes the locks and
  flags of `Handles` and the statuses of `Boundary`; the rest happens in the engine,
  and neither the binding nor its tests say what a snapshot sees afterwards.
- Keys inserted into a scanned range (above), and how the engine finds conflicts.
- Poisoning of `TxnInner`'s lock (`txn.rs:46-50`, `58-62`): only a panic under the write
  lock poisons an `RwLock`, and `take` holds it around a single `Option::take`, so
  these two branches cannot be reached.
- Null handles and out-params: the Go half never passes one. A C program is told
  INVALID_ARG, one failure among others in `Boundary`.
- A BorrowValue callback that uses its own iterator, and one iterator on two threads:
  ruled out by their documentation, undefined in the code.

What could come next is `TxnStore` as a refinement of a store whose transactions take
effect at once, for the serializable level: the order that `HistoryIsSerializable` constructs
would be its witness, but a read-only transaction takes effect at its snapshot, in the past
of its commit, so the abstract store needs to keep its versions.

That `Lifetimes` presumes no resolution racing another call on the handle needs no
composition: for Go callers it is `FreeIsExclusive` of `Handles`, proved for any number of
them. Calls on an *iterator* do race with it, as `Iter` takes no lock of its
transaction; those interleavings are in `Lifetimes`.

Left out for good: the engine's storage (another repository), benchmarks, the
build and release scripts, the wording of error messages.
