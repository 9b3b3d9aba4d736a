----------------------------- MODULE Lifetimes -----------------------------
(***************************************************************************)
(* Who keeps what alive behind the FFI boundary: a transaction's shared    *)
(* body (TxnInner: an Arc, a lock and an Option), iterators that hold it   *)
(* and rebuild their streams from it, the snapshot pin only the            *)
(* transaction owns, and the blocks whose bytes are lent to Go, by batches *)
(* of an iterator and by the value handle of a point read.                 *)
(*                                                                         *)
(* An iterator is used by one thread at a time, and commit, discard and    *)
(* free do not race with other calls on the transaction's handle: the      *)
(* rules of regolith_ffi.h.  That every iterator be closed before its      *)
(* transaction is resolved is such a rule too, but here it may be broken.  *)
(***************************************************************************)
EXTENDS Integers, FiniteSets

CONSTANTS Iters,   \* iterators
          Blocks   \* engine blocks that values lie in

ASSUME ItersAssumption == IsFiniteSet(Iters)

VARIABLES db,      \* is the store open
          handle,  \* the RegolithTxn box: "live", "consuming" or "freed"
          arcs,    \* strong count of TxnInner
          held,    \* is the Option still Some
          owner,   \* does an OwnedTransaction, and so the snapshot pin, exist
          fates,   \* history: how often the engine committed or rolled back
          it,      \* the iterators
          orphans, \* history: streams that were live when the pin went
          read,    \* a point read: the block it lends, the block it pins
          cached   \* blocks the engine keeps for itself

vars == <<db, handle, arcs, held, owner, fates, it, orphans, read, cached>>
txnVars == <<handle, arcs, held, owner, fates>>

NoIter == [over |-> "none", pc |-> "idle", op |-> "none", reset |-> TRUE, stream |-> FALSE,
           cur |-> {}, batch |-> {}, lent |-> {}]

NoRead == [lent |-> {}, pin |-> {}]

Init ==
  /\ db = TRUE /\ handle = "live" /\ arcs = 1 /\ held = TRUE /\ owner = TRUE /\ fates = 0
  /\ it = [i \in Iters |-> NoIter] /\ orphans = {} /\ read = NoRead /\ cached = {}

Open(i)     == it[i].over \in {"snapshot", "txn"}
Idle(i)     == Open(i) /\ it[i].pc = "idle"
OverTxn(i)  == it[i].over = "txn"
Resident    == cached \cup read.pin \cup UNION {it[i].cur \cup it[i].batch : i \in Iters}
Quiet       == \A i \in Iters : it[i].pc # "building"   \* no read lock is held
-----------------------------------------------------------------------------
(* The transaction's handle.                                               *)

(* Mutant: taken without the write lock.                                   *)
TakeUnlocked == held' = FALSE

(* TxnInner::take: under the write lock, so after the readers inside with. *)
Take == Quiet /\ held' = FALSE

(* The owned transaction goes, and its snapshot pin with it.               *)
Settle == /\ owner' = FALSE /\ fates' = fates + 1
          /\ orphans' = {i \in Iters : OverTxn(i) /\ it[i].stream}

(* regolith_txn_discard: rolls back once, and leaves the handle.           *)
TxnDiscard ==
  /\ handle = "live" /\ Take
  /\ IF held THEN Settle ELSE UNCHANGED <<owner, fates, orphans>>
  /\ UNCHANGED <<db, handle, arcs, it, read, cached>>

(* regolith_txn_commit, regolith_txn_free: the box comes back, the         *)
(* transaction is taken out of it.                                         *)
TxnConsume ==
  /\ handle = "live" /\ Take
  /\ handle' = "consuming"
  /\ UNCHANGED <<db, arcs, owner, fates, it, orphans, read, cached>>

(* Mutant: a second resolution reaches the engine.                         *)
TxnConsumedAgain ==
  /\ handle = "consuming" /\ handle' = "freed"
  /\ Settle /\ arcs' = arcs - 1
  /\ UNCHANGED <<db, held, it, read, cached>>

(* Mutant: what was discarded before answers DISCARDED and keeps its box.  *)
TxnConsumedLeaving ==
  /\ handle = "consuming" /\ handle' = "freed"
  /\ IF owner THEN Settle /\ arcs' = arcs - 1 ELSE UNCHANGED <<owner, fates, orphans, arcs>>
  /\ UNCHANGED <<db, held, it, read, cached>>

(* Its commit or rollback, unless it was discarded before (then commit     *)
(* answers DISCARDED); the box drops on every path.                        *)
TxnConsumed ==
  /\ handle = "consuming" /\ handle' = "freed"
  /\ IF owner THEN Settle ELSE UNCHANGED <<owner, fates, orphans>>
  /\ arcs' = arcs - 1
  /\ UNCHANGED <<db, held, it, read, cached>>

(* regolith_db_close: the handle goes; transactions and snapshots keep the *)
(* engine.  A value handle must be released before: DB.Get holds closeLk   *)
(* until it is, Txn.Get does not.                                          *)
DbClose ==
  /\ db /\ db' = FALSE
  /\ UNCHANGED <<txnVars, it, orphans, read, cached>>
-----------------------------------------------------------------------------
(* Point reads: out_borrowed boxes the slice, copyBorrowed releases it.    *)

(* Mutant: the bytes are lent without the handle that keeps them.          *)
GetUnpinned ==
  /\ read = NoRead /\ (db \/ (handle = "live" /\ held))
  /\ \E b \in Blocks : read' = [lent |-> {b}, pin |-> {}] /\ cached' = cached \cup {b}
  /\ UNCHANGED <<db, txnVars, it, orphans>>

(* regolith_txn_get_borrowed, regolith_db_get_borrowed                     *)
Get ==
  /\ read = NoRead /\ (db \/ (handle = "live" /\ held))
  /\ \E b \in Blocks : read' = [lent |-> {b}, pin |-> {b}] /\ cached' = cached \cup {b}
  /\ UNCHANGED <<db, txnVars, it, orphans>>

(* The copy is made, then the deferred release runs.                       *)
CopyEnd ==
  /\ read.lent # {} /\ read' = [read EXCEPT !.lent = {}]
  /\ UNCHANGED <<db, txnVars, it, orphans, cached>>

ReleaseValue ==
  /\ read.lent = {} /\ read.pin # {} /\ read' = NoRead
  /\ UNCHANGED <<db, txnVars, it, orphans, cached>>

(* The block cache evicts, a flush or a compaction drops what nobody pins. *)
Evict ==
  /\ \E b \in cached : cached' = cached \ {b}
  /\ UNCHANGED <<db, txnVars, it, orphans, read>>
-----------------------------------------------------------------------------
(* Iterators.                                                              *)

(* Mutant: the iterator holds the body without counting itself.            *)
OverTxnUncounted(i) ==
  /\ it[i].over = "none" /\ handle = "live" /\ held
  /\ it' = [it EXCEPT ![i].over = "txn"]
  /\ UNCHANGED <<db, txnVars, orphans, read, cached>>

(* over_txn, refused for a resolved transaction                            *)
OpenOverTxn(i) ==
  /\ it[i].over = "none" /\ handle = "live" /\ held
  /\ it' = [it EXCEPT ![i].over = "txn"]
  /\ arcs' = arcs + 1
  /\ UNCHANGED <<db, handle, held, owner, fates, orphans, read, cached>>

(* over_snapshot: the iterator owns its snapshot and a cursor over it.     *)
OpenOverSnapshot(i) ==
  /\ it[i].over = "none" /\ db
  /\ it' = [it EXCEPT ![i].over = "snapshot", ![i].stream = TRUE]
  /\ UNCHANGED <<db, txnVars, orphans, read, cached>>

IterOnly(i) == /\ UNCHANGED <<db, txnVars, read, cached>>
               /\ orphans' = IF it'[i].stream THEN orphans ELSE orphans \ {i}

(* regolith_iter_reset: a flag, and the batch goes.                        *)
Reset(i) ==
  /\ Idle(i)
  /\ it' = [it EXCEPT ![i].reset = TRUE, ![i].batch = {}]
  /\ IterOnly(i)

(* regolith_iter_next_batch and regolith_iter_seek drop the batch before.  *)
(* A restart and a seek over a transaction first drop the stream (rebuild).*)
Enter(i, op) ==
  /\ Idle(i)
  /\ LET rebuild == OverTxn(i) /\ (op = "seek" \/ it[i].reset) IN
     it' = [it EXCEPT ![i].op = op, ![i].batch = {}, ![i].reset = FALSE,
                      ![i].pc = IF rebuild THEN "rebuild" ELSE "pull",
                      ![i].stream = ~rebuild /\ @,
                      ![i].cur = IF rebuild THEN {} ELSE @]
  /\ IterOnly(i)

(* TxnInner::with: under the read lock; DISCARDED if the Option is empty,  *)
(* and the iterator stays without a stream.                                *)
With(i) ==
  /\ it[i].pc = "rebuild"
  /\ it' = [it EXCEPT ![i].pc = IF held THEN "building" ELSE "idle"]
  /\ IterOnly(i)

Build(i) ==
  /\ it[i].pc = "building"
  /\ it' = [it EXCEPT ![i].pc = "pull", ![i].stream = TRUE]
  /\ IterOnly(i)

(* Mutant: the entry before is held on to.                                 *)
PullHoarding(i) ==
  /\ it[i].pc = "pull" /\ it[i].stream
  /\ \E b \in Blocks :
       /\ cached' = cached \cup {b}
       /\ it' = [it EXCEPT ![i].cur = @ \cup {b}, ![i].pc = "idle"]
  /\ UNCHANGED <<db, txnVars, orphans, read>>

(* pull, or a step of the cursor: the entry it stands on holds its value,  *)
(* a batch retains a clone.                                                *)
Pull(i) ==
  /\ it[i].pc = "pull" /\ it[i].stream
  /\ \E b \in Blocks :
       /\ cached' = cached \cup {b}
       /\ it' = [it EXCEPT ![i].cur = {b}, ![i].batch = IF it[i].op = "batch" THEN @ \cup {b} ELSE @,
                           ![i].pc = IF it[i].op = "batch" THEN "pull" ELSE "idle"]
  /\ UNCHANGED <<db, txnVars, orphans, read>>

(* The batch is full, the range exhausted or a read failed, at once for an *)
(* iterator without a stream.                                              *)
Leave(i) ==
  /\ it[i].pc = "pull"
  /\ \E cur \in {it[i].cur, {}} : it' = [it EXCEPT ![i].pc = "idle", ![i].cur = cur]
  /\ IterOnly(i)

(* Iter.Value, AppendValue, BorrowValue: a value of the batch is lent...    *)
Lend(i) ==
  /\ Idle(i)
  /\ \E b \in it[i].batch : it' = [it EXCEPT ![i].pc = "lent", ![i].lent = {b}]
  /\ IterOnly(i)

(* ...until the copy is made or the callback returns.                      *)
LendEnd(i) ==
  /\ it[i].pc = "lent"
  /\ it' = [it EXCEPT ![i].pc = "idle", ![i].lent = {}]
  /\ IterOnly(i)

(* regolith_iter_close: the box drops what it owns.                        *)
Close(i) ==
  /\ Idle(i)
  /\ it' = [it EXCEPT ![i] = [NoIter EXCEPT !.over = "closed"]]
  /\ arcs' = IF OverTxn(i) THEN arcs - 1 ELSE arcs
  /\ orphans' = orphans \ {i}
  /\ UNCHANGED <<db, handle, held, owner, fates, read, cached>>

Next ==
  \/ TxnDiscard \/ TxnConsume \/ TxnConsumed \/ DbClose
  \/ Get \/ CopyEnd \/ ReleaseValue \/ Evict
  \/ \E i \in Iters :
       \/ OpenOverTxn(i) \/ OpenOverSnapshot(i)
       \/ Reset(i) \/ Enter(i, "batch") \/ Enter(i, "seek")
       \/ With(i) \/ Build(i) \/ Pull(i) \/ Leave(i)
       \/ Lend(i) \/ LendEnd(i) \/ Close(i)

Spec == Init /\ [][Next]_vars
-----------------------------------------------------------------------------
(* Types: counts, places in a call, and no more than one current entry.    *)
TypeOK ==
  /\ db \in BOOLEAN /\ held \in BOOLEAN /\ owner \in BOOLEAN
  /\ handle \in {"live", "consuming", "freed"}
  /\ arcs \in 0..Cardinality(Iters) + 1 /\ fates \in 0..2
  /\ \A i \in Iters :
       /\ it[i].over \in {"none", "snapshot", "txn", "closed"}
       /\ it[i].pc \in {"idle", "rebuild", "building", "pull", "lent"}
       /\ it[i].cur \cup it[i].batch \cup it[i].lent \subseteq Blocks
       /\ Cardinality(it[i].cur) <= 1
  /\ read \in [lent : SUBSET Blocks, pin : SUBSET Blocks]
  /\ cached \subseteq Blocks /\ orphans \subseteq Iters

(* Bytes that Go is reading lie in memory somebody still owns: whatever is  *)
(* evicted, resolved or closed by others while a value is copied or its     *)
(* callback runs (regolith.go:641-654, iter.go:288-346, iter.rs:743-749).   *)
LentBytesResident ==
  /\ read.lent \subseteq Resident
  /\ \A i \in Iters : it[i].lent \subseteq Resident

(* The shared body outlives the box that commit and free consume, for as   *)
(* long as an iterator may go back to it to rebuild (txn.rs:22-28), also   *)
(* when the iterator outlives the transaction against the rules.           *)
InnerAlive == arcs = Cardinality({i \in Iters : OverTxn(i)}) + IF handle = "freed" THEN 0 ELSE 1

(* A stream reads under the snapshot pin of its transaction, except one    *)
(* that was live when the transaction was resolved against the rules; a     *)
(* Seek or restart after that builds no new one (iter.rs:389-410).         *)
StreamsPinned == \A i \in Iters : OverTxn(i) /\ it[i].stream => owner \/ i \in orphans

(* When iterators and handles are gone, in whatever order, so is all they   *)
(* owned: blocks, the shared body and the transaction in it.               *)
NothingLeft ==
  (\A i \in Iters : ~Open(i)) /\ handle = "freed" /\ read = NoRead =>
    Resident = cached /\ arcs = 0 /\ ~held /\ ~owner /\ fates = 1

(* However often a transaction is discarded, committed and freed, the      *)
(* engine commits or rolls it back once (txn.rs:243-311).                  *)
FateOnce == fates = IF owner THEN 0 ELSE 1
=============================================================================
