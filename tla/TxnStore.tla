------------------------------ MODULE TxnStore ------------------------------
(***************************************************************************)
(* Transactions over one store: opened with options that fix an isolation  *)
(* level, begun at that level (regolith_db_txn), read, scanned, written,   *)
(* committed and discarded through the FFI entry points, beside writes     *)
(* made outside of any transaction.  Every call is atomic: the engine      *)
(* serialises commits, and the Go half keeps a resolution apart from the   *)
(* other calls on its transaction (module Handles).                        *)
(*                                                                         *)
(* The engine's validation, which is not part of the repository, is what   *)
(* options.go and its tests say of each level.  Every key of Keys exists.  *)
(***************************************************************************)
EXTENDS StoreOptions, FiniteSets

CONSTANTS Keys, Txns,
          MaxLog,   \* bound: commits, direct writes included
          MaxOps    \* bound: reads, scans and writes of one transaction

ASSUME TxnStoreAssumption == MaxLog \in Nat /\ MaxOps \in Nat

VARIABLES store,   \* the handle: "none", "refused" or the level it carries
          opened,  \* history, until the store is used: the options of the open
          txn,     \* the transactions, with what each has read and buffered
          latest,  \* the number of the log entry that last wrote each key
          log      \* history: commits in order, with their reads and writes

vars == <<store, opened, txn, latest, log>>

Levels == {"ReadCommitted", "SnapshotIsolation", "Serializable", "RepeatableRead"}

NoTxn == [state |-> "none", readonly |-> FALSE, level |-> "none", view |-> [k \in Keys |-> 0],
          got |-> {}, walked |-> {}, buf |-> {}, ops |-> 0]

Init ==
  /\ store = "none" /\ opened = {}
  /\ txn = [t \in Txns |-> NoTxn]
  /\ latest = [k \in Keys |-> 0] /\ log = <<>>
-----------------------------------------------------------------------------
(* OpenWith and regolith_db_open_with_options.  A path that is not UTF-8   *)
(* and a store the engine cannot open are refused like bad options.        *)
OpenWith ==
  /\ store = "none"
  /\ \E o \in GoOptions, cannot \in BOOLEAN :
       LET refused  == cannot \/ ~Named(o) \/ Rejected(ToC(o)) \/ ~EngineAccepts(Resolved(ToC(o)))
           settings == Resolved(ToC(o))
           levels   == IF settings["isolation"] = {} THEN {DefaultIsolation} ELSE settings["isolation"]
       IN  IF refused
             THEN /\ store' = "refused"
                  /\ opened' = {[wanted |-> o, settings |-> {}, failed |-> cannot]}
             ELSE /\ store' \in levels
                  /\ opened' = {[wanted |-> o, settings |-> {settings}, failed |-> FALSE]}
  /\ UNCHANGED <<txn, latest, log>>

(* Mutant: transactions begin at the engine's default level.               *)
BeginAtDefault(t, readOnly) ==
  /\ store \in Levels /\ txn[t].state = "none"
  /\ txn' = [txn EXCEPT ![t] = [NoTxn EXCEPT !.state = "active", !.readonly = readOnly,
                                            !.level = DefaultIsolation, !.view = latest]]
  /\ opened' = {}
  /\ UNCHANGED <<store, latest, log>>

(* NewTxn: at the level of the store, reading at the present.              *)
Begin(t, readOnly) ==
  /\ store \in Levels /\ txn[t].state = "none"
  /\ txn' = [txn EXCEPT ![t] = [NoTxn EXCEPT !.state = "active", !.readonly = readOnly,
                                            !.level = store, !.view = latest]]
  /\ opened' = {}
  /\ UNCHANGED <<store, latest, log>>

Active(t) == txn[t].state = "active"
Busy(t)   == Active(t) /\ txn[t].ops < MaxOps
Keep      == UNCHANGED <<store, opened, latest, log>>

(* regolith_txn_get_borrowed and regolith_txn_has: the transaction's own   *)
(* write if it has one, else the key at its snapshot, which it then has    *)
(* read.                                                                   *)
TxnGet(t, k) ==
  /\ Busy(t)
  /\ txn' = [txn EXCEPT ![t].got = @ \cup ({k} \ txn[t].buf), ![t].ops = @ + 1]
  /\ Keep

(* A batch of an iterator over the transaction walks keys ks, whether or   *)
(* not the caller goes on to take them from the batch.                     *)
TxnWalk(t, ks) ==
  /\ Busy(t) /\ ks # {}
  /\ txn' = [txn EXCEPT ![t].walked = @ \cup (ks \ txn[t].buf), ![t].ops = @ + 1]
  /\ Keep

(* Mutant: the flag is not looked at.                                      *)
TxnWriteUnchecked(t, k) ==
  /\ Busy(t)
  /\ txn' = [txn EXCEPT ![t].buf = @ \cup {k}, ![t].ops = @ + 1]
  /\ Keep

(* regolith_txn_set and regolith_txn_delete: refused on a read-only        *)
(* transaction before the engine sees them, else buffered.                 *)
TxnWrite(t, k) ==
  /\ Busy(t)
  /\ txn' = [txn EXCEPT ![t].buf = IF txn[t].readonly THEN @ ELSE @ \cup {k}, ![t].ops = @ + 1]
  /\ Keep

(* DB.Set, DB.Delete and DB.Write: past every transaction, in one step.    *)
DirectWrite(ks) ==
  /\ store \in Levels /\ Len(log) < MaxLog /\ ks # {}
  /\ log' = Append(log, [by |-> "direct", reads |-> {}, view |-> latest, writes |-> ks])
  /\ latest' = [k \in Keys |-> IF k \in ks THEN Len(log) + 1 ELSE latest[k]]
  /\ opened' = {}
  /\ UNCHANGED <<store, txn>>
-----------------------------------------------------------------------------
(* The keys the engine compares with the snapshot when t commits.          *)
Validated(t) ==
  txn[t].buf
  \cup (IF txn[t].level \in {"Serializable", "RepeatableRead"} THEN txn[t].got ELSE {})
  \cup (IF txn[t].level = "Serializable" THEN txn[t].walked ELSE {})

Conflicts(t) == \E k \in Validated(t) : latest[k] # txn[t].view[k]

(* The reads a level answers for.                                          *)
ReadsOf(t) == txn[t].got \cup (IF store = "Serializable" THEN txn[t].walked ELSE {})

(* Taken by the call that resolves it; of a committed one, what it wrote.  *)
Taken(t, fate) == [NoTxn EXCEPT !.state = fate, !.readonly = txn[t].readonly,
                                !.buf = IF fate = "committed" THEN txn[t].buf ELSE {}]

Apply(t) ==
  /\ Len(log) < MaxLog
  /\ log' = Append(log, [by |-> t, reads |-> ReadsOf(t), view |-> txn[t].view, writes |-> txn[t].buf])
  /\ latest' = [k \in Keys |-> IF k \in txn[t].buf THEN Len(log) + 1 ELSE latest[k]]

(* Mutant: a conflict only rolls back what was written over.               *)
CommitPartly(t) ==
  /\ Active(t) /\ Len(log) < MaxLog
  /\ LET ks == {k \in txn[t].buf : latest[k] = txn[t].view[k]} IN
     /\ txn' = [txn EXCEPT ![t] = Taken(t, IF Conflicts(t) THEN "conflict" ELSE "committed")]
     /\ log' = Append(log, [by |-> t, reads |-> ReadsOf(t), view |-> txn[t].view, writes |-> ks])
     /\ latest' = [k \in Keys |-> IF k \in ks THEN Len(log) + 1 ELSE latest[k]]
  /\ UNCHANGED <<store, opened>>

(* Mutant: nothing is validated.                                           *)
CommitBlindly(t) ==
  /\ Active(t) /\ Apply(t)
  /\ txn' = [txn EXCEPT ![t] = Taken(t, "committed")]
  /\ UNCHANGED <<store, opened>>

(* regolith_txn_commit: the transaction is taken whatever becomes of it.   *)
(* One that wrote nothing may be let through without validation.  A lock   *)
(* held by another committer is a conflict as well (Busy).                 *)
Commit(t) ==
  /\ Active(t)
  /\ \/ /\ ~Conflicts(t) \/ txn[t].buf = {}
        /\ Apply(t)
        /\ txn' = [txn EXCEPT ![t] = Taken(t, "committed")]
     \/ /\ Conflicts(t) \/ \E u \in Txns \ {t} : Active(u)
        /\ txn' = [txn EXCEPT ![t] = Taken(t, "conflict")]
        /\ UNCHANGED <<latest, log>>
  /\ UNCHANGED <<store, opened>>

(* regolith_txn_free, regolith_txn_discard: rolled back.                   *)
Discard(t) ==
  /\ Active(t)
  /\ txn' = [txn EXCEPT ![t] = Taken(t, "discarded")]
  /\ Keep

Next ==
  \/ OpenWith
  \/ \E ks \in SUBSET Keys : DirectWrite(ks)
  \/ \E t \in Txns :
       \/ \E readOnly \in BOOLEAN : Begin(t, readOnly)
       \/ \E k \in Keys : TxnGet(t, k) \/ TxnWrite(t, k)
       \/ \E ks \in SUBSET Keys : TxnWalk(t, ks)
       \/ Commit(t) \/ Discard(t)

Spec == Init /\ [][Next]_vars
-----------------------------------------------------------------------------
(* Types: transactions, versions and log entries stay within the bounds,   *)
(* and a read-only transaction buffers nothing.                            *)
TypeOK ==
  /\ store \in Levels \cup {"none", "refused"}
  /\ \A t \in Txns : /\ txn[t].state \in {"none", "active", "committed", "conflict", "discarded"}
                     /\ txn[t].got \subseteq Keys /\ txn[t].walked \subseteq Keys
                     /\ txn[t].buf \subseteq IF txn[t].readonly THEN {} ELSE Keys
                     /\ txn[t].ops \in 0..MaxOps
  /\ latest \in [Keys -> 0..Len(log)]
  /\ Len(log) <= MaxLog

(* Every option asked for arrives in the engine, the zero ones included,   *)
(* and no other; and an invalid one refuses the open, by three tables of   *)
(* bits and values kept in two languages (options.go:169-238,              *)
(* options.rs:50-98, 159-228).                                             *)
SettingsArrive == \A r \in opened :
  r.settings = IF r.failed \/ Invalid(r.wanted) THEN {} ELSE {Wanted(r.wanted)}

(* What is in the store was put there by direct writes and by transactions *)
(* that committed, whole, and were not read-only: a commit that answered   *)
(* ErrConflict, a discard and a read-only transaction leave nothing        *)
(* (txn.rs:152-198, 243-311).                                              *)
OnlyCommittedWrites == \A i \in 1..Len(log) :
  LET e == log[i] IN
  e.by # "direct" /\ e.writes # {} =>
    /\ txn[e.by].state = "committed" /\ ~txn[e.by].readonly
    /\ e.writes = txn[e.by].buf

(* A committed write replaces the version its transaction began on, at     *)
(* every level: what another writer put there in between is not lost       *)
(* (options.go:111-119).                                                   *)
NoLostUpdate == \A j \in 1..Len(log) : \A k \in log[j].writes :
  log[j].by # "direct" =>
    ~ \E i \in log[j].view[k] + 1..j - 1 : k \in log[i].writes

(* Some order of the log explains every read: it saw the last write of its *)
(* key before it, and writers of one key stay in the order they committed. *)
Orders == {p \in [1..Len(log) -> 1..Len(log)] : \A i, j \in 1..Len(log) : p[i] = p[j] => i = j}

Explains(place) ==
  \A i \in 1..Len(log) :
    /\ \A j \in 1..i - 1 : log[i].writes \cap log[j].writes # {} => place[j] < place[i]
    /\ \A k \in log[i].reads :
         \A j \in {w \in 1..Len(log) \ {i} : k \in log[w].writes} :
           place[j] < place[i] <=> j <= log[i].view[k]

(* Of a store opened for serializable transactions, what committed is      *)
(* serializable, read-only transactions included; with repeatable read the *)
(* same holds of what point reads returned (options.go:121-138).  The      *)
(* level comes from the store, through the handle (db.rs:94-95, 337-339).  *)
SerializableHistory ==
  store \in {"Serializable", "RepeatableRead"} => \E place \in Orders : Explains(place)
=============================================================================
