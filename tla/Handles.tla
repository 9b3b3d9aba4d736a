------------------------------ MODULE Handles ------------------------------
(***************************************************************************)
(* Lifetimes of the native handles behind DB and Txn (regolith.go), shared *)
(* by goroutines.  A call takes a lock, checks whether the store is closed *)
(* or the transaction resolved, crosses into the FFI layer with a raw      *)
(* pointer, and leaves.  The crossing is not atomic: a goroutine is "in"   *)
(* it from the check to its return, and a call that consumes a handle      *)
(* (close, commit, free) may free it anywhere in between.                  *)
(*                                                                         *)
(* Clients are unconstrained: any goroutine may make any call at any time, *)
(* on a closed store or a resolved transaction too.                        *)
(***************************************************************************)
EXTENDS RWMutex

CONSTANTS Txns,      \* transactions, each begun at most once
          NoTxn,     \* target of a call on the store itself
          CloseLk    \* DB.closeLk; transaction x's own lk is named x

ASSUME TxnAssumption == NoTxn \notin Txns /\ CloseLk \notin Txns

VARIABLES
  lock,         \* DB.closeLk and every Txn.lk
  closed,       \* DB.closed
  dbHandle,     \* the RegolithDb box: "live" or "freed"
  txnHandle,    \* the RegolithTxn boxes: "none", "live" or "freed"
  resolved,     \* Txn.resolved
  fate,         \* what the engine did with a transaction's writes
  pc, op, tx,   \* each goroutine: where it is, in which call, on which Txn
  res,          \* what its last call returned
  closeReturned,\* history: some Close has returned
  late          \* history: its current call began after a Close had returned

handleVars == <<dbHandle, txnHandle, resolved, fate>>
callVars   == <<op, tx, late>>
vars == <<lock, closed, handleVars, pc, callVars, res, closeReturned>>

Locks     == Txns \cup {CloseLk}
TxnOps    == {"txncall", "commit", "discard"}
WriteOps  == {"close", "commit", "discard"}
ReadOps   == {"call", "newtxn", "txncall"}
Ops       == ReadOps \cup WriteOps
Labels    == {"idle", "enter", "queued", "drain", "check", "ffi", "leave"}
Results   == {"none", "ok", "err", "conflict", "closed", "discarded"}

LockOf(t) == IF op[t] \in TxnOps THEN tx[t] ELSE CloseLk

(* A NewTxn for slot x is under way: nobody else has a pointer to it yet.  *)
Creating(x) == \E t \in Threads : pc[t] # "idle" /\ op[t] = "newtxn" /\ tx[t] = x

Init ==
  /\ lock = [k \in Locks |-> Unlocked]
  /\ closed = FALSE
  /\ dbHandle = "live"
  /\ txnHandle = [x \in Txns |-> "none"]
  /\ resolved = [x \in Txns |-> FALSE]
  /\ fate = [x \in Txns |-> "open"]
  /\ pc = [t \in Threads |-> "idle"]
  /\ op = [t \in Threads |-> "call"]
  /\ tx = [t \in Threads |-> NoTxn]
  /\ res = [t \in Threads |-> "none"]
  /\ closeReturned = FALSE
  /\ late = [t \in Threads |-> FALSE]
-----------------------------------------------------------------------------
(* Starting a call.                                                        *)

Begin(t, o, x) ==
  /\ pc[t] = "idle"
  /\ pc' = [pc EXCEPT ![t] = "enter"]
  /\ op' = [op EXCEPT ![t] = o]
  /\ tx' = [tx EXCEPT ![t] = x]
  /\ res' = [res EXCEPT ![t] = "none"]
  /\ late' = [late EXCEPT ![t] = closeReturned]
  /\ UNCHANGED <<lock, closed, handleVars, closeReturned>>

(* Mutant: a call on a nil Txn goes ahead.                                 *)
CallDbOrNilTxn(t) == \E o \in {"call", "close", "commit"} : Begin(t, o, NoTxn)

(* Get, Has, Set, Delete, Write, DropAll and NewIter ("call"), or Close.   *)
CallDb(t) == \E o \in {"call", "close"} : Begin(t, o, NoTxn)

CallNewTxn(t) == \E x \in Txns :
  txnHandle[x] = "none" /\ ~Creating(x) /\ Begin(t, "newtxn", x)

(* Get, Has, Set, Delete and NewIter of a Txn ("txncall"), Commit, Discard. *)
CallTxn(t) == \E x \in Txns, o \in TxnOps :
  txnHandle[x] # "none" /\ ~Creating(x) /\ Begin(t, o, x)
-----------------------------------------------------------------------------
(* Taking and leaving the lock.                                            *)

Goto(t, label) == pc' = [pc EXCEPT ![t] = label]

EnterRead(t) ==
  /\ pc[t] = "enter" /\ op[t] \in ReadOps
  /\ lock' = [lock EXCEPT ![LockOf(t)] = RLock(@, t)]
  /\ Goto(t, IF CanAnnounce(lock[LockOf(t)]) THEN "check" ELSE "queued")
  /\ UNCHANGED <<closed, handleVars, callVars, res, closeReturned>>

Woken(t) ==
  /\ pc[t] = "queued" /\ t \in lock[LockOf(t)].readers
  /\ Goto(t, "check")
  /\ UNCHANGED <<lock, closed, handleVars, callVars, res, closeReturned>>

(* Mutant: Close answers for a closed store before it takes closeLk.       *)
EnterWriteUnlessClosed(t) ==
  /\ pc[t] = "enter" /\ op[t] \in WriteOps
  /\ LET early == op[t] = "close" /\ closed IN
       /\ early \/ CanAnnounce(lock[LockOf(t)])
       /\ lock' = IF early THEN lock ELSE [lock EXCEPT ![LockOf(t)] = Announce(@, t)]
       /\ Goto(t, IF early THEN "idle" ELSE "drain")
       /\ closeReturned' = (closeReturned \/ early)
  /\ UNCHANGED <<closed, handleVars, callVars, res>>

EnterWrite(t) ==
  /\ pc[t] = "enter" /\ op[t] \in WriteOps
  /\ CanAnnounce(lock[LockOf(t)])
  /\ lock' = [lock EXCEPT ![LockOf(t)] = Announce(@, t)]
  /\ Goto(t, "drain")
  /\ UNCHANGED <<closed, handleVars, callVars, res, closeReturned>>

(* Mutant: Lock does not wait for the readers inside.                      *)
DrainAtOnce(t) ==
  /\ pc[t] = "drain"
  /\ Goto(t, "check")
  /\ UNCHANGED <<lock, closed, handleVars, callVars, res, closeReturned>>

Drain(t) ==
  /\ pc[t] = "drain" /\ Drained(lock[LockOf(t)])
  /\ Goto(t, "check")
  /\ UNCHANGED <<lock, closed, handleVars, callVars, res, closeReturned>>

(* Mutant: the early returns of a refused call skip the unlock.            *)
LeaveLockedWhenRefused(t) ==
  /\ pc[t] = "leave"
  /\ lock' = [lock EXCEPT ![LockOf(t)] =
                IF res[t] \in {"closed", "discarded"} THEN @
                ELSE IF op[t] \in ReadOps THEN RUnlock(@, t) ELSE Unlock(@)]
  /\ Goto(t, "idle")
  /\ closeReturned' = (closeReturned \/ op[t] = "close")
  /\ UNCHANGED <<closed, handleVars, callVars, res>>

Leave(t) ==
  /\ pc[t] = "leave"
  /\ lock' = [lock EXCEPT ![LockOf(t)] =
                IF op[t] \in ReadOps THEN RUnlock(@, t) ELSE Unlock(@)]
  /\ Goto(t, "idle")
  /\ closeReturned' = (closeReturned \/ op[t] = "close")
  /\ UNCHANGED <<closed, handleVars, callVars, res>>
-----------------------------------------------------------------------------
(* The checks made under the lock.  Cross goes on into the FFI layer,      *)
(* Answer returns to the caller without touching the handle.               *)

Cross(t) == Goto(t, "ffi") /\ UNCHANGED res

Answer(t, r) == Goto(t, "leave") /\ res' = [res EXCEPT ![t] = r]

CheckDb(t) ==
  /\ pc[t] = "check" /\ op[t] \in {"call", "newtxn"}
  /\ IF closed THEN Answer(t, "closed") ELSE Cross(t)
  /\ UNCHANGED <<lock, closed, handleVars, callVars, closeReturned>>

(* Write with a nil or empty batch returns without crossing.               *)
WriteNothing(t) ==
  /\ pc[t] = "check" /\ op[t] = "call" /\ ~closed
  /\ Answer(t, "ok")
  /\ UNCHANGED <<lock, closed, handleVars, callVars, closeReturned>>

CheckClose(t) ==
  /\ pc[t] = "check" /\ op[t] = "close"
  /\ closed' = TRUE
  /\ IF closed THEN Answer(t, "ok") ELSE Cross(t)
  /\ UNCHANGED <<lock, handleVars, callVars, closeReturned>>

(* Mutants: begin tests only one of DB.closed and Txn.resolved.            *)
CheckTxnClosedOnly(t) ==
  /\ pc[t] = "check" /\ op[t] = "txncall"
  /\ IF closed THEN Answer(t, "closed") ELSE Cross(t)
  /\ UNCHANGED <<lock, closed, handleVars, callVars, closeReturned>>

CheckTxnResolvedOnly(t) ==
  /\ pc[t] = "check" /\ op[t] = "txncall"
  /\ IF resolved[tx[t]] THEN Answer(t, "discarded") ELSE Cross(t)
  /\ UNCHANGED <<lock, closed, handleVars, callVars, closeReturned>>

(* Txn.begin: reads DB.closed without closeLk.                             *)
CheckTxn(t) ==
  /\ pc[t] = "check" /\ op[t] = "txncall"
  /\ CASE closed                   -> Answer(t, "closed")
       [] ~closed /\ resolved[tx[t]] -> Answer(t, "discarded")
       [] OTHER                    -> Cross(t)
  /\ UNCHANGED <<lock, closed, handleVars, callVars, closeReturned>>

(* Mutant: Commit does not test resolved.                                  *)
CheckCommitClosedOnly(t) ==
  /\ pc[t] = "check" /\ op[t] = "commit"
  /\ IF closed THEN Answer(t, "closed") ELSE Cross(t)
  /\ UNCHANGED <<lock, closed, handleVars, callVars, closeReturned>>

(* Commit tests resolved before closed, the other way round from begin.    *)
CheckCommit(t) ==
  /\ pc[t] = "check" /\ op[t] = "commit"
  /\ CASE resolved[tx[t]]            -> Answer(t, "discarded")
       [] ~resolved[tx[t]] /\ closed -> Answer(t, "closed")
       [] OTHER                      -> Cross(t)
  /\ UNCHANGED <<lock, closed, handleVars, callVars, closeReturned>>

(* Mutant: Discard does not test resolved.                                 *)
CheckDiscardNothing(t) ==
  /\ pc[t] = "check" /\ op[t] = "discard"
  /\ Cross(t)
  /\ UNCHANGED <<lock, closed, handleVars, callVars, closeReturned>>

CheckDiscard(t) ==
  /\ pc[t] = "check" /\ op[t] = "discard"
  /\ IF resolved[tx[t]] THEN Answer(t, "ok") ELSE Cross(t)
  /\ UNCHANGED <<lock, closed, handleVars, callVars, closeReturned>>
-----------------------------------------------------------------------------
(* Returning from the FFI layer.                                           *)

FfiCall(t) ==
  /\ pc[t] = "ffi" /\ op[t] \in {"call", "txncall"}
  /\ \E r \in {"ok", "err"} : Answer(t, r)
  /\ UNCHANGED <<lock, closed, handleVars, callVars, closeReturned>>

FfiNewTxn(t) ==
  /\ pc[t] = "ffi" /\ op[t] = "newtxn"
  /\ \/ /\ Answer(t, "ok")
        /\ txnHandle' = [txnHandle EXCEPT ![tx[t]] = "live"]
     \/ /\ Answer(t, "err")
        /\ UNCHANGED txnHandle
  /\ UNCHANGED <<lock, closed, dbHandle, resolved, fate, callVars, closeReturned>>

(* regolith_db_close frees the box whatever the engine's close returns.    *)
FfiClose(t) ==
  /\ pc[t] = "ffi" /\ op[t] = "close"
  /\ dbHandle' = "freed"
  /\ \E r \in {"ok", "err"} : Answer(t, r)
  /\ UNCHANGED <<lock, closed, txnHandle, resolved, fate, callVars, closeReturned>>

Resolve(t, x, f) ==
  /\ txnHandle' = [txnHandle EXCEPT ![x] = "freed"]
  /\ resolved' = [resolved EXCEPT ![x] = TRUE]
  /\ fate' = [fate EXCEPT ![x] = f]
  /\ UNCHANGED <<lock, closed, dbHandle, callVars, closeReturned>>

(* Mutant: a failed commit marks the Txn resolved and keeps its handle.    *)
FfiCommitKeepsOnFailure(t) ==
  /\ pc[t] = "ffi" /\ op[t] = "commit"
  /\ \/ Answer(t, "ok") /\ Resolve(t, tx[t], "committed")
     \/ /\ \E r \in {"conflict", "err"} : Answer(t, r)
        /\ resolved' = [resolved EXCEPT ![tx[t]] = TRUE]
        /\ UNCHANGED <<lock, closed, dbHandle, txnHandle, fate, callVars, closeReturned>>

(* regolith_txn_commit consumes the handle on success and failure alike.   *)
FfiCommit(t) ==
  /\ pc[t] = "ffi" /\ op[t] = "commit"
  /\ \/ Answer(t, "ok") /\ Resolve(t, tx[t], "committed")
     \/ \E r \in {"conflict", "err"} :
          Answer(t, r) /\ Resolve(t, tx[t], "rolledback")

(* regolith_txn_free rolls back and frees.                                 *)
FfiDiscard(t) ==
  /\ pc[t] = "ffi" /\ op[t] = "discard"
  /\ Answer(t, "ok")
  /\ Resolve(t, tx[t], "rolledback")
-----------------------------------------------------------------------------
Step(t) ==
  \/ EnterRead(t) \/ Woken(t) \/ EnterWrite(t) \/ Drain(t)
  \/ CheckDb(t) \/ WriteNothing(t) \/ CheckClose(t)
  \/ CheckTxn(t) \/ CheckCommit(t) \/ CheckDiscard(t)
  \/ FfiCall(t) \/ FfiNewTxn(t) \/ FfiClose(t) \/ FfiCommit(t) \/ FfiDiscard(t)
  \/ Leave(t)

Next == \E t \in Threads : CallDb(t) \/ CallNewTxn(t) \/ CallTxn(t) \/ Step(t)

Spec == Init /\ [][Next]_vars

(* The scheduler runs every goroutine that can run, and FFI calls return.  *)
(* Competing Lock calls need strong fairness: between two of them the lock *)
(* is free again and again, and sync.Mutex's starvation mode serves them.  *)
Fairness == \A t \in Threads : WF_vars(Step(t)) /\ SF_vars(EnterWrite(t))

FairSpec == Spec /\ Fairness
-----------------------------------------------------------------------------
TypeOK ==
  /\ lock \in [Locks -> Mutex]
  /\ closed \in BOOLEAN
  /\ dbHandle \in {"live", "freed"}
  /\ txnHandle \in [Txns -> {"none", "live", "freed"}]
  /\ resolved \in [Txns -> BOOLEAN]
  /\ fate \in [Txns -> {"open", "committed", "rolledback"}]
  /\ pc \in [Threads -> Labels]
  /\ op \in [Threads -> Ops]
  /\ tx \in [Threads -> Txns \cup {NoTxn}]
  /\ \A t \in Threads : op[t] \in TxnOps \cup {"newtxn"} => tx[t] \in Txns
  /\ res \in [Threads -> Results]
  /\ closeReturned \in BOOLEAN
  /\ late \in [Threads -> BOOLEAN]

InFfi(t) == pc[t] = "ffi"

(* No goroutine is inside the FFI layer with a pointer that has been freed: *)
(* what closeLk, lk, closed and resolved are there for, together.           *)
NoUseAfterFree == \A t \in Threads : InFfi(t) =>
  IF op[t] \in TxnOps THEN txnHandle[tx[t]] = "live" ELSE dbHandle = "live"

(* A call that frees a handle overlaps no other call using that handle: two *)
(* closes, a commit and a discard, a close and a Get.                       *)
FreeIsExclusive == \A t, u \in Threads :
  (t # u /\ InFfi(t) /\ op[t] \in WriteOps /\ InFfi(u)) => LockOf(t) # LockOf(u)

(* Whichever Close returns first, also one that found the store closed by  *)
(* a concurrent Close: the store handle has been released by then.         *)
CloseMeansReleased == closeReturned => closed /\ dbHandle = "freed"

(* A call made after a Close returned never succeeds; Close and Discard,   *)
(* which answer nothing about the store, are the exceptions.               *)
RefusedAfterClose == \A t \in Threads :
  (late[t] /\ op[t] \notin {"close", "discard"}) =>
    res[t] \in {"none", "closed", "discarded"}

(* The engine applies or drops a transaction's writes once: the handle is  *)
(* resolved by one Commit or Discard, however many race.                   *)
FateIsFinal == [][\A x \in Txns : fate[x] # "open" => fate'[x] = fate[x]]_vars

(* A Commit is answered "ok" only if its writes were applied, and only one *)
(* of the goroutines racing to commit is told so.                          *)
CommitOkOnce == \A t, u \in Threads :
  LET Told(v) == op[v] = "commit" /\ res[v] = "ok" IN
  /\ Told(t) => fate[tx[t]] = "committed"
  /\ (t # u /\ Told(t) /\ Told(u)) => tx[t] # tx[u]

Returned(t, o) == pc[t] = "idle" /\ op[t] = o /\ res[t] # "none"

(* After a Discard, and after every Commit that did not answer ErrClosed,  *)
(* the handle is gone; and a live handle is never marked resolved, so a    *)
(* later Discard can still reach it.                                       *)
NoLeak ==
  /\ \A t \in Threads :
       (Returned(t, "discard") \/ (Returned(t, "commit") /\ res[t] # "closed"))
         => txnHandle[tx[t]] = "freed"
  /\ \A x \in Txns : ~(txnHandle[x] = "live" /\ resolved[x])

(* "The handle is released by the commit itself, on success and on failure  *)
(* alike" (regolith.go:533-534).                                            *)
CommitReleases == \A t \in Threads :
  Returned(t, "commit") => txnHandle[tx[t]] = "freed"

(* Every call returns: Close waits only for calls already under way, and   *)
(* no stream of new ones starves it.                                       *)
CallsReturn == \A t \in Threads : pc[t] # "idle" ~> pc[t] = "idle"
=============================================================================
