--------------------------- MODULE HandlesProofs ---------------------------
(***************************************************************************)
(* Proofs about Handles, for any number of goroutines and transactions.    *)
(*                                                                         *)
(* None of the safety properties is inductive by itself.  IInv adds what   *)
(* they rest on: who holds which lock where (LockInv), and how the checks  *)
(* made under a lock (closed, resolved) relate to the handle the lock      *)
(* guards (StoreInv, TxnInv) and to what calls may answer (LateInv for the  *)
(* ones begun after a Close returned, AnswerInv for Commit and Discard).   *)
(***************************************************************************)
EXTENDS Handles, TLAPS

Held    == {"check", "ffi", "leave"}
Claimed == {"drain", "check", "ffi", "leave"}

(* Readers are registered, the announced writer is unique, and it has the  *)
(* lock to itself once it has drained.                                     *)
LockInv ==
  /\ \A t \in Threads : pc[t] = "queued" => op[t] \in ReadOps
  /\ \A t \in Threads : pc[t] = "drain" => op[t] \in WriteOps
  /\ \A t \in Threads : pc[t] \in Held /\ op[t] \in ReadOps =>
       t \in lock[LockOf(t)].readers
  /\ \A t \in Threads : pc[t] \in Claimed /\ op[t] \in WriteOps =>
       lock[LockOf(t)].writer = t
  /\ \A t \in Threads : pc[t] \in Held /\ op[t] \in WriteOps =>
       lock[LockOf(t)].readers = {}

(* The store handle is live as long as closed is not set, and after that   *)
(* only while the one Close that set it is still in the FFI layer.         *)
StoreInv ==
  /\ ~closed => dbHandle = "live"
  /\ closed /\ dbHandle = "live" => \E t \in Threads : InFfi(t) /\ op[t] = "close"
  /\ \A t \in Threads : InFfi(t) /\ op[t] \in {"call", "newtxn"} => ~closed
  /\ \A t \in Threads : InFfi(t) /\ op[t] = "close" => closed /\ dbHandle = "live"
  /\ \A t \in Threads : pc[t] = "leave" /\ op[t] = "close" => closed /\ dbHandle = "freed"

(* A slot being filled by NewTxn.                                          *)
Filling(t) == op[t] = "newtxn" /\ pc[t] \in {"enter", "queued", "drain", "check", "ffi"}

TxnInv ==
  /\ \A x \in Txns : txnHandle[x] = "freed" <=> resolved[x]
  /\ \A x \in Txns : fate[x] = "open" <=> ~resolved[x]
  /\ \A t \in Threads : pc[t] # "idle" /\ op[t] \in TxnOps => txnHandle[tx[t]] # "none"
  /\ \A t \in Threads : InFfi(t) /\ op[t] \in TxnOps => ~resolved[tx[t]]
  /\ \A t \in Threads : Filling(t) => txnHandle[tx[t]] = "none"
  /\ \A t, u \in Threads : t # u /\ Filling(t) /\ Filling(u) => tx[t] # tx[u]

LateInv ==
  /\ CloseMeansReleased
  /\ \A t \in Threads : late[t] => closeReturned
  /\ \A t \in Threads : late[t] /\ op[t] \notin {"close", "discard"} => ~InFfi(t)
  /\ RefusedAfterClose

AnswerInv ==
  /\ CommitOkOnce
  /\ \A t \in Threads : op[t] = "discard" /\ res[t] # "none" => txnHandle[tx[t]] = "freed"
  /\ \A t \in Threads : op[t] = "commit" /\ res[t] \notin {"none", "closed"} =>
       txnHandle[tx[t]] = "freed"

IInv == TypeOK /\ LockInv /\ StoreInv /\ TxnInv /\ LateInv /\ AnswerInv
-----------------------------------------------------------------------------
(* The lock a call takes is one of the locks.                              *)
LEMMA LockOfType == TypeOK => \A t \in Threads : LockOf(t) \in Locks
  BY DEF TypeOK, LockOf, Locks

(* What the three ways to begin a call have in common.                     *)
LEMMA Begins ==
  ASSUME NEW t \in Threads, CallDb(t) \/ CallNewTxn(t) \/ CallTxn(t)
  PROVE  \E o \in Ops, x \in Txns \cup {NoTxn} :
           Begin(t, o, x) /\ (o \in TxnOps \cup {"newtxn"} => x \in Txns)
  BY DEF CallDb, CallNewTxn, CallTxn, Ops, ReadOps, WriteOps, TxnOps

(* The steps a call makes while it holds its lock.                         *)
Inside(t) ==
  \/ CheckDb(t) \/ WriteNothing(t) \/ CheckClose(t)
  \/ CheckTxn(t) \/ CheckCommit(t) \/ CheckDiscard(t)
  \/ FfiCall(t) \/ FfiNewTxn(t) \/ FfiClose(t) \/ FfiCommit(t) \/ FfiDiscard(t)

(* They move it on, and leave the locks and all other calls alone.         *)
LEMMA InsideMoves ==
  ASSUME NEW t \in Threads, Inside(t)
  PROVE  /\ pc[t] \in {"check", "ffi"}
         /\ \E l \in {"ffi", "leave"} : pc' = [pc EXCEPT ![t] = l]
         /\ \E r \in Results : res' = res \/ res' = [res EXCEPT ![t] = r]
         /\ UNCHANGED <<lock, callVars, closeReturned>>
  <1> USE DEF Answer, Cross, Goto, Resolve, Results
  <1>1. CASE CheckDb(t) \/ WriteNothing(t) \/ CheckClose(t)
    BY <1>1 DEF CheckDb, WriteNothing, CheckClose
  <1>2. CASE CheckTxn(t)
    BY <1>2 DEF CheckTxn
  <1>3. CASE CheckCommit(t)
    BY <1>3 DEF CheckCommit
  <1>4. CASE CheckDiscard(t)
    BY <1>4 DEF CheckDiscard
  <1>5. CASE FfiCall(t) \/ FfiNewTxn(t) \/ FfiClose(t)
    BY <1>5 DEF FfiCall, FfiNewTxn, FfiClose
  <1>6. CASE FfiCommit(t) \/ FfiDiscard(t)
    BY <1>6 DEF FfiCommit, FfiDiscard
  <1>7. QED
    BY <1>1, <1>2, <1>3, <1>4, <1>5, <1>6 DEF Inside
-----------------------------------------------------------------------------
(* The operations on a sync.RWMutex yield one.                             *)
LEMMA MutexMoves ==
  ASSUME NEW m \in Mutex, NEW t \in Threads
  PROVE  RLock(m, t) \in Mutex /\ RUnlock(m, t) \in Mutex
         /\ Announce(m, t) \in Mutex /\ Unlock(m) \in Mutex
  <1>1. RLock(m, t) \in Mutex
    BY DEF RLock, Mutex
  <1>2. RUnlock(m, t) \in Mutex
    BY DEF RUnlock, Mutex
  <1>3. Announce(m, t) \in Mutex
    BY DEF Announce, Mutex
  <1>4. Unlock(m) \in Mutex
    BY DEF Unlock, Mutex
  <1>5. QED
    BY <1>1, <1>2, <1>3, <1>4

(* Types are preserved by every action.                                    *)
LEMMA TypeStep == TypeOK /\ [Next]_vars => TypeOK'
  <1> SUFFICES ASSUME TypeOK, [Next]_vars PROVE TypeOK'
    OBVIOUS
  <1> USE LockOfType DEF TypeOK
  <1>1. ASSUME NEW t \in Threads, CallDb(t) \/ CallNewTxn(t) \/ CallTxn(t) PROVE TypeOK'
    <2>1. PICK o \in Ops, x \in Txns \cup {NoTxn} :
            Begin(t, o, x) /\ (o \in TxnOps \cup {"newtxn"} => x \in Txns)
      BY <1>1, Begins
    <2>2. QED
      BY <2>1 DEF Begin, handleVars, Labels, Results
  <1>2. ASSUME NEW t \in Threads, NEW m \in Mutex, NEW l \in Labels,
               lock' = [lock EXCEPT ![LockOf(t)] = m], pc' = [pc EXCEPT ![t] = l],
               UNCHANGED <<closed, handleVars, callVars, res>>, closeReturned' \in BOOLEAN
        PROVE  TypeOK'
    BY <1>2 DEF handleVars, callVars
  <1>3. ASSUME NEW t \in Threads, Woken(t) \/ Drain(t) PROVE TypeOK'
    BY <1>3 DEF Woken, Drain, Goto, Labels, handleVars, callVars
  <1>4. ASSUME NEW t \in Threads, EnterRead(t) \/ EnterWrite(t) PROVE TypeOK'
    <2>1. lock[LockOf(t)] \in Mutex
      OBVIOUS
    <2>2. RLock(lock[LockOf(t)], t) \in Mutex /\ Announce(lock[LockOf(t)], t) \in Mutex
      BY <2>1, MutexMoves
    <2>3. \E m \in Mutex, l \in Labels :
            lock' = [lock EXCEPT ![LockOf(t)] = m] /\ pc' = [pc EXCEPT ![t] = l]
      BY <1>4, <2>2 DEF EnterRead, EnterWrite, Goto, Labels
    <2>4. UNCHANGED <<closed, handleVars, callVars, res>> /\ closeReturned' \in BOOLEAN
      BY <1>4 DEF EnterRead, EnterWrite
    <2>5. QED
      BY <1>2, <2>3, <2>4
  <1>5. ASSUME NEW t \in Threads, Leave(t) PROVE TypeOK'
    <2>1. lock[LockOf(t)] \in Mutex
      OBVIOUS
    <2>2. RUnlock(lock[LockOf(t)], t) \in Mutex /\ Unlock(lock[LockOf(t)]) \in Mutex
      BY <2>1, MutexMoves
    <2>3. \E m \in Mutex, l \in Labels :
            lock' = [lock EXCEPT ![LockOf(t)] = m] /\ pc' = [pc EXCEPT ![t] = l]
      BY <1>5, <2>2 DEF Leave, Goto, Labels
    <2>4. UNCHANGED <<closed, handleVars, callVars, res>> /\ closeReturned' \in BOOLEAN
      BY <1>5 DEF Leave
    <2>5. QED
      BY <1>2, <2>3, <2>4
  <1>6. ASSUME NEW t \in Threads, Inside(t) PROVE TypeOK'
    <2>1. /\ pc' \in [Threads -> Labels] /\ res' \in [Threads -> Results]
          /\ UNCHANGED <<lock, callVars, closeReturned>>
      BY <1>6, InsideMoves DEF Labels
    <2>2. /\ closed' \in BOOLEAN /\ dbHandle' \in {"live", "freed"}
          /\ txnHandle' \in [Txns -> {"none", "live", "freed"}]
          /\ resolved' \in [Txns -> BOOLEAN]
          /\ fate' \in [Txns -> {"open", "committed", "rolledback"}]
      BY <1>6 DEF Inside, CheckDb, WriteNothing, CheckClose, CheckTxn, CheckCommit,
         CheckDiscard, FfiCall, FfiNewTxn, FfiClose, FfiCommit, FfiDiscard, Resolve,
         handleVars
    <2>3. QED
      BY <2>1, <2>2 DEF callVars
  <1>7. CASE UNCHANGED vars
    BY <1>7 DEF vars, handleVars, callVars
  <1>8. QED
    BY <1>1, <1>3, <1>4, <1>5, <1>6, <1>7 DEF Next, Step, Inside

(* No action lets two calls hold a lock against each other.                *)
LEMMA LockStep == TypeOK /\ LockInv /\ [Next]_vars => LockInv'
  <1> SUFFICES ASSUME TypeOK, LockInv, [Next]_vars PROVE LockInv'
    OBVIOUS
  <1> USE NoThreadAssumption DEF LockInv, Held, Claimed
  <1>1. /\ \A t \in Threads : LockOf(t) \in Locks
        /\ pc \in [Threads -> Labels] /\ op \in [Threads -> Ops]
        /\ lock \in [Locks -> Mutex]
        /\ Ops = ReadOps \cup WriteOps /\ ReadOps \cap WriteOps = {}
    BY LockOfType DEF TypeOK, Ops, ReadOps, WriteOps
  <1>2. UNCHANGED callVars => UNCHANGED op /\ \A t \in Threads : LockOf(t)' = LockOf(t)
    BY DEF LockOf, callVars
  <1>3. ASSUME NEW t \in Threads, CallDb(t) \/ CallNewTxn(t) \/ CallTxn(t) PROVE LockInv'
    <2>1. PICK o \in Ops, x \in Txns \cup {NoTxn} : Begin(t, o, x)
      BY <1>3, Begins
    <2>2. \A u \in Threads \ {t} : op'[u] = op[u] /\ pc'[u] = pc[u] /\ LockOf(u)' = LockOf(u)
      BY <1>1, <2>1 DEF Begin, LockOf
    <2>3. pc'[t] = "enter" /\ UNCHANGED lock
      BY <1>1, <2>1 DEF Begin
    <2>4. QED
      BY <2>2, <2>3
  <1>4. ASSUME NEW t \in Threads, EnterRead(t) PROVE LockInv'
    BY <1>1, <1>2, <1>4 DEF EnterRead, RLock, CanAnnounce, Goto, Mutex
  <1>5. ASSUME NEW t \in Threads, Woken(t) PROVE LockInv'
    <2>1. /\ op[t] \in ReadOps /\ t \in lock[LockOf(t)].readers
          /\ pc' = [pc EXCEPT ![t] = "check"] /\ UNCHANGED <<lock, callVars>>
      BY <1>5 DEF Woken, Goto
    <2>2. op[t] \notin WriteOps
      BY <1>1, <2>1
    <2>3. QED
      BY <1>1, <1>2, <2>1, <2>2
  <1>6. ASSUME NEW t \in Threads, EnterWrite(t) PROVE LockInv'
    BY <1>1, <1>2, <1>6 DEF EnterWrite, Announce, CanAnnounce, Goto, Mutex
  <1>7. ASSUME NEW t \in Threads, Drain(t) PROVE LockInv'
    <2>1. /\ op[t] \in WriteOps /\ lock[LockOf(t)].readers = {}
          /\ lock[LockOf(t)].writer = t
          /\ pc' = [pc EXCEPT ![t] = "check"] /\ UNCHANGED <<lock, callVars>>
      BY <1>7 DEF Drain, Drained, Goto
    <2>2. op[t] \notin ReadOps
      BY <1>1, <2>1
    <2>3. QED
      BY <1>1, <1>2, <2>1, <2>2
  <1>8. ASSUME NEW t \in Threads, Leave(t) PROVE LockInv'
    BY <1>1, <1>2, <1>8 DEF Leave, RUnlock, Unlock, Goto, Mutex
  <1>9. ASSUME NEW t \in Threads, Inside(t) PROVE LockInv'
    BY <1>1, <1>2, <1>9, InsideMoves
  <1>10. CASE UNCHANGED vars
    BY <1>2, <1>10 DEF vars
  <1>11. QED
    BY <1>3, <1>4, <1>5, <1>6, <1>7, <1>8, <1>9, <1>10 DEF Next, Step, Inside

(* No crossing of the FFI boundary meets a store handle that is gone.      *)
LEMMA StoreStep == TypeOK /\ LockInv /\ StoreInv /\ [Next]_vars => StoreInv'
  <1> SUFFICES ASSUME TypeOK, LockInv, StoreInv, [Next]_vars PROVE StoreInv'
    OBVIOUS
  <1> USE DEF StoreInv, InFfi
  <1>1. /\ pc \in [Threads -> Labels] /\ op \in [Threads -> Ops]
        /\ closed \in BOOLEAN /\ dbHandle \in {"live", "freed"}
    BY DEF TypeOK
  <1>2. \A t, u \in Threads :
          (t # u /\ pc[t] \in {"check", "ffi", "leave"} /\ op[t] = "close") =>
            /\ ~(pc[u] \in {"check", "ffi", "leave"} /\ op[u] = "close")
            /\ ~(InFfi(u) /\ op[u] \in {"call", "newtxn"})
    BY DEF LockInv, LockOf, Held, Claimed, ReadOps, WriteOps, TxnOps
  <1>3. ASSUME NEW t \in Threads, CallDb(t) \/ CallNewTxn(t) \/ CallTxn(t) PROVE StoreInv'
    <2>1. PICK o \in Ops, x \in Txns \cup {NoTxn} : Begin(t, o, x)
      BY <1>3, Begins
    <2>2. QED
      BY <1>1, <2>1 DEF Begin, handleVars
  <1>4. ASSUME NEW t \in Threads,
               EnterRead(t) \/ Woken(t) \/ EnterWrite(t) \/ Drain(t) PROVE StoreInv'
    BY <1>1, <1>4 DEF EnterRead, Woken, EnterWrite, Drain, Goto, handleVars, callVars
  <1>5. ASSUME NEW t \in Threads, Leave(t) PROVE StoreInv'
    BY <1>1, <1>5 DEF Leave, Goto, handleVars, callVars
  <1>6. ASSUME NEW t \in Threads, CheckDb(t) \/ WriteNothing(t) PROVE StoreInv'
    BY <1>1, <1>6 DEF CheckDb, WriteNothing, Answer, Cross, Goto, handleVars, callVars
  <1>7. ASSUME NEW t \in Threads, CheckClose(t) PROVE StoreInv'
    BY <1>1, <1>2, <1>7 DEF CheckClose, Answer, Cross, Goto, handleVars, callVars
  <1>8. ASSUME NEW t \in Threads, CheckTxn(t) \/ CheckCommit(t) \/ CheckDiscard(t)
        PROVE StoreInv'
    <2>1. op[t] \in TxnOps /\ pc[t] = "check" /\ UNCHANGED <<closed, handleVars, callVars>>
      BY <1>8 DEF CheckTxn, CheckCommit, CheckDiscard, TxnOps
    <2>2. \E l \in {"ffi", "leave"} : pc' = [pc EXCEPT ![t] = l]
      BY <1>8, InsideMoves DEF Inside
    <2>3. QED
      BY <1>1, <2>1, <2>2 DEF handleVars, callVars, TxnOps
  <1>9. ASSUME NEW t \in Threads, FfiCall(t) \/ FfiNewTxn(t) PROVE StoreInv'
    BY <1>1, <1>9 DEF FfiCall, FfiNewTxn, Answer, Goto, handleVars, callVars
  <1>10. ASSUME NEW t \in Threads, FfiClose(t) PROVE StoreInv'
    BY <1>1, <1>2, <1>10 DEF FfiClose, Answer, Goto, callVars
  <1>11. ASSUME NEW t \in Threads, FfiCommit(t) \/ FfiDiscard(t) PROVE StoreInv'
    BY <1>1, <1>11 DEF FfiCommit, FfiDiscard, Resolve, Answer, Goto, callVars
  <1>12. CASE UNCHANGED vars
    BY <1>12 DEF vars, handleVars, callVars
  <1>13. QED
    BY <1>3, <1>4, <1>5, <1>6, <1>7, <1>8, <1>9, <1>10, <1>11, <1>12 DEF Next, Step

(* No crossing meets a transaction handle that is gone, and every handle   *)
(* is resolved by the call that frees it.                                  *)
LEMMA TxnStep == TypeOK /\ LockInv /\ TxnInv /\ [Next]_vars => TxnInv'
  <1> SUFFICES ASSUME TypeOK, LockInv, TxnInv, [Next]_vars PROVE TxnInv'
    OBVIOUS
  <1> USE DEF TxnInv, Filling, InFfi
  <1>1. /\ pc \in [Threads -> Labels] /\ op \in [Threads -> Ops]
        /\ tx \in [Threads -> Txns \cup {NoTxn}]
        /\ \A t \in Threads : op[t] \in TxnOps \cup {"newtxn"} => tx[t] \in Txns
        /\ txnHandle \in [Txns -> {"none", "live", "freed"}]
        /\ resolved \in [Txns -> BOOLEAN]
        /\ fate \in [Txns -> {"open", "committed", "rolledback"}]
    BY DEF TypeOK
  <1>2. \A t, u \in Threads :
          (/\ t # u /\ InFfi(t) /\ op[t] \in {"commit", "discard"}
           /\ InFfi(u) /\ op[u] \in TxnOps) => tx[t] # tx[u]
    BY DEF LockInv, LockOf, Held, Claimed, ReadOps, WriteOps, TxnOps
  <1>3. ASSUME NEW t \in Threads, CallDb(t) PROVE TxnInv'
    BY <1>1, <1>3 DEF CallDb, Begin, handleVars, TxnOps
  <1>4. ASSUME NEW t \in Threads, CallNewTxn(t) PROVE TxnInv'
    BY <1>1, <1>4 DEF CallNewTxn, Creating, Begin, handleVars, TxnOps
  <1>5. ASSUME NEW t \in Threads, CallTxn(t) PROVE TxnInv'
    BY <1>1, <1>5 DEF CallTxn, Begin, handleVars, TxnOps
  <1>6. ASSUME NEW t \in Threads,
               EnterRead(t) \/ Woken(t) \/ EnterWrite(t) \/ Drain(t) PROVE TxnInv'
    <2>1. /\ UNCHANGED <<handleVars, callVars>> /\ pc[t] \in {"enter", "queued", "drain"}
          /\ \E l \in {"queued", "drain", "check"} : pc' = [pc EXCEPT ![t] = l]
      BY <1>6 DEF EnterRead, Woken, EnterWrite, Drain, Goto
    <2>2. QED
      BY <1>1, <2>1 DEF handleVars, callVars
  <1>7. ASSUME NEW t \in Threads, Leave(t) PROVE TxnInv'
    BY <1>1, <1>7 DEF Leave, Goto, handleVars, callVars
  <1>8. ASSUME NEW t \in Threads, CheckDb(t) \/ WriteNothing(t) \/ CheckClose(t) \/ FfiCall(t) \/ FfiClose(t)
        PROVE TxnInv'
    <2>1. /\ UNCHANGED <<txnHandle, resolved, fate>> /\ pc[t] \in {"check", "ffi"}
          /\ (op[t] \notin TxnOps \/ pc[t] = "ffi")
      BY <1>8 DEF CheckDb, WriteNothing, CheckClose, FfiCall, FfiClose, handleVars, TxnOps
    <2>2. UNCHANGED callVars /\ \E l \in {"ffi", "leave"} : pc' = [pc EXCEPT ![t] = l]
      BY <1>8, InsideMoves DEF Inside
    <2>3. QED
      BY <1>1, <2>1, <2>2 DEF callVars
  <1>9. ASSUME NEW t \in Threads, CheckTxn(t) \/ CheckCommit(t) \/ CheckDiscard(t)
        PROVE TxnInv'
    <2>1. /\ UNCHANGED <<handleVars, callVars>>
          /\ pc[t] = "check" /\ op[t] \in TxnOps
          /\ \/ pc' = [pc EXCEPT ![t] = "leave"]
             \/ pc' = [pc EXCEPT ![t] = "ffi"] /\ ~resolved[tx[t]]
      BY <1>9 DEF CheckTxn, CheckCommit, CheckDiscard, Answer, Cross, Goto, TxnOps
    <2>2. QED
      BY <1>1, <2>1 DEF handleVars, callVars
  <1>10. ASSUME NEW t \in Threads, FfiNewTxn(t) PROVE TxnInv'
    <2>1. /\ UNCHANGED <<resolved, fate, callVars>> /\ pc' = [pc EXCEPT ![t] = "leave"]
          /\ pc[t] = "ffi" /\ op[t] = "newtxn" /\ tx[t] \in Txns
          /\ \/ txnHandle' = [txnHandle EXCEPT ![tx[t]] = "live"]
             \/ UNCHANGED txnHandle
      BY <1>1, <1>10 DEF FfiNewTxn, Answer, Goto
    <2>2. QED
      BY <1>1, <2>1 DEF callVars, TxnOps
  <1>11. ASSUME NEW t \in Threads, FfiCommit(t) \/ FfiDiscard(t) PROVE TxnInv'
    <2>1. PICK f \in {"committed", "rolledback"} : Resolve(t, tx[t], f)
      BY <1>11 DEF FfiCommit, FfiDiscard
    <2>2. /\ pc[t] = "ffi" /\ op[t] \in {"commit", "discard"} /\ tx[t] \in Txns
          /\ pc' = [pc EXCEPT ![t] = "leave"]
      BY <1>1, <1>11 DEF FfiCommit, FfiDiscard, Answer, Goto, TxnOps
    <2>3. /\ txnHandle' = [txnHandle EXCEPT ![tx[t]] = "freed"]
          /\ resolved' = [resolved EXCEPT ![tx[t]] = TRUE]
          /\ fate' = [fate EXCEPT ![tx[t]] = f]
          /\ op' = op /\ tx' = tx
      BY <2>1 DEF Resolve, callVars
    <2>4. QED
      BY <1>1, <1>2, <2>2, <2>3 DEF TxnOps
  <1>12. CASE UNCHANGED vars
    BY <1>12 DEF vars, handleVars, callVars
  <1>13. QED
    BY <1>3, <1>4, <1>5, <1>6, <1>7, <1>8, <1>9, <1>10, <1>11, <1>12 DEF Next, Step

(* A call begun after a Close returned is turned away.                     *)
LEMMA LateStep == TypeOK /\ StoreInv /\ LateInv /\ [Next]_vars => LateInv'
  <1> SUFFICES ASSUME TypeOK, StoreInv, LateInv, [Next]_vars PROVE LateInv'
    OBVIOUS
  <1> USE DEF LateInv, RefusedAfterClose, CloseMeansReleased, StoreInv, InFfi
  <1>1. /\ pc \in [Threads -> Labels] /\ op \in [Threads -> Ops]
        /\ res \in [Threads -> Results] /\ late \in [Threads -> BOOLEAN]
        /\ closed \in BOOLEAN /\ closeReturned \in BOOLEAN
    BY DEF TypeOK
  <1>2. ASSUME NEW t \in Threads, CallDb(t) \/ CallNewTxn(t) \/ CallTxn(t) PROVE LateInv'
    <2>1. PICK o \in Ops, x \in Txns \cup {NoTxn} : Begin(t, o, x)
      BY <1>2, Begins
    <2>2. QED
      BY <1>1, <2>1 DEF Begin, handleVars
  <1>3. ASSUME NEW t \in Threads,
               EnterRead(t) \/ Woken(t) \/ EnterWrite(t) \/ Drain(t) PROVE LateInv'
    BY <1>1, <1>3 DEF EnterRead, Woken, EnterWrite, Drain, Goto, handleVars, callVars
  <1>4. ASSUME NEW t \in Threads, Leave(t) PROVE LateInv'
    BY <1>1, <1>4 DEF Leave, Goto, handleVars, callVars
  <1>5. ASSUME NEW t \in Threads, Inside(t) PROVE LateInv'
    <2>1. UNCHANGED <<closeReturned, late, op>> /\ pc[t] \in {"check", "ffi"}
      BY <1>5, InsideMoves DEF callVars
    <2>2. (closed => closed') /\ (dbHandle = "freed" => dbHandle' = "freed")
      BY <1>5 DEF Inside, CheckDb, WriteNothing, CheckClose, CheckTxn, CheckCommit,
         CheckDiscard, FfiCall, FfiNewTxn, FfiClose, FfiCommit, FfiDiscard, Resolve, handleVars
    <2>3. \A u \in Threads \ {t} : pc'[u] = pc[u] /\ res'[u] = res[u]
      BY <1>1, <1>5, InsideMoves
    <2>4. ASSUME late[t], op[t] \notin {"close", "discard"}
          PROVE  pc'[t] = "leave" /\ res'[t] \in {"closed", "discarded"}
      BY <1>1, <1>5, <2>4 DEF Inside, CheckDb, WriteNothing, CheckClose, CheckTxn, CheckCommit,
         CheckDiscard, FfiCall, FfiNewTxn, FfiClose, FfiCommit, FfiDiscard, Answer, Cross, Goto
    <2>5. QED
      BY <2>1, <2>2, <2>3, <2>4
  <1>6. CASE UNCHANGED vars
    BY <1>6 DEF vars, handleVars, callVars
  <1>7. QED
    BY <1>2, <1>3, <1>4, <1>5, <1>6 DEF Next, Step, Inside

(* What Commit and Discard answer is true of the handle and the engine.    *)
LEMMA AnswerStep == TypeOK /\ TxnInv /\ AnswerInv /\ [Next]_vars => AnswerInv'
  <1> SUFFICES ASSUME TypeOK, TxnInv, AnswerInv, [Next]_vars PROVE AnswerInv'
    OBVIOUS
  <1> USE DEF AnswerInv, CommitOkOnce
  <1>1. /\ pc \in [Threads -> Labels] /\ op \in [Threads -> Ops]
        /\ tx \in [Threads -> Txns \cup {NoTxn}]
        /\ \A t \in Threads : op[t] \in TxnOps \cup {"newtxn"} => tx[t] \in Txns
        /\ res \in [Threads -> Results]
        /\ txnHandle \in [Txns -> {"none", "live", "freed"}]
        /\ resolved \in [Txns -> BOOLEAN]
        /\ fate \in [Txns -> {"open", "committed", "rolledback"}]
    BY DEF TypeOK
  <1>2. ASSUME NEW t \in Threads, CallDb(t) \/ CallNewTxn(t) \/ CallTxn(t) PROVE AnswerInv'
    <2>1. PICK o \in Ops, x \in Txns \cup {NoTxn} : Begin(t, o, x)
      BY <1>2, Begins
    <2>2. QED
      BY <1>1, <2>1 DEF Begin, handleVars
  <1>3. ASSUME NEW t \in Threads,
               EnterRead(t) \/ Woken(t) \/ EnterWrite(t) \/ Drain(t) \/ Leave(t)
        PROVE  AnswerInv'
    BY <1>3 DEF EnterRead, Woken, EnterWrite, Drain, Leave, handleVars, callVars
  <1>4. ASSUME NEW t \in Threads, CheckDb(t) \/ WriteNothing(t) \/ CheckClose(t)
                                \/ FfiCall(t) \/ FfiClose(t) PROVE AnswerInv'
    <2>1. op[t] \notin {"commit", "discard"} /\ UNCHANGED <<txnHandle, fate, callVars>>
      BY <1>4 DEF CheckDb, WriteNothing, CheckClose, FfiCall, FfiClose, handleVars
    <2>2. \A u \in Threads \ {t} : res'[u] = res[u]
      BY <1>1, <1>4, InsideMoves DEF Inside
    <2>3. QED
      BY <2>1, <2>2 DEF callVars
  <1>5. ASSUME NEW t \in Threads, CheckTxn(t) \/ CheckCommit(t) \/ CheckDiscard(t)
        PROVE  AnswerInv'
    <2>1. UNCHANGED <<handleVars, callVars>>
      BY <1>5 DEF CheckTxn, CheckCommit, CheckDiscard
    <2>2. \/ UNCHANGED res
          \/ \E r \in Results :
               /\ res' = [res EXCEPT ![t] = r]
               /\ op[t] = "commit" => r = "closed" \/ (r = "discarded" /\ resolved[tx[t]])
               /\ op[t] = "discard" => resolved[tx[t]]
      BY <1>5 DEF CheckTxn, CheckCommit, CheckDiscard, Answer, Cross, Results
    <2>3. \A x \in Txns : resolved[x] => txnHandle[x] = "freed"
      BY DEF TxnInv
    <2>4. QED
      BY <1>1, <2>1, <2>2, <2>3 DEF handleVars, callVars, TxnOps
  <1>6. ASSUME NEW t \in Threads, FfiNewTxn(t) PROVE AnswerInv'
    <2>1. /\ op[t] = "newtxn" /\ tx[t] \in Txns /\ txnHandle[tx[t]] = "none"
      BY <1>1, <1>6 DEF FfiNewTxn, TxnInv, Filling
    <2>2. /\ UNCHANGED <<fate, callVars>>
          /\ \A u \in Threads \ {t} : res'[u] = res[u]
          /\ \A x \in Txns \ {tx[t]} : txnHandle'[x] = txnHandle[x]
      BY <1>1, <1>6 DEF FfiNewTxn, Answer, Goto
    <2>3. QED
      BY <1>1, <2>1, <2>2 DEF callVars, TxnOps
  <1>7. ASSUME NEW t \in Threads, FfiCommit(t) \/ FfiDiscard(t) PROVE AnswerInv'
    <2>1. PICK f \in {"committed", "rolledback"}, r \in {"ok", "conflict", "err"} :
            /\ Resolve(t, tx[t], f) /\ res' = [res EXCEPT ![t] = r]
            /\ op[t] = "commit" /\ r = "ok" => f = "committed"
      BY <1>7 DEF FfiCommit, FfiDiscard, Answer
    <2>2. /\ op[t] \in {"commit", "discard"} /\ tx[t] \in Txns
          /\ fate[tx[t]] = "open"
      BY <1>1, <1>7 DEF FfiCommit, FfiDiscard, TxnOps, TxnInv, InFfi
    <2>3. /\ txnHandle' = [txnHandle EXCEPT ![tx[t]] = "freed"]
          /\ fate' = [fate EXCEPT ![tx[t]] = f]
          /\ op' = op /\ tx' = tx
      BY <2>1 DEF Resolve, callVars
    <2>4. QED
      BY <1>1, <2>1, <2>2, <2>3 DEF TxnOps
  <1>8. CASE UNCHANGED vars
    BY <1>8 DEF vars, handleVars, callVars
  <1>9. QED
    BY <1>2, <1>3, <1>4, <1>5, <1>6, <1>7, <1>8 DEF Next, Step
-----------------------------------------------------------------------------
(* A store just opened satisfies the invariant.                            *)
LEMMA IInvInit == Init => IInv
  <1> SUFFICES ASSUME Init PROVE IInv
    OBVIOUS
  <1> USE DEF Init
  <1>1. TypeOK
    <2>1. Unlocked \in Mutex
      BY DEF Unlocked, Mutex
    <2>2. lock \in [Locks -> Mutex]
      BY <2>1
    <2>3. QED
      BY <2>2 DEF TypeOK, Labels, Ops, ReadOps, WriteOps, TxnOps, Results
  <1>2. LockInv
    BY NoThreadAssumption DEF LockInv, Held, Claimed, Unlocked
  <1>3. StoreInv
    BY DEF StoreInv, InFfi
  <1>4. TxnInv
    BY DEF TxnInv, Filling, TxnOps
  <1>5. LateInv
    BY DEF LateInv, CloseMeansReleased, RefusedAfterClose
  <1>6. AnswerInv
    BY DEF AnswerInv, CommitOkOnce
  <1>7. QED
    BY <1>1, <1>2, <1>3, <1>4, <1>5, <1>6 DEF IInv

(* The inductive invariant.                                                *)
THEOREM Inductive == Spec => []IInv
  <1>1. IInv /\ [Next]_vars => IInv'
    BY TypeStep, LockStep, StoreStep, TxnStep, LateStep, AnswerStep DEF IInv
  <1>2. QED
    BY IInvInit, <1>1, PTL DEF Spec

(* Type correctness.                                                       *)
THEOREM TypeCorrect == Spec => []TypeOK
  <1>1. IInv => TypeOK
    BY DEF IInv
  <1>2. QED
    BY Inductive, <1>1, PTL

(* No call is in the FFI layer with a freed handle: DB's closeLk and       *)
(* closed, and Txn's lk and resolved, suffice for any number of callers.   *)
THEOREM HandlesAreSafe == Spec => []NoUseAfterFree
  <1>1. IInv => NoUseAfterFree
    <2> SUFFICES ASSUME IInv, NEW t \in Threads, InFfi(t)
                 PROVE  IF op[t] \in TxnOps THEN txnHandle[tx[t]] = "live"
                                            ELSE dbHandle = "live"
      BY DEF NoUseAfterFree
    <2>1. CASE op[t] \in TxnOps
      BY <2>1 DEF IInv, TypeOK, TxnInv, InFfi
    <2>2. CASE op[t] \notin TxnOps
      BY <2>2 DEF IInv, TypeOK, StoreInv, Ops, ReadOps, WriteOps, TxnOps
    <2>3. QED
      BY <2>1, <2>2
  <1>2. QED
    BY Inductive, <1>1, PTL

(* A call that frees a handle is alone with it.                            *)
THEOREM FreeingIsExclusive == Spec => []FreeIsExclusive
  <1>1. IInv => FreeIsExclusive
    BY DEF IInv, TypeOK, LockInv, Held, Claimed, FreeIsExclusive, InFfi, Ops, ReadOps, WriteOps
  <1>2. QED
    BY Inductive, <1>1, PTL

(* Once a Close has returned the handle is released, also when the Close   *)
(* is one that found the store closed already.                             *)
THEOREM CloseReleases == Spec => []CloseMeansReleased
  <1>1. IInv => CloseMeansReleased
    BY DEF IInv, LateInv
  <1>2. QED
    BY Inductive, <1>1, PTL

(* Calls made after a Close has returned are turned away.                  *)
THEOREM CloseIsFinal == Spec => []RefusedAfterClose
  <1>1. IInv => RefusedAfterClose
    BY DEF IInv, LateInv
  <1>2. QED
    BY Inductive, <1>1, PTL

(* One Commit at most is answered ok, and its writes were applied.         *)
THEOREM CommitOkIsTrue == Spec => []CommitOkOnce
  <1>1. IInv => CommitOkOnce
    BY DEF IInv, AnswerInv
  <1>2. QED
    BY Inductive, <1>1, PTL

(* Resolving a transaction releases its handle.                            *)
THEOREM ResolvingReleases == Spec => []NoLeak
  <1>1. IInv => NoLeak
    BY DEF IInv, TxnInv, AnswerInv, NoLeak, Returned
  <1>2. QED
    BY Inductive, <1>1, PTL

(* A transaction is committed or rolled back once.                         *)
THEOREM FatesAreFinal == Spec => FateIsFinal
  <1>1. IInv /\ [Next]_vars => [\A x \in Txns : fate[x] # "open" => fate'[x] = fate[x]]_vars
    <2> SUFFICES ASSUME IInv, Next
                 PROVE  \A x \in Txns : fate[x] # "open" => fate'[x] = fate[x]
      OBVIOUS
    <2>1. ASSUME NEW t \in Threads, FfiCommit(t) \/ FfiDiscard(t)
          PROVE  \A x \in Txns : fate[x] # "open" => fate'[x] = fate[x]
      <3>1. fate[tx[t]] = "open" /\ fate \in [Txns -> {"open", "committed", "rolledback"}]
        BY <2>1 DEF FfiCommit, FfiDiscard, IInv, TypeOK, TxnInv, InFfi, TxnOps
      <3>2. \E f \in {"committed", "rolledback"} : fate' = [fate EXCEPT ![tx[t]] = f]
        BY <2>1 DEF FfiCommit, FfiDiscard, Resolve
      <3>3. QED
        BY <3>1, <3>2
    <2>2. (\A t \in Threads : ~FfiCommit(t) /\ ~FfiDiscard(t)) => UNCHANGED fate
      BY DEF Next, Step, CallDb, CallNewTxn, CallTxn, Begin, EnterRead, Woken, EnterWrite,
         Drain, CheckDb, WriteNothing, CheckClose, CheckTxn, CheckCommit, CheckDiscard,
         FfiCall, FfiNewTxn, FfiClose, Leave, handleVars
    <2>3. QED
      BY <2>1, <2>2
  <1>2. QED
    BY Inductive, <1>1, PTL DEF Spec, FateIsFinal
=============================================================================
