-------------------------- MODULE LifetimesProofs --------------------------
(***************************************************************************)
(* The safety properties of Lifetimes, for any number of iterators and     *)
(* blocks.                                                                 *)
(***************************************************************************)
EXTENDS Lifetimes, FiniteSetTheorems, TLAPS

IterStates ==
  [over : {"none", "snapshot", "txn", "closed"}, pc : {"idle", "rebuild", "building", "pull", "lent"},
   op : {"none", "batch", "seek"}, reset : BOOLEAN, stream : BOOLEAN,
   cur : SUBSET Blocks, batch : SUBSET Blocks, lent : SUBSET Blocks]

Types ==
  /\ db \in BOOLEAN /\ held \in BOOLEAN /\ owner \in BOOLEAN
  /\ handle \in {"live", "consuming", "freed"}
  /\ arcs \in Int /\ fates \in Int
  /\ it \in [Iters -> IterStates]
  /\ read \in [lent : SUBSET Blocks, pin : SUBSET Blocks]
  /\ cached \in SUBSET Blocks /\ orphans \in SUBSET Iters

(* What is lent is in the batch, or under the handle, that keeps it; and    *)
(* only during the call that lends it.                                     *)
LentInv ==
  /\ read.lent \subseteq read.pin
  /\ \A i \in Iters : /\ it[i].lent \subseteq it[i].batch
                      /\ it[i].pc # "lent" => it[i].lent = {}

(* The transaction is there while the Option holds it, and the Option is   *)
(* emptied first; a reader inside with found it full.                      *)
OwnerInv ==
  /\ held => owner
  /\ handle # "live" => ~held
  /\ handle = "freed" => ~owner
  /\ \A i \in Iters : it[i].pc = "building" => held

(* An iterator that is not open owns nothing.                              *)
ClosedInv == \A i \in Iters :
  ~Open(i) => it[i].pc = "idle" /\ it[i].cur = {} /\ it[i].batch = {} /\ it[i].stream = FALSE

(* The inductive invariant.                                                *)
LInv == Types /\ LentInv /\ OwnerInv /\ ClosedInv /\ StreamsPinned /\ FateOnce /\ InnerAlive
-----------------------------------------------------------------------------
(* Types are kept by every step.                                           *)
LEMMA TypesStep == ASSUME Types, [Next]_vars PROVE Types'
  <1>1. ASSUME TxnDiscard PROVE Types'
    <2>1. held' = FALSE /\ UNCHANGED <<db, handle, arcs, it, read, cached>>
      BY <1>1 DEF TxnDiscard, Take
    <2>2. fates' \in Int /\ owner' \in BOOLEAN /\ orphans' \in SUBSET Iters
      <3>1. CASE held
        <4>1. owner' = FALSE /\ fates' = fates + 1 /\ orphans' \in SUBSET Iters
          BY <1>1, <3>1, Zenon DEF TxnDiscard, Settle
        <4>2. fates' \in Int
          BY <4>1 DEF Types
        <4>3. QED
          BY <4>1, <4>2
      <3>2. CASE ~held
        BY <1>1, <3>2, Zenon DEF TxnDiscard, Types
      <3>3. QED
        BY <3>1, <3>2
    <2>3. QED
      BY <2>1, <2>2 DEF Types
  <1>2. ASSUME TxnConsume \/ DbClose PROVE Types'
    BY <1>2 DEF TxnConsume, DbClose, Take, txnVars, Types
  <1>3. ASSUME TxnConsumed PROVE Types'
    <2>1. arcs' = arcs - 1 /\ handle' = "freed" /\ UNCHANGED <<db, held, it, read, cached>>
      BY <1>3 DEF TxnConsumed
    <2>2. fates' \in Int /\ owner' \in BOOLEAN /\ orphans' \in SUBSET Iters
      <3>1. CASE owner
        <4>1. owner' = FALSE /\ fates' = fates + 1 /\ orphans' \in SUBSET Iters
          BY <1>3, <3>1, Zenon DEF TxnConsumed, Settle
        <4>2. fates' \in Int
          BY <4>1 DEF Types
        <4>3. QED
          BY <4>1, <4>2
      <3>2. CASE ~owner
        BY <1>3, <3>2, Zenon DEF TxnConsumed, Types
      <3>3. QED
        BY <3>1, <3>2
    <2>3. QED
      BY <2>1, <2>2 DEF Types
  <1>4. CASE Get
    BY <1>4 DEF Get, txnVars, NoRead, Types
  <1>5. CASE CopyEnd \/ ReleaseValue \/ Evict
    BY <1>5 DEF CopyEnd, ReleaseValue, Evict, txnVars, NoRead, Types
  <1>6. ASSUME NEW i \in Iters, OpenOverTxn(i) \/ OpenOverSnapshot(i) PROVE Types'
    BY <1>6 DEF OpenOverTxn, OpenOverSnapshot, txnVars, Types, IterStates
  <1>7. ASSUME NEW i \in Iters, IterOnly(i), it' \in [Iters -> IterStates] PROVE Types'
    <2>1. orphans' \in SUBSET Iters
      BY <1>7, Zenon DEF IterOnly, Types
    <2>2. QED
      BY <1>7, <2>1 DEF IterOnly, txnVars, Types
  <1>8. ASSUME NEW i \in Iters, Reset(i) \/ Build(i) PROVE Types'
    <2>1. CASE Reset(i)
      <3>1. [it[i] EXCEPT !.reset = TRUE, !.batch = {}] \in IterStates
        <4>1. it[i] \in IterStates
          BY DEF Types
        <4>2. QED
          BY <4>1 DEF IterStates
      <3>2. it' \in [Iters -> IterStates]
        BY <2>1, <3>1, Zenon DEF Reset, Types
      <3>3. QED
        BY <2>1, <3>2, <1>7 DEF Reset
    <2>2. CASE Build(i)
      <3>1. [it[i] EXCEPT !.pc = "pull", !.stream = TRUE] \in IterStates
        <4>1. it[i] \in IterStates
          BY DEF Types
        <4>2. QED
          BY <4>1 DEF IterStates
      <3>2. it' \in [Iters -> IterStates]
        BY <2>2, <3>1, Zenon DEF Build, Types
      <3>3. QED
        BY <2>2, <3>2, <1>7 DEF Build
    <2>3. QED
      BY <1>8, <2>1, <2>2
  <1>9. ASSUME NEW i \in Iters, With(i) PROVE Types'
    <2>1. PICK p \in {"building", "idle"} : it' = [it EXCEPT ![i].pc = p]
      BY <1>9, Zenon DEF With
    <2>2. it' \in [Iters -> IterStates]
      BY <2>1 DEF Types, IterStates
    <2>3. QED
      BY <1>9, <2>2, <1>7 DEF With
  <1>10. ASSUME NEW i \in Iters, NEW b \in SUBSET Blocks, NEW p \in {"idle", "lent"}, IterOnly(i),
                it' = [it EXCEPT ![i].pc = p, ![i].lent = b]
         PROVE  Types'
    <2>1. [it[i] EXCEPT !.pc = p, !.lent = b] \in IterStates
      <3>1. it[i] \in IterStates
        BY DEF Types
      <3>2. QED
        BY <3>1 DEF IterStates
    <2>2. it' \in [Iters -> IterStates]
      BY <1>10, <2>1, Zenon DEF Types
    <2>3. QED
      BY <1>10, <2>2, <1>7
  <1>11. ASSUME NEW i \in Iters, Lend(i) \/ LendEnd(i) PROVE Types'
    <2>1. it[i].batch \in SUBSET Blocks
      BY DEF Types, IterStates
    <2>2. QED
      BY <1>11, <2>1, <1>10 DEF Lend, LendEnd
  <1>12. ASSUME NEW i \in Iters, Leave(i) PROVE Types'
    <2>1. PICK c \in {it[i].cur, {}} : it' = [it EXCEPT ![i].pc = "idle", ![i].cur = c]
      BY <1>12 DEF Leave
    <2>2. [it[i] EXCEPT !.pc = "idle", !.cur = c] \in IterStates
      <3>1. it[i] \in IterStates /\ c \in SUBSET Blocks
        BY DEF Types, IterStates
      <3>2. QED
        BY <3>1 DEF IterStates
    <2>3. it' \in [Iters -> IterStates]
      BY <2>1, <2>2, Zenon DEF Types
    <2>4. QED
      BY <1>12, <2>3, <1>7 DEF Leave
  <1>13. ASSUME NEW i \in Iters, NEW o \in {"batch", "seek"}, Enter(i, o) PROVE Types'
    <2>1. PICK p \in {"rebuild", "pull"}, x \in BOOLEAN, c \in {it[i].cur, {}} :
            it' = [it EXCEPT ![i].op = o, ![i].batch = {}, ![i].reset = FALSE,
                             ![i].pc = p, ![i].stream = x, ![i].cur = c]
      BY <1>13, Zenon DEF Enter
    <2>2. [it[i] EXCEPT !.op = o, !.batch = {}, !.reset = FALSE, !.pc = p, !.stream = x, !.cur = c]
            \in IterStates
      <3>1. it[i] \in IterStates /\ c \in SUBSET Blocks
        BY DEF Types, IterStates
      <3>2. QED
        BY <3>1 DEF IterStates
    <2>3. it' \in [Iters -> IterStates]
      BY <2>1, <2>2, Zenon DEF Types
    <2>4. QED
      BY <1>13, <2>3, <1>7 DEF Enter
  <1>15. ASSUME NEW i \in Iters, Pull(i) PROVE Types'
    <2> DEFINE more == it[i].op = "batch"
               p    == IF more THEN "pull" ELSE "idle"
    <2>1. PICK b \in Blocks :
            /\ cached' = cached \cup {b}
            /\ it' = [it EXCEPT ![i].cur = {b}, ![i].batch = IF more THEN @ \cup {b} ELSE @,
                                ![i].pc = p]
      BY <1>15 DEF Pull
    <2>2. [it[i] EXCEPT !.cur = {b}, !.batch = IF more THEN @ \cup {b} ELSE @, !.pc = p]
            \in IterStates
      <3>1. it[i] \in IterStates /\ p \in {"pull", "idle"}
        BY DEF Types
      <3> HIDE DEF more, p
      <3>2. QED
        BY <3>1 DEF IterStates
    <2>3. it' \in [Iters -> IterStates]
      BY <2>1, <2>2, Zenon DEF Types
    <2>4. QED
      BY <1>15, <2>1, <2>3 DEF Pull, txnVars, Types
  <1>14. ASSUME NEW i \in Iters, Close(i) PROVE Types'
    <2>1. it' \in [Iters -> IterStates]
      BY <1>14 DEF Close, NoIter, Types, IterStates
    <2>2. arcs' \in Int /\ orphans' \in SUBSET Iters
      BY <1>14 DEF Close, Types
    <2>3. QED
      BY <1>14, <2>1, <2>2 DEF Close, Types
  <1>16. CASE UNCHANGED vars
    BY <1>16 DEF vars, Types
  <1>17. QED
    BY <1>1, <1>2, <1>3, <1>4, <1>5, <1>6, <1>8, <1>9, <1>11, <1>12, <1>13, <1>14, <1>15,
       <1>16 DEF Next

(* A step of iterator i leaves the others alone.                           *)
LEMMA OthersKeep ==
  ASSUME Types, NEW i \in Iters, NEW j \in Iters \ {i}, NEW o,
         \/ OpenOverTxn(i) \/ OpenOverSnapshot(i) \/ Reset(i) \/ Enter(i, o) \/ With(i) \/ Build(i)
         \/ Pull(i) \/ Leave(i) \/ Lend(i) \/ LendEnd(i) \/ Close(i)
  PROVE  it'[j] = it[j]
  BY Zenon DEF Types, OpenOverTxn, OpenOverSnapshot, Reset, Enter, With, Build, Pull, Leave, Lend,
               LendEnd, Close

(* What a step of iterator i makes of its own fields, one fact per action. *)
LEMMA OpenEffect ==
  ASSUME Types, NEW i \in Iters, OpenOverTxn(i) \/ OpenOverSnapshot(i)
  PROVE  /\ it[i].over = "none" /\ it'[i].over = (IF OpenOverTxn(i) THEN "txn" ELSE "snapshot")
         /\ it'[i].pc = it[i].pc /\ it'[i].lent = it[i].lent /\ it'[i].batch = it[i].batch
         /\ it'[i].cur = it[i].cur
         /\ OpenOverTxn(i) => it'[i].stream = it[i].stream
  BY DEF Types, IterStates, OpenOverTxn, OpenOverSnapshot

(* A reset drops the batch and leaves the rest.                            *)
LEMMA ResetEffect ==
  ASSUME Types, NEW i \in Iters, Reset(i)
  PROVE  /\ it[i].pc = "idle" /\ it'[i].pc = "idle" /\ it'[i].over = it[i].over
         /\ it'[i].lent = it[i].lent /\ it'[i].cur = it[i].cur /\ it'[i].batch = {}
         /\ it'[i].stream = it[i].stream
  BY DEF Types, IterStates, Reset, Idle

(* A batch or seek drops the batch before, and a rebuild the stream.       *)
LEMMA EnterEffect ==
  ASSUME Types, NEW i \in Iters, NEW o, Enter(i, o)
  PROVE  /\ Idle(i) /\ it'[i].pc \in {"rebuild", "pull"} /\ it'[i].over = it[i].over
         /\ it'[i].lent = it[i].lent /\ it'[i].batch = {}
         /\ it'[i].stream = FALSE \/ it'[i].stream = it[i].stream
  BY DEF Types, IterStates, Enter

(* A rebuild goes on only while the Option is full.                        *)
LEMMA WithEffect ==
  ASSUME Types, NEW i \in Iters, With(i)
  PROVE  /\ it[i].pc = "rebuild" /\ it'[i].pc = (IF held THEN "building" ELSE "idle")
         /\ it'[i].over = it[i].over /\ it'[i].lent = it[i].lent /\ it'[i].batch = it[i].batch
         /\ it'[i].cur = it[i].cur /\ it'[i].stream = it[i].stream
  BY DEF Types, IterStates, With

(* The stream is built by an iterator that found the Option full.          *)
LEMMA BuildEffect ==
  ASSUME Types, NEW i \in Iters, Build(i)
  PROVE  /\ it[i].pc = "building" /\ it'[i].pc = "pull"
         /\ it'[i].over = it[i].over /\ it'[i].lent = it[i].lent /\ it'[i].batch = it[i].batch
         /\ it'[i].cur = it[i].cur
  BY DEF Types, IterStates, Build

(* The entry pulled is held, and retained by a batch.                      *)
LEMMA PullEffect ==
  ASSUME Types, NEW i \in Iters, Pull(i)
  PROVE  /\ it[i].pc = "pull" /\ it'[i].pc \in {"pull", "idle"}
         /\ it'[i].over = it[i].over /\ it'[i].lent = it[i].lent
         /\ it[i].batch \subseteq it'[i].batch /\ it'[i].stream = it[i].stream
  <1>1. PICK b \in Blocks :
          it' = [it EXCEPT ![i].cur = {b}, ![i].batch = IF it[i].op = "batch" THEN @ \cup {b} ELSE @,
                           ![i].pc = IF it[i].op = "batch" THEN "pull" ELSE "idle"]
    BY DEF Pull
  <1>2. CASE it[i].op = "batch"
    <2>1. it' = [it EXCEPT ![i].cur = {b}, ![i].batch = @ \cup {b}, ![i].pc = "pull"]
      BY <1>1, <1>2
    <2>2. /\ it'[i].pc = "pull" /\ it'[i].over = it[i].over /\ it'[i].lent = it[i].lent
          /\ it'[i].batch = it[i].batch \cup {b} /\ it'[i].stream = it[i].stream
      BY <2>1 DEF Types, IterStates
    <2>3. QED
      BY <2>2 DEF Pull
  <1>3. CASE it[i].op # "batch"
    BY <1>1, <1>3 DEF Types, IterStates, Pull
  <1>4. QED
    BY <1>2, <1>3

(* Leaving a call at most drops the current entry.                         *)
LEMMA LeaveEffect ==
  ASSUME Types, NEW i \in Iters, Leave(i)
  PROVE  /\ it[i].pc = "pull" /\ it'[i].pc = "idle"
         /\ it'[i].over = it[i].over /\ it'[i].lent = it[i].lent /\ it'[i].batch = it[i].batch
         /\ it'[i].stream = it[i].stream
  BY DEF Types, IterStates, Leave

(* What is lent comes from the batch.                                      *)
LEMMA LendEffect ==
  ASSUME Types, NEW i \in Iters, Lend(i) \/ LendEnd(i)
  PROVE  /\ Idle(i) \/ it[i].pc = "lent"
         /\ it'[i].over = it[i].over /\ it'[i].batch = it[i].batch
         /\ it'[i].cur = it[i].cur /\ it'[i].stream = it[i].stream
         /\ \/ it'[i].pc = "lent" /\ it'[i].lent \subseteq it[i].batch
            \/ it'[i].pc = "idle" /\ it'[i].lent = {}
  BY DEF Types, IterStates, Lend, LendEnd, Idle

(* A closed iterator owns nothing.                                         *)
LEMMA CloseEffect ==
  ASSUME Types, NEW i \in Iters, Close(i)
  PROVE  /\ Idle(i) /\ it'[i].over = "closed" /\ it'[i].pc = "idle" /\ it'[i].lent = {}
         /\ it'[i].batch = {} /\ it'[i].cur = {} /\ it'[i].stream = FALSE
  BY DEF Types, IterStates, Close, NoIter

(* Steps that touch no iterator, and what they do to a point read.         *)
NoIterStep == TxnDiscard \/ TxnConsume \/ TxnConsumed \/ DbClose
              \/ Get \/ CopyEnd \/ ReleaseValue \/ Evict

(* A step of no iterator leaves all of them alone.                         *)
LEMMA IterKeeps == ASSUME NoIterStep PROVE it' = it
  BY DEF NoIterStep, TxnDiscard, TxnConsume, TxnConsumed, DbClose, Get, CopyEnd, ReleaseValue, Evict

(* What is lent stays in its batch, or under its handle.                   *)
LEMMA LentStep == ASSUME Types, LentInv, [Next]_vars PROVE LentInv'
  <1> DEFINE L(j) == it[j].lent \subseteq it[j].batch /\ (it[j].pc # "lent" => it[j].lent = {})
  <1>1. ASSUME NEW i \in Iters, NEW o \in {"batch", "seek"},
               \/ OpenOverTxn(i) \/ OpenOverSnapshot(i) \/ Reset(i) \/ Enter(i, o) \/ With(i)
               \/ Build(i) \/ Pull(i) \/ Leave(i) \/ Lend(i) \/ LendEnd(i) \/ Close(i)
        PROVE  LentInv'
    <2>1. L(i)
      BY DEF LentInv
    <2>2. L(i)'
      <3>1. CASE OpenOverTxn(i) \/ OpenOverSnapshot(i)
        BY <2>1, <3>1, OpenEffect
      <3>2. CASE Reset(i)
        BY <2>1, <3>2, ResetEffect
      <3>3. CASE Enter(i, o)
        BY <2>1, <3>3, EnterEffect DEF Idle
      <3>4. CASE With(i)
        BY <2>1, <3>4, WithEffect
      <3>5. CASE Build(i)
        BY <2>1, <3>5, BuildEffect
      <3>6. CASE Pull(i)
        BY <2>1, <3>6, PullEffect
      <3>7. CASE Leave(i)
        BY <2>1, <3>7, LeaveEffect
      <3>8. CASE Lend(i) \/ LendEnd(i)
        BY <2>1, <3>8, LendEffect
      <3>9. CASE Close(i)
        BY <2>1, <3>9, CloseEffect
      <3>10. QED
        BY <1>1, <3>1, <3>2, <3>3, <3>4, <3>5, <3>6, <3>7, <3>8, <3>9
    <2>3. ASSUME NEW j \in Iters \ {i} PROVE L(j)'
      BY <1>1, <2>3, OthersKeep DEF LentInv
    <2>4. read' = read
      BY <1>1 DEF OpenOverTxn, OpenOverSnapshot, Reset, Enter, With, Build, Pull, Leave, Lend, LendEnd,
                  Close, IterOnly
    <2>5. QED
      BY <2>2, <2>3, <2>4 DEF LentInv
  <1>2. CASE NoIterStep
    <2>1. it' = it
      BY <1>2, IterKeeps
    <2>2. read'.lent \subseteq read'.pin
      BY <1>2 DEF NoIterStep, TxnDiscard, TxnConsume, TxnConsumed, DbClose, Get, CopyEnd, ReleaseValue,
                  Evict, NoRead, LentInv, Types
    <2>3. QED
      BY <2>1, <2>2 DEF LentInv
  <1>3. CASE UNCHANGED vars
    BY <1>3 DEF vars, LentInv
  <1>4. QED
    BY <1>1, <1>2, <1>3 DEF Next, NoIterStep

(* The Option is full while a reader builds a stream from it.              *)
LEMMA OwnerStep == ASSUME Types, OwnerInv, ClosedInv, [Next]_vars PROVE OwnerInv'
  <1> DEFINE B(j) == it[j].pc = "building" => held
  <1>1. ASSUME NEW i \in Iters, NEW o \in {"batch", "seek"},
               \/ OpenOverTxn(i) \/ OpenOverSnapshot(i) \/ Reset(i) \/ Enter(i, o) \/ With(i)
               \/ Build(i) \/ Pull(i) \/ Leave(i) \/ Lend(i) \/ LendEnd(i) \/ Close(i)
        PROVE  OwnerInv'
    <2>1. UNCHANGED <<handle, held, owner>>
      BY <1>1 DEF OpenOverTxn, OpenOverSnapshot, Reset, Enter, With, Build, Pull, Leave, Lend, LendEnd,
                  Close, IterOnly, txnVars
    <2>2. B(i)'
      <3>1. CASE OpenOverTxn(i) \/ OpenOverSnapshot(i)
        BY <2>1, <3>1, OpenEffect DEF OwnerInv
      <3>2. CASE Reset(i)
        BY <3>2, ResetEffect
      <3>3. CASE Enter(i, o)
        BY <3>3, EnterEffect
      <3>4. CASE With(i)
        BY <2>1, <3>4, WithEffect
      <3>5. CASE Build(i)
        BY <3>5, BuildEffect
      <3>6. CASE Pull(i)
        BY <3>6, PullEffect
      <3>7. CASE Leave(i)
        BY <3>7, LeaveEffect
      <3>8. CASE Lend(i) \/ LendEnd(i)
        BY <3>8, LendEffect
      <3>9. CASE Close(i)
        BY <3>9, CloseEffect
      <3>10. QED
        BY <1>1, <3>1, <3>2, <3>3, <3>4, <3>5, <3>6, <3>7, <3>8, <3>9
    <2>3. ASSUME NEW j \in Iters \ {i} PROVE B(j)'
      BY <1>1, <2>1, <2>3, OthersKeep DEF OwnerInv
    <2>4. QED
      BY <2>1, <2>2, <2>3 DEF OwnerInv
  <1>2. CASE TxnDiscard \/ TxnConsume \/ TxnConsumed
    BY <1>2 DEF TxnDiscard, TxnConsume, TxnConsumed, Take, Quiet, Settle, OwnerInv, Types
  <1>3. CASE DbClose \/ Get \/ CopyEnd \/ ReleaseValue \/ Evict
    BY <1>3 DEF DbClose, Get, CopyEnd, ReleaseValue, Evict, txnVars, OwnerInv
  <1>4. CASE UNCHANGED vars
    BY <1>4 DEF vars, OwnerInv
  <1>5. QED
    BY <1>1, <1>2, <1>3, <1>4 DEF Next

(* An iterator that is not open owns nothing and is in no call.            *)
LEMMA ClosedStep == ASSUME Types, ClosedInv, [Next]_vars PROVE ClosedInv'
  <1> DEFINE D(j) == it[j].pc = "idle" /\ it[j].cur = {} /\ it[j].batch = {} /\ it[j].stream = FALSE
  <1>1. ASSUME NEW i \in Iters, NEW o \in {"batch", "seek"},
               \/ OpenOverTxn(i) \/ OpenOverSnapshot(i) \/ Reset(i) \/ Enter(i, o) \/ With(i)
               \/ Build(i) \/ Pull(i) \/ Leave(i) \/ Lend(i) \/ LendEnd(i) \/ Close(i)
        PROVE  ClosedInv'
    <2>1. ~Open(i) => D(i)
      BY DEF ClosedInv
    <2>2. ~Open(i)' => D(i)'
      <3>1. CASE OpenOverTxn(i) \/ OpenOverSnapshot(i)
        BY <3>1, OpenEffect DEF Open
      <3>2. CASE Reset(i)
        BY <3>2, ResetEffect DEF Open, Reset, Idle
      <3>3. CASE Enter(i, o)
        BY <3>3, EnterEffect DEF Open, Idle
      <3>4. CASE With(i)
        BY <2>1, <3>4, WithEffect DEF Open
      <3>5. CASE Build(i)
        BY <2>1, <3>5, BuildEffect DEF Open
      <3>6. CASE Pull(i)
        BY <2>1, <3>6, PullEffect DEF Open
      <3>7. CASE Leave(i)
        BY <2>1, <3>7, LeaveEffect DEF Open
      <3>8. CASE Lend(i) \/ LendEnd(i)
        BY <2>1, <3>8, LendEffect DEF Open, Idle
      <3>9. CASE Close(i)
        BY <3>9, CloseEffect
      <3>10. QED
        BY <1>1, <3>1, <3>2, <3>3, <3>4, <3>5, <3>6, <3>7, <3>8, <3>9
    <2>3. ASSUME NEW j \in Iters \ {i} PROVE ~Open(j)' => D(j)'
      BY <1>1, <2>3, OthersKeep DEF ClosedInv, Open
    <2>4. QED
      BY <2>2, <2>3 DEF ClosedInv
  <1>2. CASE NoIterStep
    BY <1>2, IterKeeps DEF ClosedInv, Open
  <1>3. CASE UNCHANGED vars
    BY <1>3 DEF vars, ClosedInv, Open
  <1>4. QED
    BY <1>1, <1>2, <1>3 DEF Next, NoIterStep

(* A stream is built under the read lock from a full Option, and the pin   *)
(* goes only when the Option has been emptied.                             *)
LEMMA PinStep ==
  ASSUME Types, OwnerInv, ClosedInv, StreamsPinned, [Next]_vars PROVE StreamsPinned'
  <1> DEFINE P(j) == OverTxn(j) /\ it[j].stream = TRUE => owner \/ j \in orphans
  <1>1. StreamsPinned <=> \A j \in Iters : P(j)
    BY DEF StreamsPinned, Types, IterStates
  <1>2. Types' /\ (StreamsPinned' <=> \A j \in Iters : P(j)')
    BY TypesStep DEF StreamsPinned, Types, IterStates
  <1>3. ASSUME NEW i \in Iters, NEW o \in {"batch", "seek"},
               \/ OpenOverTxn(i) \/ OpenOverSnapshot(i) \/ Reset(i) \/ Enter(i, o) \/ With(i)
               \/ Build(i) \/ Pull(i) \/ Leave(i) \/ Lend(i) \/ LendEnd(i) \/ Close(i)
        PROVE  StreamsPinned'
    <2>1. owner' = owner /\ orphans \ {i} \subseteq orphans'
      BY <1>3, Zenon DEF OpenOverTxn, OpenOverSnapshot, Reset, Enter, With, Build, Pull, Leave, Lend,
                         LendEnd, Close, IterOnly, txnVars
    <2>2. P(i)'
      <3>1. CASE OpenOverTxn(i) \/ OpenOverSnapshot(i)
        <4>1. CASE OpenOverTxn(i)
          <5>1. ~Open(i) /\ it'[i].stream = it[i].stream
            BY <4>1, OpenEffect DEF Open
          <5>2. it[i].stream = FALSE
            BY <5>1 DEF ClosedInv
          <5>3. QED
            BY <5>1, <5>2
        <4>2. CASE ~OpenOverTxn(i)
          <5>1. it'[i].over = "snapshot"
            BY <3>1, <4>2, OpenEffect
          <5>2. QED
            BY <5>1 DEF OverTxn
        <4>3. QED
          BY <4>1, <4>2
      <3>2. CASE IterOnly(i) /\ (it'[i].stream = FALSE \/ it'[i].stream = it[i].stream)
                             /\ it'[i].over = it[i].over
        BY <1>1, <2>1, <3>2 DEF IterOnly, OverTxn
      <3>3. CASE Reset(i) \/ With(i) \/ Leave(i) \/ Lend(i) \/ LendEnd(i)
        BY <3>2, <3>3, ResetEffect, WithEffect, LeaveEffect, LendEffect
           DEF Reset, With, Leave, Lend, LendEnd
      <3>4. CASE Enter(i, o)
        BY <3>2, <3>4, EnterEffect DEF Enter
      <3>5. CASE Build(i)
        BY <2>1, <3>5, BuildEffect DEF OwnerInv
      <3>6. CASE Pull(i)
        BY <1>1, <2>1, <3>6, PullEffect DEF Pull, OverTxn
      <3>7. CASE Close(i)
        BY <3>7, CloseEffect
      <3>8. QED
        BY <1>3, <3>1, <3>3, <3>4, <3>5, <3>6, <3>7
    <2>3. ASSUME NEW j \in Iters \ {i} PROVE P(j)'
      BY <1>1, <1>3, <2>1, <2>3, OthersKeep DEF OverTxn
    <2>4. QED
      BY <1>2, <2>2, <2>3
  <1>4. ASSUME Settle, it' = it PROVE StreamsPinned'
    BY <1>2, <1>4 DEF Settle, OverTxn
  <1>5. ASSUME UNCHANGED <<owner, orphans, it>> PROVE StreamsPinned'
    BY <1>5 DEF StreamsPinned, OverTxn
  <1>6. CASE NoIterStep
    BY <1>4, <1>5, <1>6 DEF NoIterStep, TxnDiscard, TxnConsume, TxnConsumed, DbClose, Get, CopyEnd,
                            ReleaseValue, Evict, txnVars
  <1>7. CASE UNCHANGED vars
    BY <1>5, <1>7 DEF vars
  <1>8. QED
    BY <1>3, <1>6, <1>7 DEF Next, NoIterStep

(* The engine hears of a transaction's fate when its owner goes, once.     *)
LEMMA FateStep == ASSUME Types, OwnerInv, FateOnce, [Next]_vars PROVE FateOnce'
  <1>1. ASSUME UNCHANGED <<owner, fates>> PROVE FateOnce'
    BY <1>1 DEF FateOnce
  <1>2. CASE TxnDiscard
    BY <1>2 DEF TxnDiscard, Take, Settle, OwnerInv, FateOnce, Types
  <1>3. CASE TxnConsumed
    BY <1>3 DEF TxnConsumed, Settle, FateOnce, Types
  <1>4. CASE TxnConsume \/ DbClose \/ Get \/ CopyEnd \/ ReleaseValue \/ Evict
    BY <1>1, <1>4 DEF TxnConsume, DbClose, Get, CopyEnd, ReleaseValue, Evict, txnVars
  <1>5. ASSUME NEW i \in Iters, NEW o \in {"batch", "seek"},
               \/ OpenOverTxn(i) \/ OpenOverSnapshot(i) \/ Reset(i) \/ Enter(i, o) \/ With(i)
               \/ Build(i) \/ Pull(i) \/ Leave(i) \/ Lend(i) \/ LendEnd(i) \/ Close(i)
        PROVE  FateOnce'
    BY <1>1, <1>5 DEF OpenOverTxn, OpenOverSnapshot, Reset, Enter, With, Build, Pull, Leave, Lend, LendEnd,
                      Close, IterOnly, txnVars
  <1>6. CASE UNCHANGED vars
    BY <1>1, <1>6 DEF vars
  <1>7. QED
    BY <1>2, <1>3, <1>4, <1>5, <1>6 DEF Next

(* The iterators that hold the shared body.                                *)
Holders == {i \in Iters : OverTxn(i)}

(* The holders of the body can be counted.                                 *)
LEMMA HoldersFinite == IsFiniteSet(Holders) /\ Cardinality(Holders) \in Nat
  BY ItersAssumption, FS_Subset, FS_CardinalityType DEF Holders

(* The strong count is the box and the iterators that hold the body.       *)
LEMMA ArcStep == ASSUME Types, InnerAlive, [Next]_vars PROVE InnerAlive'
  <1> DEFINE box == IF handle = "freed" THEN 0 ELSE 1
  <1>1. arcs = Cardinality(Holders) + box
    BY DEF InnerAlive, Holders
  <1>2. SUFFICES arcs' = Cardinality(Holders') + box'
    BY DEF InnerAlive, Holders
  <1>3. ASSUME UNCHANGED <<arcs, handle>>, \A i \in Iters : OverTxn(i)' <=> OverTxn(i)
        PROVE  arcs' = Cardinality(Holders') + box'
    <2>1. Holders' = Holders
      BY <1>3 DEF Holders
    <2>2. QED
      BY <1>1, <1>3, <2>1
  <1>4. ASSUME NEW i \in Iters, OpenOverTxn(i) PROVE arcs' = Cardinality(Holders') + box'
    <2>1. it[i].over = "none" /\ it'[i].over = "txn"
      BY <1>4, OpenEffect
    <2>2. \A j \in Iters \ {i} : it'[j] = it[j]
      BY <1>4, OthersKeep
    <2>3. Holders' = Holders \cup {i} /\ i \notin Holders
      BY <2>1, <2>2 DEF Holders, OverTxn
    <2>4. Cardinality(Holders') = Cardinality(Holders) + 1
      BY <2>3, HoldersFinite, FS_AddElement
    <2>5. arcs' = arcs + 1 /\ handle' = handle
      BY <1>4 DEF OpenOverTxn
    <2>6. QED
      BY <1>1, <2>4, <2>5, HoldersFinite
  <1>5. ASSUME NEW i \in Iters, Close(i) PROVE arcs' = Cardinality(Holders') + box'
    <2>1. it'[i].over = "closed" /\ handle' = handle
      BY <1>5, CloseEffect DEF Close
    <2>2. \A j \in Iters \ {i} : it'[j] = it[j]
      BY <1>5, OthersKeep
    <2>3. Holders' = Holders \ {i}
      BY <2>1, <2>2 DEF Holders, OverTxn
    <2>4. CASE OverTxn(i)
      <3>1. Cardinality(Holders') = Cardinality(Holders) - 1
        BY <2>3, <2>4, HoldersFinite, FS_RemoveElement DEF Holders
      <3>2. arcs' = arcs - 1
        BY <1>5, <2>4 DEF Close
      <3>3. QED
        BY <1>1, <2>1, <3>1, <3>2, HoldersFinite
    <2>5. CASE ~OverTxn(i)
      <3>1. Holders' = Holders
        BY <2>3, <2>5 DEF Holders
      <3>2. arcs' = arcs
        BY <1>5, <2>5 DEF Close
      <3>3. QED
        BY <1>1, <2>1, <3>1, <3>2
    <2>6. QED
      BY <2>4, <2>5
  <1>6. ASSUME NEW i \in Iters, NEW o \in {"batch", "seek"},
               \/ OpenOverSnapshot(i) \/ Reset(i) \/ Enter(i, o) \/ With(i)
               \/ Build(i) \/ Pull(i) \/ Leave(i) \/ Lend(i) \/ LendEnd(i)
        PROVE  arcs' = Cardinality(Holders') + box'
    <2>1. UNCHANGED <<arcs, handle>>
      BY <1>6 DEF OpenOverSnapshot, Reset, Enter, With, Build, Pull, Leave, Lend, LendEnd, IterOnly, txnVars
    <2>2. OverTxn(i)' <=> OverTxn(i)
      <3>1. CASE OpenOverSnapshot(i)
        BY <3>1 DEF OpenOverSnapshot, OverTxn, Types, IterStates
      <3>2. CASE ~OpenOverSnapshot(i)
        <4>1. it'[i].over = it[i].over
          BY <1>6, <3>2, ResetEffect, EnterEffect, WithEffect, BuildEffect, PullEffect, LeaveEffect,
             LendEffect
        <4>2. QED
          BY <4>1 DEF OverTxn
      <3>3. QED
        BY <3>1, <3>2
    <2>3. \A j \in Iters \ {i} : it'[j] = it[j]
      BY <1>6, OthersKeep
    <2>4. QED
      BY <1>3, <2>1, <2>2, <2>3 DEF OverTxn
  <1>7. CASE TxnConsumed
    <2>1. handle = "consuming" /\ handle' = "freed" /\ arcs' = arcs - 1 /\ it' = it
      BY <1>7 DEF TxnConsumed
    <2>2. Holders' = Holders
      BY <2>1 DEF Holders, OverTxn
    <2>3. QED
      BY <1>1, <2>1, <2>2, HoldersFinite
  <1>8. CASE TxnConsume
    <2>1. handle = "live" /\ handle' = "consuming" /\ arcs' = arcs /\ it' = it
      BY <1>8 DEF TxnConsume
    <2>2. Holders' = Holders
      BY <2>1 DEF Holders, OverTxn
    <2>3. QED
      BY <1>1, <2>1, <2>2
  <1>9. CASE TxnDiscard \/ DbClose \/ Get \/ CopyEnd \/ ReleaseValue \/ Evict
    <2>1. UNCHANGED <<arcs, handle, it>>
      BY <1>9 DEF TxnDiscard, DbClose, Get, CopyEnd, ReleaseValue, Evict, txnVars
    <2>2. QED
      BY <1>3, <2>1 DEF OverTxn
  <1>10. CASE UNCHANGED vars
    BY <1>3, <1>10 DEF vars, OverTxn
  <1>11. QED
    BY <1>4, <1>5, <1>6, <1>7, <1>8, <1>9, <1>10 DEF Next
-----------------------------------------------------------------------------
(* The invariant holds in every reachable state.                           *)
THEOREM LifetimesInductive == Spec => []LInv
  <1>1. Init => LInv
    <2> SUFFICES ASSUME Init PROVE LInv
      OBVIOUS
    <2>1. Types
      <3>1. NoIter \in IterStates
        BY DEF NoIter, IterStates
      <3>2. it \in [Iters -> IterStates]
        BY <3>1 DEF Init
      <3>3. QED
        BY <3>2 DEF Init, Types, NoRead
    <2>2. \A i \in Iters : it[i] = NoIter
      BY DEF Init
    <2>3. LentInv /\ OwnerInv /\ ClosedInv /\ StreamsPinned /\ FateOnce
      BY <2>2 DEF Init, LentInv, OwnerInv, ClosedInv, StreamsPinned, FateOnce, NoIter, NoRead, OverTxn
    <2>4. InnerAlive
      <3>1. {i \in Iters : OverTxn(i)} = {}
        BY <2>2 DEF NoIter, OverTxn
      <3>2. QED
        BY <3>1, FS_EmptySet DEF Init, InnerAlive
    <2>5. QED
      BY <2>1, <2>3, <2>4 DEF LInv
  <1>2. LInv /\ [Next]_vars => LInv'
    BY TypesStep, LentStep, OwnerStep, ClosedStep, PinStep, FateStep, ArcStep DEF LInv
  <1>3. QED
    BY <1>1, <1>2, PTL DEF Spec

(* Bytes Go reads lie in a block that a batch or a value handle pins       *)
(* (regolith.go:641-654, iter.go:288-346).                                 *)
THEOREM LentBytesStay == Spec => []LentBytesResident
  <1>1. LInv => LentBytesResident
    BY DEF LInv, LentInv, LentBytesResident, Resident
  <1>2. QED
    BY LifetimesInductive, <1>1, PTL

(* An iterator can always go back to the body it rebuilds from             *)
(* (txn.rs:22-28).                                                         *)
THEOREM BodyOutlivesBox == Spec => []InnerAlive
  BY LifetimesInductive, PTL DEF LInv

(* No stream is built without the pin of a transaction that still owns it  *)
(* (iter.rs:389-410).                                                      *)
THEOREM StreamsArePinned == Spec => []StreamsPinned
  BY LifetimesInductive, PTL DEF LInv

(* The engine commits or rolls back a transaction once (txn.rs:243-311).   *)
THEOREM ResolvedOnce == Spec => []FateOnce
  BY LifetimesInductive, PTL DEF LInv

(* When everybody has let go, nothing is left.                             *)
THEOREM NothingIsLeft == Spec => []NothingLeft
  <1>1. LInv => NothingLeft
    <2> SUFFICES ASSUME LInv, \A i \in Iters : ~Open(i), handle = "freed", read = NoRead
                 PROVE  Resident = cached /\ arcs = 0 /\ ~held /\ ~owner /\ fates = 1
      BY DEF NothingLeft
    <2>1. ~held /\ ~owner
      BY DEF LInv, OwnerInv, Types
    <2>2. fates = 1
      BY <2>1 DEF LInv, FateOnce
    <2>3. arcs = 0
      <3>1. {i \in Iters : OverTxn(i)} = {}
        BY DEF Open, OverTxn
      <3>2. QED
        BY <3>1, FS_EmptySet DEF LInv, InnerAlive
    <2>4. \A i \in Iters : it[i].cur \cup it[i].batch = {}
      BY DEF LInv, ClosedInv
    <2>5. Resident = cached
      BY <2>4, Zenon DEF Resident, NoRead
    <2>6. QED
      BY <2>1, <2>2, <2>3, <2>5
  <1>2. QED
    BY LifetimesInductive, <1>1, PTL
-----------------------------------------------------------------------------
(* An iterator stands on one entry at most.                                *)
OneEntry == \A i \in Iters : it[i].cur = {} \/ \E b \in Blocks : it[i].cur = {b}

(* Entering, pulling and leaving keep, replace or drop the entry.          *)
LEMMA EntryMoves ==
  ASSUME Types, NEW i \in Iters, NEW o \in {"batch", "seek"}, Enter(i, o) \/ Pull(i) \/ Leave(i)
  PROVE  it'[i].cur \in {it[i].cur, {}} \/ \E b \in Blocks : it'[i].cur = {b}
  <1>1. CASE Enter(i, o)
    <2>1. PICK p \in {"rebuild", "pull"}, x \in BOOLEAN, c \in {it[i].cur, {}} :
            it' = [it EXCEPT ![i].op = o, ![i].batch = {}, ![i].reset = FALSE,
                             ![i].pc = p, ![i].stream = x, ![i].cur = c]
      BY <1>1, Zenon DEF Enter
    <2>2. it'[i].cur = c
      BY <2>1 DEF Types, IterStates
    <2>3. QED
      BY <2>2
  <1>2. CASE Pull(i)
    <2> DEFINE more == it[i].op = "batch"
               p    == IF more THEN "pull" ELSE "idle"
    <2>1. PICK b \in Blocks :
            it' = [it EXCEPT ![i].cur = {b}, ![i].batch = IF more THEN @ \cup {b} ELSE @, ![i].pc = p]
      BY <1>2 DEF Pull
    <2>2. it'[i].cur = {b}
      <3> HIDE DEF more, p
      <3>1. QED
        BY <2>1 DEF Types, IterStates
    <2>3. QED
      BY <2>2
  <1>3. CASE Leave(i)
    <2>1. PICK c \in {it[i].cur, {}} : it' = [it EXCEPT ![i].pc = "idle", ![i].cur = c]
      BY <1>3 DEF Leave
    <2>2. it'[i].cur = c
      BY <2>1 DEF Types, IterStates
    <2>3. QED
      BY <2>2
  <1>4. QED
    BY <1>1, <1>2, <1>3

(* No step gives an iterator a second entry.                               *)
LEMMA EntryStep == ASSUME Types, OneEntry, [Next]_vars PROVE OneEntry'
  <1>1. ASSUME NEW i \in Iters, NEW o \in {"batch", "seek"},
               \/ OpenOverTxn(i) \/ OpenOverSnapshot(i) \/ Reset(i) \/ Enter(i, o) \/ With(i)
               \/ Build(i) \/ Pull(i) \/ Leave(i) \/ Lend(i) \/ LendEnd(i) \/ Close(i)
        PROVE  OneEntry'
    <2>1. it'[i].cur \in {it[i].cur, {}} \/ \E b \in Blocks : it'[i].cur = {b}
      <3>1. CASE OpenOverTxn(i) \/ OpenOverSnapshot(i)
        BY <3>1, OpenEffect
      <3>2. CASE Reset(i)
        BY <3>2, ResetEffect
      <3>3. CASE Enter(i, o) \/ Pull(i) \/ Leave(i)
        BY <3>3, EntryMoves
      <3>4. CASE With(i)
        BY <3>4, WithEffect
      <3>5. CASE Build(i)
        BY <3>5, BuildEffect
      <3>6. CASE Lend(i) \/ LendEnd(i)
        BY <3>6, LendEffect
      <3>7. CASE Close(i)
        BY <3>7, CloseEffect
      <3>8. QED
        BY <1>1, <3>1, <3>2, <3>3, <3>4, <3>5, <3>6, <3>7
    <2>2. ASSUME NEW j \in Iters \ {i} PROVE it'[j] = it[j]
      BY <1>1, <2>2, OthersKeep
    <2>3. QED
      BY <2>1, <2>2 DEF OneEntry
  <1>2. CASE NoIterStep \/ UNCHANGED vars
    <2>1. it' = it
      BY <1>2, IterKeeps DEF vars
    <2>2. QED
      BY <2>1 DEF OneEntry
  <1>3. QED
    BY <1>1, <1>2 DEF Next, NoIterStep

(* Counts stay in their ranges, and nothing is pinned by an iterator but    *)
(* its one current entry and its batch (iter.rs:104-131, txn.rs:22-28).    *)
THEOREM LifetimesTypeCorrect == Spec => []TypeOK
  <1>1. Init => OneEntry
    BY DEF Init, NoIter, OneEntry
  <1>2. LInv /\ OneEntry /\ [Next]_vars => OneEntry'
    BY EntryStep DEF LInv
  <1>3. LInv /\ OneEntry => TypeOK
    <2> SUFFICES ASSUME LInv, OneEntry PROVE TypeOK
      OBVIOUS
    <2>1. Types
      BY DEF LInv
    <2>2. arcs \in 0..Cardinality(Iters) + 1
      <3> DEFINE over == {i \in Iters : OverTxn(i)}
      <3>1. over \subseteq Iters
        OBVIOUS
      <3>2. /\ Cardinality(over) \in Nat /\ Cardinality(Iters) \in Nat
            /\ Cardinality(over) <= Cardinality(Iters)
        BY <3>1, ItersAssumption, FS_Subset, FS_CardinalityType
      <3>3. arcs = Cardinality(over) + IF handle = "freed" THEN 0 ELSE 1
        BY DEF LInv, InnerAlive
      <3> HIDE DEF over
      <3>4. QED
        BY <3>2, <3>3
    <2>3. fates \in 0..2
      BY DEF LInv, FateOnce
    <2>4. ASSUME NEW i \in Iters PROVE Cardinality(it[i].cur) <= 1
      <3>1. CASE it[i].cur = {}
        BY <3>1, FS_EmptySet
      <3>2. CASE \E b \in Blocks : it[i].cur = {b}
        <4>1. PICK b \in Blocks : it[i].cur = {b}
          BY <3>2
        <4>2. Cardinality(it[i].cur) = 1
          BY <4>1, FS_Singleton
        <4>3. QED
          BY <4>2
      <3>3. QED
        BY <3>1, <3>2 DEF OneEntry
    <2>5. ASSUME NEW i \in Iters
          PROVE  /\ it[i].over \in {"none", "snapshot", "txn", "closed"}
                 /\ it[i].pc \in {"idle", "rebuild", "building", "pull", "lent"}
                 /\ it[i].cur \cup it[i].batch \cup it[i].lent \subseteq Blocks
      BY <2>1 DEF Types, IterStates
    <2>6. QED
      BY <2>1, <2>2, <2>3, <2>4, <2>5 DEF Types, TypeOK
  <1>4. QED
    BY <1>1, <1>2, <1>3, LifetimesInductive, PTL DEF Spec
=============================================================================
