------------------------------ MODULE RWMutex ------------------------------
(***************************************************************************)
(* A value of Go's sync.RWMutex, as regolith.go relies on it.  The library *)
(* is outside src/; what is modelled is its documented contract:           *)
(*                                                                         *)
(*  - Lock first announces itself (one announced writer at a time) and     *)
(*    then waits for the readers that hold the lock to drain;              *)
(*  - an RLock that arrives after the announcement queues behind it;       *)
(*  - Unlock hands the lock to every queued reader at once, so the next    *)
(*    writer waits for them.                                               *)
(***************************************************************************)
CONSTANTS Threads,   \* the goroutines
          NoThread   \* "no writer has announced itself"

ASSUME NoThreadAssumption == NoThread \notin Threads

Mutex == [ writer  : Threads \cup {NoThread},
           readers : SUBSET Threads,
           queued  : SUBSET Threads ]

Unlocked == [writer |-> NoThread, readers |-> {}, queued |-> {}]

(* RLock: hold the lock, or queue behind the announced writer. *)
RLock(m, t) == IF m.writer = NoThread
                 THEN [m EXCEPT !.readers = @ \cup {t}]
                 ELSE [m EXCEPT !.queued  = @ \cup {t}]

RUnlock(m, t) == [m EXCEPT !.readers = @ \ {t}]

CanAnnounce(m) == m.writer = NoThread

Announce(m, t) == [m EXCEPT !.writer = t]

(* The writer holds the lock once the readers it found have drained. *)
Drained(m) == m.readers = {}

Unlock(m) == [writer |-> NoThread, readers |-> m.queued, queued |-> {}]
=============================================================================
