---------------------------- MODULE AtomicWrite ----------------------------
(***************************************************************************)
(* What WriteBatch and DB.Write promise a Go caller: a list of ops that    *)
(* grows at the end, whose record length is known while it grows, and that *)
(* a write hands to the engine whole and in order if its record fits, and  *)
(* refuses without touching the engine if it does not.  The engine, too,   *)
(* refuses a list as a whole.  Writing leaves the list as it was.  No      *)
(* frames, no lengths of fields, no passes.                                *)
(***************************************************************************)
EXTENDS Integers, Sequences

CONSTANTS Ops,       \* what a caller may add
          Cost,      \* the bytes an op takes in the log record
          Overlong,  \* the ops whose key or value the engine does not take
          Header,    \* and those the record opens with
          MaxRecord  \* the longest record that replay accepts

VARIABLES ops,     \* the list
          record,  \* the length of its log record
          phase,   \* "idle", "writing" or "handed"
          handed,  \* the ops the engine has been given in this write
          answer   \* what the last write of the list returned

writeVars == <<ops, record, phase, handed, answer>>

Init == /\ ops = <<>> /\ record = Header
        /\ phase = "idle" /\ handed = <<>> /\ answer = "none"

Add(o) == /\ phase = "idle"
          /\ ops' = Append(ops, o) /\ record' = record + Cost[o]
          /\ answer' = "none"
          /\ UNCHANGED <<phase, handed>>

Reset == /\ phase = "idle"
         /\ ops' = <<>> /\ record' = Header
         /\ answer' = "none"
         /\ UNCHANGED <<phase, handed>>

(* An empty list is written without the engine hearing of it.              *)
Write == /\ phase = "idle"
         /\ \/ ops = <<>> /\ answer' = "ok" /\ UNCHANGED phase
            \/ ops # <<>> /\ answer' = "none" /\ phase' = "writing"
         /\ UNCHANGED <<ops, record, handed>>

Refuse == /\ phase = "writing" /\ record > MaxRecord
          /\ phase' = "idle" /\ answer' = "invalid"
          /\ UNCHANGED <<ops, record, handed>>

Hand == /\ phase = "writing" /\ record <= MaxRecord
        /\ phase' = "handed" /\ handed' = ops
        /\ UNCHANGED <<ops, record, answer>>

(* The engine applies all that it was handed, or none of it: for a key or  *)
(* value that is too long, or because it failed.                           *)
Return == /\ phase = "handed"
          /\ \/ answer' = "err"
             \/ answer' = IF \E i \in 1..Len(handed) : handed[i] \in Overlong
                            THEN "invalid" ELSE "ok"
          /\ phase' = "idle" /\ handed' = <<>>
          /\ UNCHANGED <<ops, record>>

(* Somebody else writes.                                                   *)
Elsewhere == /\ phase = "idle" /\ answer' = "none"
             /\ UNCHANGED <<ops, record, phase, handed>>

Next == \/ \E o \in Ops : Add(o)
        \/ Reset \/ Write \/ Refuse \/ Hand \/ Return \/ Elsewhere

Spec == Init /\ [][Next]_writeVars
=============================================================================
