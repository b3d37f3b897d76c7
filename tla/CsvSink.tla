------------------------------ MODULE CsvSink ------------------------------
(***************************************************************************)
(* The CSV archive (storage/csv_sink.rs) and Archiver::record, which calls *)
(* it: one file per slot and day, appended to by the inverter tasks under  *)
(* one lock.  The time of a row, and so its file, is taken before the lock *)
(* is.  A file is the sequence of what was written to it; a write that     *)
(* fails half-way leaves a torn item, without a line end.                  *)
(*                                                                         *)
(* Nothing in config.rs keeps two tasks from having the same slot.         *)
(***************************************************************************)
EXTENDS Integers, Sequences, FiniteSets

CONSTANTS
    Tasks,      \* the inverter tasks
    SlotOf,     \* the slot each task archives under
    MaxDay,     \* bound: midnights that pass
    MaxRows,    \* bound: rows each task archives
    MaxFaults   \* bound: failing calls and crashes

VARIABLES
    up,         \* the daemon runs
    day,        \* the date
    made,       \* the paths that exist
    files,      \* path -> what was written, in order
    lock,       \* {} or the task that holds write_lock
    pc,         \* task -> where it is in append
    row,        \* task -> the row it archives
    is_new,     \* task -> what try_exists said
    count,      \* task -> rows so far
    acked,      \* rows whose append returned Ok, in order
    spoiled,    \* paths whose first append was cut off, or whose existence
                \* was misjudged
    faults      \* faults so far

vars == <<up, day, made, files, lock, pc, row, is_new, count, acked, spoiled, faults>>

Paths == {SlotOf[t] : t \in Tasks} \X (0..MaxDay)
Header == [kind |-> "header"]
Torn == [kind |-> "torn"]
Row(t, n, d) == [kind |-> "row", task |-> t, n |-> n, day |-> d]

BugPathNow(t) == <<SlotOf[t], day>>

\* filename_for(slot, time)
filename_for(t) == <<SlotOf[t], row[t].day>>

Init ==
    /\ up = TRUE
    /\ day = 0
    /\ made = {}
    /\ files = [p \in Paths |-> <<>>]
    /\ lock = {}
    /\ pc = [t \in Tasks |-> "idle"]
    /\ row = [t \in Tasks |-> Row(t, 0, 0)]
    /\ is_new = [t \in Tasks |-> FALSE]
    /\ count = [t \in Tasks |-> 0]
    /\ acked = <<>>
    /\ spoiled = {}
    /\ faults = 0
-----------------------------------------------------------------------------
Goto(t, label) == pc' = [pc EXCEPT ![t] = label]
Write(t, item) == files' = [files EXCEPT ![filename_for(t)] = Append(@, item)]

\* Archiver::record: the time is taken, then the lock is waited for.
Record(t) ==
    /\ up /\ pc[t] = "idle" /\ count[t] < MaxRows
    /\ count' = [count EXCEPT ![t] = @ + 1]
    /\ row' = [row EXCEPT ![t] = Row(t, count[t] + 1, day)]
    /\ Goto(t, "lock")
    /\ UNCHANGED <<up, day, made, files, lock, is_new, acked, spoiled, faults>>

BugNoLock(t) ==
    /\ pc[t] = "lock"
    /\ lock' = lock \cup {t}
    /\ Goto(t, "exists")
    /\ UNCHANGED <<up, day, made, files, row, is_new, count, acked, spoiled, faults>>

Acquire(t) ==
    /\ pc[t] = "lock" /\ lock = {}
    /\ lock' = {t}
    /\ Goto(t, "exists")
    /\ UNCHANGED <<up, day, made, files, row, is_new, count, acked, spoiled, faults>>

\* try_exists(path).unwrap_or(false): an error counts as "not there".
TryExists(t) ==
    /\ pc[t] = "exists"
    /\ is_new' = [is_new EXCEPT ![t] = filename_for(t) \notin made]
    /\ Goto(t, "open")
    /\ UNCHANGED <<up, day, made, files, lock, row, count, acked, spoiled, faults>>

TryExistsFails(t) ==
    /\ pc[t] = "exists" /\ faults < MaxFaults
    /\ is_new' = [is_new EXCEPT ![t] = TRUE]
    /\ spoiled' = spoiled \cup {filename_for(t)}
    /\ faults' = faults + 1
    /\ Goto(t, "open")
    /\ UNCHANGED <<up, day, made, files, lock, row, count, acked>>

\* OpenOptions create + append
Open(t) ==
    /\ pc[t] = "open"
    /\ made' = made \cup {filename_for(t)}
    /\ Goto(t, IF is_new[t] THEN "header" ELSE "line")
    /\ UNCHANGED <<up, day, files, lock, row, is_new, count, acked, spoiled, faults>>

WriteHeader(t) ==
    /\ pc[t] = "header"
    /\ Write(t, Header)
    /\ Goto(t, "line")
    /\ UNCHANGED <<up, day, made, lock, row, is_new, count, acked, spoiled, faults>>

WriteLine(t) ==
    /\ pc[t] = "line"
    /\ Write(t, row[t])
    /\ Goto(t, "flush")
    /\ UNCHANGED <<up, day, made, lock, row, is_new, count, acked, spoiled, faults>>

\* flush, return Ok, drop the guard
Flush(t) ==
    /\ pc[t] = "flush"
    /\ acked' = Append(acked, row[t])
    /\ lock' = lock \ {t}
    /\ Goto(t, "idle")
    /\ UNCHANGED <<up, day, made, files, row, is_new, count, spoiled, faults>>

\* A file that exists without the header its first append owed it.
Unheaded(t) == IF pc[t] = "header" THEN {filename_for(t)} ELSE {}

BugKeepsLock(t) ==
    /\ pc[t] \in {"exists", "open", "header", "line"} /\ faults < MaxFaults
    /\ files' = files
    /\ spoiled' = spoiled \cup Unheaded(t)
    /\ faults' = faults + 1
    /\ Goto(t, "idle")
    /\ UNCHANGED <<up, day, made, lock, row, is_new, count, acked>>

\* create_dir_all, open or a write fails, a write perhaps after a part of it:
\* append returns the error, the guard is dropped, record logs and goes on.
Fails(t) ==
    /\ pc[t] \in {"exists", "open", "header", "line"} /\ faults < MaxFaults
    /\ \/ files' = files
       \/ pc[t] \in {"header", "line"} /\ Write(t, Torn)
    /\ spoiled' = spoiled \cup Unheaded(t)
    /\ faults' = faults + 1
    /\ lock' = lock \ {t}
    /\ Goto(t, "idle")
    /\ UNCHANGED <<up, day, made, row, is_new, count, acked>>

\* The process ends, or Ctrl-C aborts the tasks, at any point.
Crash ==
    /\ up /\ faults < MaxFaults
    /\ up' = FALSE
    /\ faults' = faults + 1
    /\ lock' = {}
    /\ pc' = [t \in Tasks |-> "idle"]
    /\ spoiled' = spoiled \cup UNION {Unheaded(t) : t \in Tasks}
    /\ UNCHANGED <<day, made, files, row, is_new, count, acked>>

Restart ==
    /\ ~up
    /\ up' = TRUE
    /\ UNCHANGED <<day, made, files, lock, pc, row, is_new, count, acked, spoiled, faults>>

Midnight ==
    /\ day < MaxDay
    /\ day' = day + 1
    /\ UNCHANGED <<up, made, files, lock, pc, row, is_new, count, acked, spoiled, faults>>

Step(t) ==
    \/ TryExists(t) \/ Open(t) \/ WriteHeader(t) \/ WriteLine(t) \/ Flush(t)

Next ==
    \/ \E t \in Tasks : \/ Record(t) \/ Acquire(t) \/ Step(t)
                        \/ TryExistsFails(t) \/ Fails(t)
    \/ Crash \/ Restart \/ Midnight

(***************************************************************************)
(* File operations return, and tokio's Mutex serves its waiters in order,  *)
(* so a waiter that finds it free again and again gets it.                 *)
(***************************************************************************)
Fairness == \A t \in Tasks : WF_vars(Step(t)) /\ SF_vars(Acquire(t))

Spec == Init /\ [][Next]_vars /\ Fairness
-----------------------------------------------------------------------------
\* append writes the header line exactly once, as the first line, whichever
\* tasks race to create the file; except in a file whose first append was cut
\* off or whose existence try_exists misjudged.
HeaderFirst ==
    \A p \in Paths \ spoiled : \A i \in DOMAIN files[p] :
        files[p][i] = Header <=> i = 1

\* A row whose append returned Ok is in the file of its own slot and of the
\* day it was read on, once, in the order of the acknowledgements, across
\* midnight, failures of other appends, crashes and restarts; and a file holds
\* rows of no other slot or day.  (A row written after a torn one is whole but
\* stands on the same line.)
AcknowledgedKept ==
    /\ \A a \in DOMAIN acked : \E p \in Paths : \E i \in DOMAIN files[p] :
          files[p][i] = acked[a]
    /\ \A p \in Paths : \A i, j \in DOMAIN files[p] : \A a, b \in DOMAIN acked :
          files[p][i] = acked[a] /\ files[p][j] = acked[b] => (i < j <=> a < b)
    /\ \A p \in Paths : \A i \in DOMAIN files[p] :
          files[p][i].kind = "row" => <<SlotOf[files[p][i].task], files[p][i].day>> = p

\* An append that starts returns, with Ok or an error: no failure of another
\* task's append leaves the lock held.
AppendReturns == \A t \in Tasks : pc[t] # "idle" ~> pc[t] = "idle"
=============================================================================
