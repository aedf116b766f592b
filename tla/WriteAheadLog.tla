--------------------------- MODULE WriteAheadLog ---------------------------
(***************************************************************************)
(* The write-ahead log under overlapping updates, failed writes and        *)
(* crashes (internal/scheduler/wal.go, UpdateState and UpdateResult of     *)
(* process_table.go, the startup of cmd/scheduler/main.go).                *)
(*                                                                         *)
(* An update appends its event before it takes the entry's lock to assign, *)
(* so two updates of one entry may be logged in one order and assigned in  *)
(* the other.  The file is represented by what ReplayWAL makes of it, and  *)
(* by the unterminated line at its end, if there is one.                   *)
(*                                                                         *)
(* Left out: lord ids and exit codes (module Cluster has the lord ids), a  *)
(* read error in the middle of a replay, lines over 16 MB, a page cache    *)
(* lost with the machine (accepted, wal.go:15), a short write that ends    *)
(* exactly before the newline of a state or result event, and RotateWAL,   *)
(* which nothing calls.                                                    *)
(***************************************************************************)
EXTENDS Integers

CONSTANTS
    Procs,       \* process ids that Spawn may create
    Updaters,    \* goroutines that change entries
    Live, Final, \* the values of Info.State
    Ready,       \* the one that Spawn gives a new entry
    None,        \* no such process
    NoTail, Cut, \* ends of the file: a newline, part of a line
    MaxFaults,   \* bound on failures of reads, opens and writes
    MaxCrashes   \* bound on crashes of the scheduler

State == Live \cup Final

ASSUME WALAssumption ==
    /\ Ready \in Live
    /\ Live \cap Final = {}
    /\ None \notin State \cup Procs
    /\ NoTail # Cut
    /\ {NoTail, Cut} \cap Procs = {}
    /\ MaxFaults \in Nat
    /\ MaxCrashes \in Nat

VARIABLES
    up,          \* the scheduler is running
    crashes,     \* crashes so far
    faults,      \* failures so far
    created,     \* process ids given out (NewID)
    table,       \* process table: Info.State of each entry, or None
    result,      \* entries whose exit code is set
    disk,        \* what a replay makes of the file: states,
    diskResult,  \*   exit codes
    tail,        \* its end: NoTail, Cut, or p: p's create event, newline missing
    failed,      \* the WAL is nil or its bufio.Writer holds an error
    pc,          \* per updater: what it does next
    job,         \* per updater: the entry and its new state
    raced,       \* history: entries whose last events were logged while another
                 \*   update of the entry was logged and not yet assigned
    dropped,     \* history: entries whose last event is not read by a replay
    noResult,    \* history: processes whose exit code was not logged,
    cutShort,    \*   or not before a crash
    tears,       \* history: lines left unterminated
    losses       \* history: lines written whole that no replay can read

log     == <<disk, diskResult, tail, failed, tears, losses, faults>>
threads == <<pc, job>>
history == <<raced, dropped, noResult, cutShort>>
vars    == <<up, crashes, created, table, result, log, threads, history>>

-----------------------------------------------------------------------------
Label == {"idle", "assign", "logResult", "assignResult"}

Job   == [proc : Procs \cup {None}, state : State]
NoJob == [proc |-> None, state |-> Ready]

TypeOK ==
    /\ up \in BOOLEAN
    /\ crashes \in Nat
    /\ faults \in Nat
    /\ created \in SUBSET Procs
    /\ table \in [Procs -> State \cup {None}]
    /\ result \in SUBSET Procs
    /\ disk \in [Procs -> State \cup {None}]
    /\ diskResult \in SUBSET Procs
    /\ tail \in {NoTail, Cut} \cup Procs
    /\ failed \in BOOLEAN
    /\ pc \in [Updaters -> Label]
    /\ job \in [Updaters -> Job]
    /\ raced \in SUBSET Procs
    /\ dropped \in SUBSET Procs
    /\ noResult \in SUBSET Procs
    /\ cutShort \in SUBSET Procs
    /\ tears \in Nat
    /\ losses \in Nat
    /\ \A u \in Updaters : pc[u] # "idle" =>
          up /\ job[u].proc \in Procs /\ table[job[u].proc] # None

-----------------------------------------------------------------------------
(* The file. *)

\* The create event of an unterminated line is read until another line is
\* written behind it.
Spoiled == {tail} \cap Procs

Unreadable(d) == [p \in Procs |-> IF p \in Spoiled THEN None ELSE d[p]]

\* append: the line is written and will be read.
Written(d, R) ==
    /\ ~failed
    /\ tail = NoTail
    /\ disk' = d
    /\ diskResult' = R
    /\ UNCHANGED <<tail, failed, tears, losses, faults>>

\* Mutant of Glued: the newline is not written.
GluedOpen ==
    /\ ~failed
    /\ tail # NoTail
    /\ disk' = Unreadable(disk)
    /\ tail' = Cut
    /\ losses' = losses + 1
    /\ UNCHANGED <<diskResult, failed, tears, faults>>

\* append: the line is written behind an unterminated one. The two are one line
\* that is not JSON, and ReplayWAL skips it.
Glued ==
    /\ ~failed
    /\ tail # NoTail
    /\ disk' = Unreadable(disk)
    /\ tail' = NoTail
    /\ losses' = losses + 1
    /\ UNCHANGED <<diskResult, failed, tears, faults>>

\* Part of a line reaches the file, or nothing.
Torn ==
    \/ UNCHANGED <<disk, tail, tears>>
    \/ /\ disk' = Unreadable(disk)
       /\ tail' = Cut
       /\ tears' = IF tail = NoTail THEN tears + 1 ELSE tears

\* append: a write fails, as on a full disk. The bufio.Writer keeps the error,
\* so no later append writes anything; callers ignore what append returns.
WriteFails ==
    /\ ~failed
    /\ faults < MaxFaults
    /\ faults' = faults + 1
    /\ failed' = TRUE
    /\ Torn
    /\ UNCHANGED <<diskResult, losses>>

\* A create event larger than the bufio.Writer is written before its newline:
\* the line may stay whole and unterminated.
CreateUnterminated(p) ==
    /\ tail = NoTail
    /\ disk' = [disk EXCEPT ![p] = Ready]
    /\ tail' = p
    /\ tears' = tears + 1
    /\ UNCHANGED <<diskResult, losses>>

NotWritten == failed /\ UNCHANGED log

\* An event of p that is not recorded, and what its line made unreadable.
Drop(p) == dropped' = dropped \cup {p} \cup Spoiled

-----------------------------------------------------------------------------
(* The process table. *)

\* Create, by Spawn. The lock of the table is held during the append.
Create(p) ==
    /\ up
    /\ p \notin created
    /\ created' = created \cup {p}
    /\ table' = [table EXCEPT ![p] = Ready]
    /\ \/ Written([disk EXCEPT ![p] = Ready], diskResult) /\ UNCHANGED dropped
       \/ (Glued \/ WriteFails \/ NotWritten) /\ Drop(p)
       \/ /\ ~failed /\ faults < MaxFaults
          /\ faults' = faults + 1
          /\ failed' = TRUE
          /\ CreateUnterminated(p)
          /\ UNCHANGED dropped
    /\ UNCHANGED <<up, crashes, result, threads, raced, noResult, cutShort>>

\* The updaters that have logged a state of p and not assigned it.
Unassigned(p) == {u \in Updaters : pc[u] = "assign" /\ job[u].proc = p}

\* Mutant of LogState: the entry is not looked up.
LogStateUnknown(u, p, st) ==
    /\ up
    /\ pc[u] = "idle"
    /\ p \in created
    /\ pc' = [pc EXCEPT ![u] = "assign"]
    /\ job' = [job EXCEPT ![u] = [proc |-> p, state |-> st]]
    /\ raced' = IF Unassigned(p) = {} THEN raced \ {p} ELSE raced \cup {p}
    /\ \/ disk[p] # None /\ Written([disk EXCEPT ![p] = st], diskResult)
          /\ dropped' = dropped \ {p}
       \/ disk[p] = None /\ Written(disk, diskResult) /\ Drop(p)
       \/ (Glued \/ WriteFails \/ NotWritten) /\ Drop(p)
    /\ UNCHANGED <<up, crashes, created, table, result, noResult, cutShort>>

\* Mutant of LogState: only final states are logged.
LogStateFinalOnly(u, p, st) ==
    /\ up
    /\ pc[u] = "idle"
    /\ table[p] # None
    /\ pc' = [pc EXCEPT ![u] = "assign"]
    /\ job' = [job EXCEPT ![u] = [proc |-> p, state |-> st]]
    /\ raced' = IF Unassigned(p) = {} THEN raced \ {p} ELSE raced \cup {p}
    /\ \/ disk[p] # None
          /\ Written([disk EXCEPT ![p] = IF st \in Final THEN st ELSE @], diskResult)
          /\ dropped' = dropped \ {p}
       \/ disk[p] = None /\ Written(disk, diskResult) /\ Drop(p)
       \/ (Glued \/ WriteFails \/ NotWritten) /\ Drop(p)
    /\ UNCHANGED <<up, crashes, created, table, result, noResult, cutShort>>

\* UpdateState begins: the event is appended before the entry is locked. A
\* replay ignores events of a process whose create event it has not read.
LogState(u, p, st) ==
    /\ up
    /\ pc[u] = "idle"
    /\ table[p] # None
    /\ pc' = [pc EXCEPT ![u] = "assign"]
    /\ job' = [job EXCEPT ![u] = [proc |-> p, state |-> st]]
    /\ raced' = IF Unassigned(p) = {} THEN raced \ {p} ELSE raced \cup {p}
    /\ \/ disk[p] # None /\ Written([disk EXCEPT ![p] = st], diskResult)
          /\ dropped' = dropped \ {p}
       \/ disk[p] = None /\ Written(disk, diskResult) /\ Drop(p)
       \/ (Glued \/ WriteFails \/ NotWritten) /\ Drop(p)
    /\ UNCHANGED <<up, crashes, created, table, result, noResult, cutShort>>

Done(u) ==
    /\ pc' = [pc EXCEPT ![u] = "idle"]
    /\ job' = [job EXCEPT ![u] = NoJob]

\* UpdateState goes on: the state is assigned. Whoever ends a process calls
\* UpdateResult next.
AssignState(u) ==
    /\ pc[u] = "assign"
    /\ table' = [table EXCEPT ![job[u].proc] = job[u].state]
    /\ IF job[u].state \in Final
       THEN pc' = [pc EXCEPT ![u] = "logResult"] /\ UNCHANGED job
       ELSE Done(u)
    /\ UNCHANGED <<up, crashes, created, result, log, history>>

\* Mutant of LogResult: the exit code is set in memory only.
LogResultMemory(u) ==
    /\ pc[u] = "logResult"
    /\ pc' = [pc EXCEPT ![u] = "assignResult"]
    /\ UNCHANGED <<up, crashes, created, table, result, log, job, history>>

\* UpdateResult begins.
LogResult(u) ==
    /\ pc[u] = "logResult"
    /\ pc' = [pc EXCEPT ![u] = "assignResult"]
    /\ LET p == job[u].proc IN
       \/ /\ disk[p] # None /\ Written(disk, diskResult \cup {p})
          /\ UNCHANGED <<dropped, noResult>>
       \/ /\ disk[p] = None /\ Written(disk, diskResult)
          /\ noResult' = noResult \cup {p}
          /\ UNCHANGED dropped
       \/ /\ Glued \/ WriteFails \/ NotWritten
          /\ noResult' = noResult \cup {p}
          /\ dropped' = dropped \cup Spoiled
    /\ UNCHANGED <<up, crashes, created, table, result, job, raced, cutShort>>

\* UpdateResult ends.
AssignResult(u) ==
    /\ pc[u] = "assignResult"
    /\ result' = result \cup {job[u].proc}
    /\ Done(u)
    /\ UNCHANGED <<up, crashes, created, table, log, history>>

-----------------------------------------------------------------------------
(* The scheduler process. *)

\* Processes whose end is logged and whose exit code is not.
Halfway ==
    {job[u].proc : u \in {v \in Updaters :
        job[v].state \in Final /\ pc[v] \in {"assign", "logResult"}}}

\* Only the file survives. It may end in the line that was being written, as a
\* whole if it was a create event in two writes.
Crash ==
    /\ up
    /\ crashes < MaxCrashes
    /\ up' = FALSE
    /\ crashes' = crashes + 1
    /\ table' = [p \in Procs |-> None]
    /\ result' = {}
    /\ pc' = [u \in Updaters |-> "idle"]
    /\ job' = [u \in Updaters |-> NoJob]
    /\ raced' = {}
    /\ dropped' = {}
    /\ cutShort' = cutShort \cup Halfway
    /\ failed' = FALSE
    /\ \/ UNCHANGED <<disk, diskResult, tail, tears, losses, created>>
       \/ ~failed /\ Torn /\ UNCHANGED <<diskResult, losses, created>>
       \/ \E p \in Procs \ created :
             /\ ~failed
             /\ CreateUnterminated(p)
             /\ created' = created \cup {p}
    /\ UNCHANGED <<faults, noResult>>

\* main: ReplayWAL, then OpenWAL and AttachWAL. Neither failure stops the start:
\* the table stays empty, or the WAL is nil.
Restart ==
    /\ ~up
    /\ up' = TRUE
    /\ \/ table' = disk /\ result' = diskResult /\ UNCHANGED <<failed, faults>>
       \/ /\ faults < MaxFaults
          /\ faults' = faults + 1
          /\ \/ table' = disk /\ result' = diskResult /\ failed' = TRUE
             \/ UNCHANGED <<table, result>> /\ failed' \in BOOLEAN
    /\ UNCHANGED <<crashes, created, disk, diskResult, tail, tears, losses, threads,
                   history>>

-----------------------------------------------------------------------------
Init ==
    /\ up = TRUE
    /\ crashes = 0
    /\ faults = 0
    /\ created = {}
    /\ table = [p \in Procs |-> None]
    /\ result = {}
    /\ disk = [p \in Procs |-> None]
    /\ diskResult = {}
    /\ tail = NoTail
    /\ failed = FALSE
    /\ pc = [u \in Updaters |-> "idle"]
    /\ job = [u \in Updaters |-> NoJob]
    /\ raced = {}
    /\ dropped = {}
    /\ noResult = {}
    /\ cutShort = {}
    /\ tears = 0
    /\ losses = 0

Next ==
    \/ \E p \in Procs : Create(p)
    \/ \E u \in Updaters :
          \/ \E p \in Procs, st \in State : LogState(u, p, st)
          \/ AssignState(u) \/ LogResult(u) \/ AssignResult(u)
    \/ Crash
    \/ Restart

Spec == Init /\ [][Next]_vars
-----------------------------------------------------------------------------
(* Properties *)

\* A restart would bring back the state an entry has now, or the one that the
\* update under way is about to give it. Only overlapping updates and events
\* that could not be recorded break this, and the next update that is logged
\* alone repairs it (process_table.go:202, wal.go:101).
LogAgrees ==
    \A p \in Procs \ (raced \cup dropped) :
        table[p] # None =>
            \/ disk[p] = table[p]
            \/ \E u \in Unassigned(p) : disk[p] = job[u].state

\* An ended process without an exit code, which Wait would report as code 0, has
\* an updater about to set it; or a crash came between its two events, or the
\* second was not recorded (connect.go:317-322).
ExitKnown ==
    \A p \in Procs \ (noResult \cup cutShort) :
        table[p] \in Final /\ p \notin result =>
            \E u \in Updaters : job[u].proc = p /\ pc[u] \in {"logResult", "assignResult"}

\* A line left unterminated costs the log at most one of the lines written
\* later, however the scheduler crashes and restarts (wal.go:163).
OneLossPerTear == losses <= tears
=============================================================================
