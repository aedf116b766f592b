------------------------------- MODULE Launch -------------------------------
(***************************************************************************)
(* What a tenant asks of a process and what each copy of it gets: from the *)
(* command line (cmd/etronium/main.go) through Spawn's checks, placement   *)
(* and defaults, the table and the log, respawns by recovery and Migrate,  *)
(* restarts of the scheduler, to the cgroup the lord puts it in            *)
(* (internal/lord/cgroup.go).  One process; its copies are numbered by the *)
(* respawns before them.                                                   *)
(*                                                                         *)
(* Respawns run one at a time here; ProcessEntry has their overlaps,       *)
(* Cluster the reports of lords and LordSessions the registry, whose lords *)
(* and loads are inputs here.  Program, arguments, environment and         *)
(* directory go the same way as the limits and are left out.               *)
(***************************************************************************)
EXTENDS Placement, FiniteSets

CONSTANTS
    NoLord,           \* the empty lord id
    Algo,             \* SCHEDULER_PLACEMENT: "trivial" or "weighted"
    Loads,            \* loads the registry may show for a lord
    Controllers,      \* cpu, memory, io and pids
    Cpu, Mem,         \* the two that `etronium run` has flags for
    Domain,           \* the controllers that the kernel applies to whole processes
    Delegated,        \* per lord: controllers its writable cgroup root passes on
    Values,           \* limits that tenants ask for
    MaxLimit,         \* per controller but Mem: the largest limit (10000, 10^6 for pids)
    DefaultRestarts,  \* max_restarts for a request without one (10)
    MaxRespawns,      \* bound on the respawns of all incarnations
    MaxCrashes        \* bound on the crashes of the scheduler

ASSUME LaunchAssumption ==
    /\ IsFiniteSet(Lords) /\ NoLord \notin Lords
    /\ Algo \in {"trivial", "weighted"}
    /\ Loads \subseteq Load
    /\ {Cpu, Mem} \cup Domain \subseteq Controllers
    /\ Delegated \in [Lords -> SUBSET Controllers]
    /\ 0 \in Values /\ Values \subseteq Int
    /\ MaxLimit \in [Controllers \ {Mem} -> Nat]
    /\ DefaultRestarts \in Nat \ {0}
    /\ {MaxRespawns, MaxCrashes} \subseteq Nat

VARIABLES
    asked,       \* the tenant's SpawnRequest
    answer,      \* what Spawn returned
    overlooked,  \* lords that could have been picked when none was
    entry,       \* the entry's Info in the table
    record,      \* the Info in the log's create record
    queue,       \* spawn events on their way to a lord
    respawns,    \* respawns in all incarnations of the scheduler
    crashes,     \* restarts of the scheduler
    started,     \* the copies that run on lords
    base,        \* per lord: its cgroup, or that it has no manager
    slice        \* per lord: the process's cgroup, and the copies inside

scheduler == <<asked, answer, overlooked, entry, record, respawns, crashes>>
vars == <<scheduler, queue, started, base, slice>>

-----------------------------------------------------------------------------
Limits == [Controllers -> Values]
NoLimits == [c \in Controllers |-> 0]

Request == [restarts: Int, limits: Limits, dump: BOOLEAN, stdin: BOOLEAN,
            prefer: Lords \cup {NoLord}]
None == [none |-> TRUE]

Info == [lord: Lords, max: Int \ {0}, count: Nat, limits: Limits, dump: BOOLEAN,
         final: BOOLEAN]
Event == [n: Nat, lord: Lords, limits: Limits, dump: BOOLEAN, stdin: BOOLEAN]
Copy == [n: Nat, lord: Lords, limits: Limits, dump: BOOLEAN, stdin: BOOLEAN,
         sliced: BOOLEAN, attached: BOOLEAN, written: SUBSET Controllers]

\* Subtree_control of a cgroup, and the copies that are in it.
Slice == [made: BOOLEAN, enabled: SUBSET Controllers, inside: SUBSET Nat]
NoSlice == [made |-> FALSE, enabled |-> {}, inside |-> {}]

\* The lord's cgroup: the controllers it has files of, and its subtree_control.
Base == [available: SUBSET Controllers, enabled: SUBSET Controllers]

TypeOK ==
    /\ asked = None \/ asked \in Request
    /\ answer \in {"none", "invalid", "unavailable", "failed", "sent"}
    /\ overlooked \subseteq Lords
    /\ entry = None \/ entry \in Info
    /\ record = None \/ record \in Info
    /\ queue \subseteq Event
    /\ respawns \in 0..MaxRespawns
    /\ crashes \in 0..MaxCrashes
    /\ started \subseteq Copy
    /\ base \in [Lords -> Base \cup {None}]
    /\ slice \in [Lords -> Slice]

-----------------------------------------------------------------------------
(* The tenant. *)

\* `etronium run`: limits are sent only if one of the two flags is positive.
RunCmd(restarts, cpu, mem, dump, prefer) ==
    /\ asked = None
    /\ asked' = [restarts |-> restarts,
                 limits   |-> IF cpu > 0 \/ mem > 0
                              THEN [NoLimits EXCEPT ![Cpu] = cpu, ![Mem] = mem]
                              ELSE NoLimits,
                 dump |-> dump, stdin |-> FALSE, prefer |-> prefer]
    /\ UNCHANGED <<answer, overlooked, entry, record, respawns, crashes, queue,
                   started, base, slice>>

\* `etronium shell`: "shell is not restarted", says the code, and sends 0.
ShellCmd(prefer) ==
    /\ asked = None
    /\ asked' = [restarts |-> 0, limits |-> NoLimits, dump |-> FALSE, stdin |-> FALSE,
                 prefer |-> prefer]
    /\ UNCHANGED <<answer, overlooked, entry, record, respawns, crashes, queue,
                   started, base, slice>>

\* A client of the API sets every field, initial stdin included.
ApiCall(limits) ==
    /\ asked = None
    /\ asked' = [restarts |-> -1, limits |-> limits, dump |-> TRUE, stdin |-> TRUE,
                 prefer |-> NoLord]
    /\ UNCHANGED <<answer, overlooked, entry, record, respawns, crashes, queue,
                   started, base, slice>>

-----------------------------------------------------------------------------
(* Spawn *)

\* 0 stands for "not set"; memory has no upper limit.  (cpu_quota_pct, which is
\* checked as well, is read by no lord.)
ValidateResources(limits) ==
    \A c \in Controllers : limits[c] >= 0 /\ (c # Mem => limits[c] <= MaxLimit[c])

\* The spawn event for copy n, from the entry and the initial stdin.
BuildSpawnRequest(info, n, stdin) ==
    [n |-> n, lord |-> info.lord, limits |-> info.limits, dump |-> info.dump,
     stdin |-> stdin]

\* Mutant of NewInfo: max_restarts is taken as it is asked for.
NewInfoAsAsked(l) ==
    [lord |-> l, max |-> asked.restarts, count |-> 0, limits |-> asked.limits,
     dump |-> asked.dump, final |-> FALSE]

\* The entry for a request, on lord l.
NewInfo(l) ==
    [lord   |-> l,
     max    |-> IF asked.restarts = 0 THEN DefaultRestarts ELSE asked.restarts,
     count  |-> 0,
     limits |-> asked.limits,
     dump   |-> asked.dump,
     final  |-> FALSE]

\* Spawn with the lords L eligible: refused for its limits or for want of a
\* lord, or for a picked lord without a session; or the entry is created,
\* logged, and its spawn sent, or stopped when it cannot be sent.
Spawn(L, load) ==
    /\ asked # None /\ answer = "none"
    /\ asked' = [asked EXCEPT !.prefer = NoLord]  \* read here for the last time
    /\ \/ /\ ~ValidateResources(asked.limits)
          /\ answer' = "invalid"
          /\ UNCHANGED <<overlooked, entry, record, queue>>
       \/ /\ ValidateResources(asked.limits)
          /\ Pick(Algo, asked.prefer, L, load) = {}
          /\ answer' = "unavailable"
          /\ overlooked' = L
          /\ UNCHANGED <<entry, record, queue>>
       \/ /\ ValidateResources(asked.limits)
          /\ \E l \in Pick(Algo, asked.prefer, L, load) :
                \/ /\ answer' = "unavailable"
                   /\ UNCHANGED <<entry, record, queue>>
                \/ /\ record' = NewInfo(l)
                   /\ \/ /\ answer' = "sent"
                         /\ entry' = NewInfo(l)
                         /\ queue' = queue \cup {BuildSpawnRequest(NewInfo(l), 0, asked.stdin)}
                      \/ /\ answer' = "failed"
                         /\ entry' = [NewInfo(l) EXCEPT !.final = TRUE]
                         /\ UNCHANGED queue
          /\ UNCHANGED overlooked
    /\ UNCHANGED <<respawns, crashes, started, base, slice>>

-----------------------------------------------------------------------------
(* Respawns. *)

Final == [entry EXCEPT !.final = TRUE]

\* Mutant of RespawnProcessOnLord: the restart is not counted.
RespawnProcessUncounted(t) ==
    /\ respawns < MaxRespawns
    /\ IF entry.max >= 0 /\ entry.count >= entry.max
       THEN entry' = Final /\ UNCHANGED <<queue, respawns>>
       ELSE /\ respawns' = respawns + 1
            /\ entry' = [entry EXCEPT !.lord = t]
            /\ queue' = queue \cup {BuildSpawnRequest(entry', respawns', FALSE)}

\* Mutant of RespawnProcessOnLord: the limits are left at their defaults.
RespawnProcessUnlimited(t) ==
    /\ respawns < MaxRespawns
    /\ IF entry.max >= 0 /\ entry.count >= entry.max
       THEN entry' = Final /\ UNCHANGED <<queue, respawns>>
       ELSE /\ respawns' = respawns + 1
            /\ entry' = [entry EXCEPT !.lord = t, !.count = @ + 1]
            /\ queue' = queue \cup
                 {BuildSpawnRequest([entry' EXCEPT !.limits = NoLimits], respawns', FALSE)}

\* An entry that is out of restarts is stopped, another one moved to lord t and
\* its spawn sent, or stopped when it cannot be sent.
RespawnProcessOnLord(t) ==
    /\ respawns < MaxRespawns
    /\ IF entry.max >= 0 /\ entry.count >= entry.max
       THEN entry' = Final /\ UNCHANGED <<queue, respawns>>
       ELSE /\ respawns' = respawns + 1
            /\ LET moved == [entry EXCEPT !.lord = t, !.count = @ + 1] IN
               \/ /\ entry' = moved
                  /\ queue' = queue \cup {BuildSpawnRequest(moved, respawns', FALSE)}
               \/ /\ entry' = [moved EXCEPT !.final = TRUE]
                  /\ UNCHANGED queue

\* A pick for a respawn came back empty although the lords L were eligible.
NotFound(L) ==
    /\ overlooked' = overlooked \cup L
    /\ UNCHANGED <<entry, queue, respawns>>

\* recoverFromLordDisconnect: any eligible lord, or a wait for one.
Recover(L, load) ==
    /\ entry # None /\ ~entry.final
    /\ \/ /\ \E t \in Pick(Algo, NoLord, L, load) : RespawnProcessOnLord(t)
          /\ UNCHANGED overlooked
       \/ Pick(Algo, NoLord, L, load) = {} /\ NotFound(L)
    /\ UNCHANGED <<asked, answer, record, crashes, started, base, slice>>

\* Migrate with "auto": a lord other than the entry's, or an error.
MigrateAuto(L, load) ==
    /\ entry # None /\ ~entry.final
    /\ \/ /\ \E t \in PickDifferent(entry.lord, L, load) : RespawnProcessOnLord(t)
          /\ UNCHANGED overlooked
       \/ PickDifferent(entry.lord, L, load) = {} /\ NotFound(L \ {entry.lord})
    /\ UNCHANGED <<asked, answer, record, crashes, started, base, slice>>

\* Migrate to a lord the caller names; the entry's own is refused.
MigrateTo(t) ==
    /\ entry # None /\ ~entry.final
    /\ t # entry.lord
    /\ RespawnProcessOnLord(t)
    /\ UNCHANGED <<asked, answer, overlooked, record, crashes, started, base, slice>>

-----------------------------------------------------------------------------
(* The scheduler crashes and replays its log.  No record has the count of   *)
(* restarts, and the lord is that of the create record or of a Started.  The *)
(* events that wait in the sessions' outboxes are gone.                      *)

Restart ==
    /\ crashes < MaxCrashes
    /\ entry # None
    /\ crashes' = crashes + 1
    /\ \E l \in {record.lord} \cup {c.lord : c \in started} :
          entry' = [record EXCEPT !.lord = l, !.final = entry.final]
    /\ queue' = {}
    /\ UNCHANGED <<asked, answer, overlooked, record, respawns, started, base, slice>>

-----------------------------------------------------------------------------
(* cgroups.  A controller is available in a cgroup if its parent's            *)
(* subtree_control has it; one that is not cannot be enabled and has no file. *)

\* enableControllers tries each of them and passes over a failure.  The kernel
\* enables no domain controller above a process.
EnableControllers(available, occupied) ==
    IF occupied THEN available \ Domain ELSE available

\* Mutant of NewCgroupManager: controllers are enabled for the slices too.
NewCgroupManagerDeep(l) ==
    LET available == EnableControllers(Delegated[l], FALSE) IN
    base' = [base EXCEPT ![l] = [available |-> available,
                                 enabled   |-> EnableControllers(available, FALSE)]]

\* Whether a directory can be made in the lord's own cgroup or in the root one.
FindWritableRoot == BOOLEAN

\* When it has its id a lord makes etronium/ and enables its controllers, then
\* etronium/<lord_id>, whose subtree_control it leaves empty.  Without a
\* writable root there is no manager.
NewCgroupManager(l) ==
    \E writable \in FindWritableRoot :
        IF writable
        THEN base' = [base EXCEPT ![l] = [available |-> EnableControllers(Delegated[l], FALSE),
                                          enabled   |-> {}]]
        ELSE UNCHANGED base

Registered(l) ==
    /\ base[l] = None
    /\ NewCgroupManager(l)
    /\ UNCHANGED <<scheduler, queue, started, slice>>

\* Move pid to the slice: the kernel keeps processes out of a cgroup that has a
\* domain controller enabled.
CanAttach(sl) == sl.enabled \cap Domain = {}

\* CreateProcessSlice
SliceFor(l) ==
    [slice[l] EXCEPT !.made = TRUE,
                     !.enabled = EnableControllers(base[l].enabled, slice[l].inside # {})]

\* applyResources: the limits that are written, to files that exist.
ApplyResources(l, limits) == {c \in base[l].enabled : limits[c] > 0}

\* handleSpawn: the process is started, then its slice made, then it is moved
\* in; without a manager it runs where the lord does.
HandleSpawn(e) ==
    LET l == e.lord
        managed == base[l] # None
        sl == SliceFor(l)
        in == managed /\ CanAttach(sl)
    IN  /\ e \in queue
        /\ queue' = queue \ {e}
        /\ started' = started \cup
              {[n |-> e.n, lord |-> l, limits |-> e.limits, dump |-> e.dump,
                stdin |-> e.stdin, sliced |-> managed, attached |-> in,
                written |-> IF managed THEN ApplyResources(l, e.limits) ELSE {}]}
        /\ slice' = IF managed
                    THEN [slice EXCEPT ![l] = IF in THEN [sl EXCEPT !.inside = @ \cup {e.n}]
                                                    ELSE sl]
                    ELSE slice
        /\ UNCHANGED <<scheduler, base>>

\* A copy ends and its slice is destroyed, unless another copy is inside.
ProcessExit(c) ==
    /\ started' = started \ {c}
    /\ slice' = LET inside == slice[c.lord].inside \ {c.n} IN
                [slice EXCEPT ![c.lord] = IF inside = {} THEN NoSlice
                                                         ELSE [@ EXCEPT !.inside = inside]]
    /\ entry' = IF entry = None THEN None ELSE Final
    /\ UNCHANGED <<asked, answer, overlooked, record, respawns, crashes, queue, base>>

-----------------------------------------------------------------------------
Init ==
    /\ asked = None
    /\ answer = "none"
    /\ overlooked = {}
    /\ entry = None
    /\ record = None
    /\ queue = {}
    /\ respawns = 0
    /\ crashes = 0
    /\ started = {}
    /\ base = [l \in Lords |-> None]
    /\ slice = [l \in Lords |-> NoSlice]

Tenant ==
    \/ \E restarts \in {-1, 0}, cpu, mem \in Values, dump \in BOOLEAN,
          prefer \in Lords \cup {NoLord} : RunCmd(restarts, cpu, mem, dump, prefer)
    \/ \E prefer \in Lords \cup {NoLord} : ShellCmd(prefer)
    \/ \E limits \in Limits : ApiCall(limits)

Next ==
    \/ Tenant
    \/ \E L \in SUBSET Lords : \E load \in [L -> Loads] :
          Spawn(L, load) \/ Recover(L, load) \/ MigrateAuto(L, load)
    \/ \E t \in Lords : MigrateTo(t)
    \/ Restart
    \/ \E l \in Lords : Registered(l)
    \/ \E e \in queue : HandleSpawn(e)
    \/ \E c \in started : ProcessExit(c)

Spec == Init /\ [][Next]_vars

-----------------------------------------------------------------------------
(* Properties *)

\* Pick and PickDifferent come back empty only if no lord is healthy and not
\* draining: however overloaded, and whatever it reports of its load, a lord is
\* found by the search, which starts from a score of -1 (placement.go).
NoneOverlooked == overlooked = {}

\* Every copy of the process, the first, one that recovery or Migrate starts or
\* one after a restart of the scheduler, is started with what the tenant asked
\* for; only the first gets the initial stdin.
AskedForIsStarted ==
    \A c \in started :
        /\ c.limits = asked.limits
        /\ c.dump = asked.dump
        /\ c.stdin = (asked.stdin /\ c.n = 0)

\* The log has no restart count, so that a restart of the scheduler gives out
\* max_restarts anew, and no more than that.
BudgetPerRun ==
    entry # None /\ entry.max >= 0 => respawns <= entry.max * (crashes + 1)

\* A copy for which a slice is made is moved into it: the controllers that
\* enableControllers puts into a process's slice never keep the process out.
SlicedIsAttached == \A c \in started : c.sliced => c.attached
=============================================================================
