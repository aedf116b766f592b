----------------------------- MODULE Autoscale -----------------------------
(***************************************************************************)
(* The autoscaler (internal/scheduler/autoscale.go): every interval it     *)
(* samples all registered lords, decides which ones to take a process      *)
(* from, and applies the decisions one by one through Migrate              *)
(* (migrate.go), while lords register, go unhealthy and recover and        *)
(* processes start and end.                                                *)
(*                                                                         *)
(* Sample and Decide are one action: nothing else touches AutoscaleState.  *)
(* The clock counts intervals; time 0 is Go's zero time.                   *)
(*                                                                         *)
(* Loads are small integers in place of weighted ratios: cpu is the level  *)
(* that OverloadCPU is compared with, the score adds the other components. *)
(*                                                                         *)
(* The blacklist is left out because it stays empty: reject rates are      *)
(* keyed by the four bytes of a BPF key (lordIDFromUint32) and looked up   *)
(* by lord id, a ULID of 26 characters, so every Reject is 0.              *)
(***************************************************************************)
EXTENDS Placement, FiniteSets

CONSTANTS
    Procs,           \* processes
    CpuLevels,       \* cpu_ratio
    OtherLevels,     \* the other components of the score
    OverloadCPU,     \* cpu level of an overloaded lord
    RebalanceDelta,  \* a larger difference of scores asks for a rebalance
    Cooldown,        \* intervals between migrations off one lord
    Minute,          \* window of the rate limit, in intervals
    MaxPerMin,       \* rate limit
    MaxRestarts,     \* max_restarts of the processes; negative: unlimited
    MaxTime          \* bound on the clock

ASSUME AutoscaleAssumption ==
    /\ CpuLevels \subseteq Int
    /\ OtherLevels \subseteq Int
    /\ OverloadCPU \in Int
    /\ RebalanceDelta \in Nat
    /\ Cooldown \in Nat \ {0}
    /\ Minute \in Nat
    /\ MaxPerMin \in Nat
    /\ MaxRestarts \in Int \ {0}
    /\ MaxTime \in Nat

VARIABLES
    now,             \* time of the last cycle
    registered,      \* keys of the lord registry; none is ever removed
    healthy,         \* those that PickDifferent considers
    usage,           \* per lord: the cpu level last read
    lastMigration,   \* per lord: LordScore.LastMigration
    migrations,      \* the recent migrations that count for the rate limit
    pending,         \* decisions that are still to be applied
    moves,           \* history: all migrations that were decided
    state,           \* per process: Info.State
    home,            \* per process: Info.Ref.LordId
    sent,            \* per process: lords that it was sent to
    restarts,        \* per process: Info.RestartCount
    changed,         \* per process: Info.StateChangedAt
    lastError        \* per process: Info.LastError

scaler == <<now, usage, lastMigration, migrations, moves>>
lordReg == <<registered, healthy>>
procs == <<state, home, sent, restarts, changed, lastError>>
scalerVars == <<scaler, pending, lordReg, procs>>

-----------------------------------------------------------------------------
FinalStates == {"EXITED", "STOPPED"}

\* A decision to take a process from a lord, and when it was made. Its ToLord
\* is left out: applyDecision sets Auto, and Migrate then picks a lord itself.
Move(lords) == [action: {"migrate", "rebalance"}, from: lords, at: Nat]

\* Types; lords are healthy, decided about, and given processes only after
\* they have registered.
ScalerTypeOK ==
    /\ now \in Nat
    /\ registered \in SUBSET Lords
    /\ healthy \in SUBSET registered
    /\ usage \in [Lords -> Int]
    /\ lastMigration \in [Lords -> Nat]
    /\ migrations \in SUBSET moves
    /\ pending \in SUBSET moves
    /\ moves \in SUBSET Move(registered)
    /\ state \in [Procs -> {"RUNNING", "RESTARTING"} \cup FinalStates]
    /\ home \in [Procs -> registered]
    /\ sent \in [Procs -> SUBSET registered]
    /\ restarts \in [Procs -> Nat]
    /\ changed \in [Procs -> Nat]
    /\ lastError \in [Procs -> {"none", "maxRestarts", "respawnFailed"}]

-----------------------------------------------------------------------------
(* One cycle: Sample, then Decide, at time t. *)

\* readLordCPU divides the cgroup's counter of all cpu time ever used by one
\* second: what is read for a lord never goes down.
Sampled(cpu) == \A l \in Lords : usage[l] <= cpu[l]

\* Sample: the combined score of each lord.
Score(cpu, other) == [l \in Lords |-> cpu[l] + other[l]]

\* Step 1 of Decide: what pruneMigrations leaves.
Recent(t) == {m \in migrations : m.at > t - Minute}

Cooling(l, t) == lastMigration[l] # 0 /\ t - lastMigration[l] < Cooldown

\* pickColdest finds the other lord with the lowest score, if there is one.
PickColdest(from) == registered \ {from}

\* Mutant of Overloaded: scores of lords that are not in the registry count.
OverloadedAny(t, cpu) ==
    {l \in Lords : /\ cpu[l] >= OverloadCPU
                   /\ ~Cooling(l, t)
                   /\ PickColdest(l) # {}}

\* Step 4: the overloaded lords that one migration is decided for.
Overloaded(t, cpu) ==
    {l \in registered : /\ cpu[l] >= OverloadCPU
                        /\ ~Cooling(l, t)
                        /\ PickColdest(l) # {}}

\* Mutant of Cool: the rebalance does not see the migration just decided.
CoolStale(l, t, over) == ~Cooling(l, t)

\* Step 5 looks at LastMigration as step 4 has left it.
Cool(l, t, over) == l \notin over /\ ~Cooling(l, t)

\* Step 5: whether a rebalance is due between the hottest and the coldest.
Rebalance(hot, cold, t, over, score) ==
    /\ score[hot] - score[cold] > RebalanceDelta
    /\ Cool(hot, t, over)
    /\ Cardinality(Recent(t)) < MaxPerMin

Extremes(score) ==
    {e \in registered \X registered :
        \A l \in registered : score[e[2]] <= score[l] /\ score[l] <= score[e[1]]}

\* Mutant of Record: overload migrations do not count for the rate limit.
RecordRebalances(new, t) ==
    /\ migrations' = Recent(t) \cup {m \in new : m.action = "rebalance"}
    /\ moves' = moves \cup new
    /\ lastMigration' = [l \in Lords |-> IF \E m \in new : m.from = l THEN t
                                         ELSE lastMigration[l]]
    /\ pending' = new

\* Step 6, and the LastMigration = now of steps 4 and 5.
Record(new, t) ==
    /\ migrations' = Recent(t) \cup new
    /\ moves' = moves \cup new
    /\ lastMigration' = [l \in Lords |-> IF \E m \in new : m.from = l THEN t
                                         ELSE lastMigration[l]]
    /\ pending' = new

\* The ticker fires once the decisions of the last cycle are applied. With
\* RebalanceDelta >= 0 a rebalance needs two lords, as step 5 asks for.
Cycle(cpu, other) ==
    LET t     == now + 1
        score == Score(cpu, other)
        over  == Overloaded(t, cpu)
        move(action, l) == [action |-> action, from |-> l, at |-> t]
        migrate == {move("migrate", l) : l \in over}
    IN  /\ pending = {}
        /\ now < MaxTime
        /\ Sampled(cpu)
        /\ now' = t
        /\ usage' = cpu
        /\ \E e \in Extremes(score) :
              Record(IF Rebalance(e[1], e[2], t, over, score)
                     THEN migrate \cup {move("rebalance", e[1])} ELSE migrate, t)
        /\ UNCHANGED <<lordReg, procs>>

-----------------------------------------------------------------------------
(* applyDecision. *)

\* pickColdestProcessOnLord: the one whose state changed last, whatever it is.
Youngest(l) ==
    {p \in Procs : home[p] = l /\ \A q \in Procs : home[q] = l => changed[q] <= changed[p]}

SetState(p, st) ==
    /\ state' = [state EXCEPT ![p] = st]
    /\ changed' = [changed EXCEPT ![p] = now]

OutOfRestarts(p) == MaxRestarts >= 0 /\ restarts[p] >= MaxRestarts

\* respawnProcessOnLord: nothing for a final entry, the end of one that is
\* out of restarts, else a respawn whose SendSpawn may fail.
Respawn(p, t) ==
    \/ /\ state[p] \in FinalStates
       /\ UNCHANGED procs
    \/ /\ state[p] \notin FinalStates
       /\ OutOfRestarts(p)
       /\ SetState(p, "STOPPED")
       /\ lastError' = [lastError EXCEPT ![p] = "maxRestarts"]
       /\ UNCHANGED <<home, sent, restarts>>
    \/ /\ state[p] \notin FinalStates
       /\ ~OutOfRestarts(p)
       /\ home' = [home EXCEPT ![p] = t]
       /\ restarts' = [restarts EXCEPT ![p] = @ + 1]
       /\ \/ /\ sent' = [sent EXCEPT ![p] = @ \cup {t}]
             /\ SetState(p, "RESTARTING")
             /\ UNCHANGED lastError
          \/ /\ SetState(p, "STOPPED")
             /\ lastError' = [lastError EXCEPT ![p] = "respawnFailed"]
             /\ UNCHANGED sent

\* PickDifferent goes by a score of its own, which is not the autoscaler's, so
\* any of the lords it ranks.
Candidates(l) == healthy \ {l}

\* Migrate with Auto takes what PickDifferent returns.
ApplyDecision(m) ==
    /\ m \in pending
    /\ pending' = pending \ {m}
    /\ \/ /\ Youngest(m.from) = {} \/ Candidates(m.from) = {}
          /\ UNCHANGED procs
       \/ \E p \in Youngest(m.from), t \in Candidates(m.from) : Respawn(p, t)
    /\ UNCHANGED <<scaler, lordReg>>

-----------------------------------------------------------------------------
(* The rest of the system, with any timing. *)

\* Register, or a heartbeat (UpdateStats) after missed ones.
Beat(l) ==
    /\ l \notin healthy
    /\ registered' = registered \cup {l}
    /\ healthy' = healthy \cup {l}
    /\ UNCHANGED <<scaler, pending, procs>>

\* MarkUnhealthy, or a sweep that finds the heartbeat too old.
MarkUnhealthy(l) ==
    /\ l \in healthy
    /\ healthy' = healthy \ {l}
    /\ UNCHANGED <<scaler, pending, registered, procs>>

\* handleStarted: from any lord the process was sent to, at any time.
Started(p, l) ==
    /\ l \in sent[p]
    /\ SetState(p, "RUNNING")
    /\ home' = [home EXCEPT ![p] = l]
    /\ UNCHANGED <<scaler, pending, lordReg, sent, restarts, lastError>>

\* handleProcessExit; an ack timer or a recovery sweep also ends in STOPPED.
Ended(p, st) ==
    /\ st \in FinalStates
    /\ SetState(p, st)
    /\ UNCHANGED <<scaler, pending, lordReg, home, sent, restarts, lastError>>

-----------------------------------------------------------------------------
\* NewAutoscaleState, with some lords registered and every process running
\* on one of them.
ScalerInit ==
    /\ now = 0
    /\ registered \in (SUBSET Lords) \ {{}}
    /\ healthy = registered
    /\ usage \in [Lords -> CpuLevels]
    /\ \A l \in Lords, c \in CpuLevels : usage[l] <= c
    /\ lastMigration = [l \in Lords |-> 0]
    /\ migrations = {}
    /\ pending = {}
    /\ moves = {}
    /\ state = [p \in Procs |-> "RUNNING"]
    /\ home \in [Procs -> registered]
    /\ sent = [p \in Procs |-> {home[p]}]
    /\ restarts = [p \in Procs |-> 0]
    /\ changed = [p \in Procs |-> 0]
    /\ lastError = [p \in Procs |-> "none"]

ScalerNext ==
    \/ \E cpu \in [Lords -> CpuLevels], other \in [Lords -> OtherLevels] : Cycle(cpu, other)
    \/ \E m \in pending : ApplyDecision(m)
    \/ \E l \in Lords : Beat(l) \/ MarkUnhealthy(l)
    \/ \E p \in Procs, l \in Lords : Started(p, l)
    \/ \E p \in Procs, st \in FinalStates : Ended(p, st)

ScalerSpec == ScalerInit /\ [][ScalerNext]_scalerVars

-----------------------------------------------------------------------------
(* Properties. *)

\* Cooldown per lord, over overload and rebalance together: two migrations
\* off one lord are decided at least Cooldown apart, however its load moves
\* and also within one cycle (autoscale.go, Decide steps 4 and 5).
CooldownKept ==
    \A m, n \in moves :
        (m.from = n.from /\ m # n) => (m.at - n.at >= Cooldown \/ n.at - m.at >= Cooldown)

\* The rate limit as far as the code has it: a rebalance is decided only if
\* fewer than MaxPerMin migrations of either kind were decided in earlier
\* cycles of the last minute, although the list is pruned at every cycle.
RebalanceLimited ==
    \A r \in moves :
        r.action = "rebalance" =>
            Cardinality({m \in moves : r.at - Minute < m.at /\ m.at < r.at}) < MaxPerMin
=============================================================================
