# Etronium scheduler: TLA+ models, checks and proofs

Etronium places tenants' processes on machines. A central **scheduler** (gRPC
server, `src/internal/scheduler`) keeps a process table and a write-ahead log;
on every machine a **lord agent** (`src/internal/lord`) holds one bidirectional
stream (`LordLink.Connect`) to the scheduler, starts and kills processes and
reports how they end. This directory holds the models of the parts that carry
the system's own logic, the TLC configurations that check them and the TLAPS
proofs of what matters most.

    tlc -workers 2 -config cluster.cfg MCCluster
    tlapm ClusterProofs.tla

## 1. Inventory

| part | state | operations | talks to | what is hard | what makes it correct |
|---|---|---|---|---|---|
| process table (`process_table.go`) | per process `ProcessInfo` under `e.mu`, channel `exited`, ring buffer of output | `Create`, `UpdateState`, `UpdateResult`, `UpdateLordForHostname`, `ListByLord` | every RPC handler, receive loop, recovery goroutine and timer | `UpdateState` closes the channel after the unlock; state and result are two calls | a final entry wakes its waiters; RESTARTING always ends; the budget of restarts is kept |
| tenant RPCs (`server.go`, `migrate.go`) | none of their own | `Spawn`, `Kill`, `Wait`, `Migrate`, `WriteStdin`, `StreamProcessIO` | table, placement, sessions | the lord goes away between pick and send; `Wait` has no bound | a logged process is known after a crash; tenants are shown a possible life of a process |
| lord sessions (`connect.go`) | `lordSessions` (id to outbox of 1024), one send and one receive goroutine per stream | `Connect`, `sendLoop`, `recvLoop`, `handleStarted`, `handleProcessExit`, `handleIo` | agents, table, registry, recovery | a fresh id per stream; re-bind by hostname; `Send` abandoned after 2 s | reports reach their entry; nobody stays on a dead lord |
| registry and placement (`placement.go`) | per lord id: resources, load, `Healthy`, `DrainRequested`, last heartbeat | `Register`, `UpdateStats`, `MarkUnhealthy`, `SetDrain`, `Pick`, `PickDifferent`, `SweepHeartbeats` | `Connect`, heartbeats, `Spawn`, recovery, autoscaler | the healthy flag is set and cleared by different goroutines; scores of odd reports | only a lord with a session is picked, a silent one is not, and one is found if there is one |
| recovery (`recovery.go`) | `lastRecoveryAt`; one goroutine per ended session, one 30 s timer per respawn | `onLordDisconnect`, `recoverFromLordDisconnect`, `respawnProcessOnLord` | table, placement, sessions | runs for up to 45 s on a list made at its start | every process of a dead lord is taken over or ended |
| write-ahead log (`wal.go`) | append-only file of create, state and result events | `AppendCreate/State/Result`, `ReplayWAL` | table; `cmd/scheduler/main.go` at start | crash between any two steps, failed and torn writes, updates logged and assigned in different orders | the replayed table is the one tenants last saw, or there is a known reason |
| lord agent (`agent.go`, `exec.go`) | `procs` map, outbox that outlives the stream, one goroutine per process | `Run`, `runOnce`, `sendLoop`, `recvLoop`, `handleSpawn`, `handleKill`, `handleWriteStdin` | the scheduler's stream, the kernel | one process id may run twice; messages lost with a stream; handlers of two streams overlap | a running process can be reached; few messages are lost |
| drain (`drain.go`, `Shutdown`) | draining flag, SIGTERM then SIGKILL per process | `handleSetDrain`, `Shutdown`, LazyDeath | agents | spawns that overtake the flag, a full outbox | no process outlives a drain, and it ends |
| cgroups (`cgroup.go`) | one slice per process | `NewCgroupManager`, `CreateProcessSlice`, `Attach`, `Destroy` | the kernel | controllers passed on from level to level, busy slices | a process gets into its slice; slices are freed |
| output (`process_table.go` ring buffer, `StreamProcessIO`) | 64 KiB ring per stream, per-entry `ioLastSent` | `Write`, `Bytes`, `SinceOffset` | `handleIo`, followers | wrap-around; offsets of a full buffer | a follower sees what was written |
| stdin relay (`WriteStdin`, `resolveStdinAck`) | one waiter slot per process | `registerStdinWaiter`, `unregisterStdinWaiter`, `resolveStdinAck` | agents | concurrent calls, late acks | an ack answers its own call, and every call returns |
| autoscaler (`autoscale.go`) | samples, cooldowns, migrations of the last minute | `Sample`, `Decide`, `applyDecision` | registry, `Migrate` | decisions on stale samples | no ping-pong, rate limit |
| tenant CLI (`cmd/etronium`) | none | `run`, `shell`, `attach`, `ps`, `kill`, ... | tenant RPCs | flags that become a request with defaults | what is asked for is what is started |
| hardware detection, statistics, BPF maps, configuration, demos | none that a guard reads | I/O | kernel, `bpftool` | none | not modelled |

`PROJECT.json` repeats the list with the status of each part, and lists the
hazards with the line at which each one bites.

## 2. Modules

The system is cut along the questions asked of it. `Cluster` is the composition
of scheduler, log, streams and agents, with one action per handler; the other
modules each look closer at one part, at the granularity of its locks, sends and
system calls, and see of the rest what it may do to them.

**`ProcessEntry`** is one entry of the process table and *every goroutine that
touches it*, one step per access to shared state. `pc[g]` is what goroutine `g`
does next: `<<"spawn", FirstLord>>` is the Spawn RPC after `Create`;
`<<"recv", s>>` the receive loop of stream `s` and the cleanup in `Connect`
after it; `<<"recovery", s>>` `recoverFromLordDisconnect`; `<<"migrate", m>>` a
Migrate RPC (a tenant's or the autoscaler's); `<<"recoveryTimer", s>>` and
`<<"migrateTimer", m>>` the ack timers they arm; `<<"wait", w>>` a Wait RPC.
`UpdateState` is `SetState` (the assignment under `e.mu`), `TestExited` (the
`select`), `CloseExited` (`close`, which panics the second time) and
`UpdateResult`; `call[g]` holds the arguments of the pair under way. Lords are
seen through the messages they may send: `pending[h]` counts spawn events that
host `h` has not answered, `live[h]` the copies it has reported.

**`Cluster`** composes scheduler, log and agents: the process table (`known`,
`state`, `lord`, `restarts`), registry and sessions, recovery goroutines
(`rec`), ack timers, per-stream queues in both directions, and on each host the
running copies, the `procs` map (`tracked`) and the outbox. One action is one
handler, or one turn of a loop that sleeps or sends in between; each
`UpdateState` in it is atomic, because `ProcessEntry` and `WriteAheadLog` ask
about the rest. The log is kept as what `ReplayWAL` makes of it (`walKnown`,
`walState`, `walLord`): appending an event applies it. It has a fresh lord id
per stream, re-binds through `FindByHostname` (any id of that host, as a walk of
a Go map gives), streams that die with what they carry, reports lost ahead of
`Register`, events that overtake each other after the 2 s send timeout, crashes
of agents, and crash and restart of the scheduler.

**`ProcessLife`** is the abstract specification: the states of a process that
`GetProcess`, `ListProcesses` and `Wait` may show a tenant one after the other.
`Cluster` implements it (`Life == INSTANCE ProcessLife WITH life <- Shown`, and
`ProcessLives == Life!Spec`). `Shown` is the table's state while the scheduler
runs, and what the log would bring back while it does not: a crash and a
restart must be invisible. It also says plainly what tenants must live with: a
report may bring an ended process back to RUNNING, since reports name a process
and not a copy.

**`WriteAheadLog`** is the log with two updates of one entry under way at once.
An update appends its event (`LogState`) and only then locks the entry
(`AssignState`); the exit code follows in the same two steps. The file is
represented by what `ReplayWAL` makes of it (`disk`) and the unterminated line at
its end (`tail`). Writes fail or are torn, the error sticks to the
`bufio.Writer`, a start may do without the log, and the scheduler crashes
between any two steps and replays.

**`LordSessions`** is the scheduler's end of the streams, with `Connect` taken
apart: receive Register, publish the session, register, re-bind, queue
RegisterAck, and the two loops and the cleanup after them. A lord id is one
stream. The registry has `Healthy` (what placement reads), `Info.Healthy` (what
tenants see), the drain flag and the age of the last heartbeat; sweeps, a Spawn
between lookup and send, LazyDeath and `Shutdown` run beside. Time passes in
ticks that wait for a sweep that is due.

**`LordAgent`** is one agent. Streams follow each other, each with a receive loop
that handles its events one by one; the loop waits for the heartbeat goroutine
before it returns, so that the agent learns of a broken stream only by a `Send`
that fails, and a handler of the old stream may be at work beside the new one's.
Handlers are split at their sends and locks. A copy is one process made by
`cmd.Start`; its waiter reports the end, deletes the `procs` key and removes the
slice. `handleSetDrain` sets the flag, lists the processes, sends SIGTERM, waits,
sends SIGKILL, reports and exits.

**`StdinRelay`** is the WriteStdin calls for one process: a call registers its
channel in the one slot of the process, looks up the session, sends, waits and
unregisters. An ack names the process only. Both timeouts may end at any time,
streams end with what they hold, acks are lost or late.

**`Placement`** has `Pick` and `PickDifferent` as operators: for a registry they
give the *set* of lords that a walk of a Go map may end with. The floats of
`scoreLord` are fractions of integers.

**`Launch`** follows one request through the layers: flags of `etronium run` and
`shell`, Spawn's checks and defaults, placement, entry and log record, respawns
by recovery and Migrate that rebuild the request from the entry, restarts of the
scheduler that rebuild the entry from the log, and the cgroup that the lord makes
for each copy (`NewCgroupManager`, `CreateProcessSlice`, `Attach`, with what the
kernel then accepts as external rules). Respawns come one at a time here.

**`ProcessOutput`** is the output of one process: the ring buffer (`data`,
`off`, `full`) with `Write`, `Bytes` and `SinceOffset`, which hold its lock and
are atomic, and the StreamProcessIO calls that follow it, which are not: a
follower reads the shared `ioLastSent` when it attaches (`Attach`), then reads
the buffer and sends (`Tick`, or `FinalFlush` after the exit), then records the
offset (`Record`), and others may do the same in between. A byte is the number
of its arrival; `kept` is the history of the bytes that `Write` stored (it
drops what does not fit before the end of the buffer).

**`Autoscale`** is the periodic loop: `Cycle` is `Sample` and `Decide` at one
tick, `ApplyDecision` one decision carried out through `Migrate` and
`respawnProcessOnLord`, while lords come and go and reports arrive. The clock
counts intervals. Loads are small integers; `Sampled` says that the cpu figure
never goes down, because it is a cumulative counter divided by one second. Two
things of the documentation are absent because the code has no such effect: the
blacklist (reject rates are keyed by four raw bytes and looked up by a ULID, so
none is ever found) and the target of a decision (`Migrate` is called with
`Auto` and picks a lord itself).

The modules **`...Proofs`** hold the theorems, one per component, but for
`PlacementProofs`, which has those about `Placement` and its two users, `Launch`
and `Autoscale` (whose specification is named `ScalerSpec`, so that both can be
extended together). **`MC...`** has what the configurations need: host
assignments, sample loads, symmetries.

In each module an operator with a comment `Mutant of X` is not part of the
specification: it is a wrong version of `X`, used to see that a property
notices it. History variables are commented as such; no guard reads them.

## 3. Runs

| run | question | bounds | result |
|---|---|---|---|
| `entry` | Do the non-atomic updates of all goroutines keep a final entry closing, a RESTARTING one guarded, and `max_restarts` up to overlaps? | two lords on two hosts, one Migrate, one recovery attempt per lord, budget of one restart | holds, 1.2 million states |
| `entry_live` | Do Wait RPCs return, does RESTARTING end? (`FairSpec`) | two lords, two recovery attempts each, budget of two, one Wait, no Migrate | holds |
| `entry_doubleclose` | "UpdateState atomically changes the state and wakes the waiters" | one host that reconnects | violated |
| `cluster` | Is every process known after a crash, every RESTARTING process timed, no process forgotten on a dead lord, and is a tenant shown a life of a process (`ProcessLives`)? | two hosts (symmetric), one process, two streams, one scheduler crash, two attempts, outbox of two, budget of one restart | holds, 0.6 million states |
| `wal` | Where may the log be behind the table, which exit codes and lines may be lost? | two processes, two updaters (symmetric), one fault, one crash | holds |
| `session` | Does a lord without a session stay pickable, is silence noticed in time? | two lords (symmetric), outbox of one, sweeps every third of the TTL as in the code | holds, 0.9 million states |
| `session_ack` | "the first message from the scheduler is RegisterAck" | two lords, outbox of two | violated |
| `agent` | Are running processes reachable, does a drain kill what it must and end, how many messages does a stream cost, are slices freed? | one process id, two copies, two streams, outbox of one, three events | holds |
| `stdin` | Is the waiter of a lone call kept, does an ack answer its own call, does every call return? | two lords, three calls, outbox of one | holds |
| `launch` | Does placement find a lord if there is one, does every copy get what was asked for, is the budget per run of the scheduler, does a process get into its slice? | two lords, weighted placement, three loads, controllers cpu and memory, limits -1, 0 and 2, default of one restart, three respawns, one crash | holds, 0.2 million states |
| `output` | Do dumps and followers get the right bytes? | buffer of 3, chunks of 1 to 4 bytes, 8 bytes, two followers (symmetric) | holds, 0.3 million states |
| `autoscale` | Are cooldown and rate limit kept, over all decisions of all cycles? | three lords (symmetric), one process, three cycles, cooldown and minute of two intervals as by default, limit of two | holds, 0.5 million states |

*Why the bounds are enough.* Processes do not share guards except through the
candidates of one recovery, lords only through `Pick`; two streams give a dead
lord and either a target or a reconnect of the same machine, one crash gives
both incarnations, an outbox of two gives overtaking and the full case. Two
updaters are enough to log in one order and assign in the other; one fault
before or after one crash gives each way in which a line is torn and glued. Two
copies of one id give the shared `procs` key and the shared slice, two streams a
stale send loop and a handler that overlaps; an outbox of one is full after one
message, and events overtake each other only in `session_ack` and `cluster`, whose
outboxes hold two. Three calls are needed for a late ack of the first to find the slot of
the second while the third overlaps it. In `launch` the three loads are an
idle lord, one that uses more than the memory it advertises and one that reports
900 % cpu and no memory at all; one limit
is refused (-1), one means none (0). A buffer of three has a first, a middle and
a last slot; chunks of 1 to 4 are shorter than, equal to and longer than it, and
eight bytes wrap twice (the agent's chunks are 4 KiB at most, so that with
64 KiB the branch for a chunk of the buffer's size is taken only for other
clients; the run takes both). Three cycles contain a cooldown that holds, one
that has passed, and a migration that is pruned. The invariants and the
refinement of all passing runs are in addition proved for all values of the
constants (section 4), so the bounds limit only the liveness checks.
Constants named `Max...` bound guards, as do the finite sets of calls, lord ids
and process ids; besides, `Cluster!Kill` is taken only when no kill of the
process is queued, and `ProcessOutput!Tick` only when it finds something, since
it changes nothing else.

*Deadlock* is checked in `autoscale` only: a system whose process has ended,
with no stream left to open and no call left to make, really does stop in the
other models.

*Fairness* is weak, and only for steps that need nothing from outside.
`ProcessEntry!Fairness` has, per goroutine, the steps of an
`UpdateState`/`UpdateResult` pair, of a respawn, of a recovery, of an ack timer,
and the return of a Wait on a closed channel. `LordAgent!Fairness` has the steps
of `handleSetDrain` and the `os.Exit` after it, `StdinRelay!Fairness` the steps
of each WriteStdin call, timeouts included. Go's scheduler is preemptive, locks
are held for bounded times, sends and waits time out, and timers fire. Nothing is
assumed of lords, processes, tenants or the network: no lord need ever answer, no
process need ever end.

### What the violations show

* **`NoDoubleClose`** (`process_table.go:223`). Two finalizers (an exit report
  and an ack timer, say) both find `exited` open, since the `select` and the
  `close` run without a lock; the second `close` panics the scheduler.
* **`AckComesFirst`** (`connect.go:104`). Session and registry entry are
  published before RegisterAck is queued. A Spawn that picks the lord in between
  makes its event the first one; the agent then leaves its receive loop with an
  error and waits for the heartbeat goroutine, which goes on. The lord stays
  healthy and takes no event any more.

### Known disagreements

Found while modelling; the models do as the code does.

* **Sweep after success** (`recovery.go:148`). "candidates still in RESTARTING
  after retry exhaustion get STOPPED" (`:147`), but the sweep runs after a
  successful pass too, and stops the candidate whose spawn has just been sent.
* **Debounce** (`recovery.go:61`). It is to protect from a storm when a lord
  reconnects repeatedly (`:53`), but is keyed by the lord id, which is new for
  every stream, so it never applies. `RestartBudget` bounds what the overlap costs.
* **Kill after a restart** (`wal.go:177`). Tenants are to "go on to
  list/get/kill" after a crash (`wal.go:11`); a replayed entry is bound to a lord
  id that no stream will have again, and `Kill` finds no session. Theorem
  `ClusterOrphansStay` says how long: until a lord reports the process or it is
  migrated, even if its machine has reconnected and even if the entry is
  RESTARTING, whose ack timer went with the crash (`recovery.go:241`).
* **Re-check and mark** (`recovery.go:176`, `:208`). A respawn checks that the
  process has not ended and later marks it RESTARTING, in two critical sections.
  An end in between is overwritten: at the granularity of `ProcessEntry` an ended
  entry may become RESTARTING, which `ProcessLife` does not have, so it is the
  atomic `UpdateState` of `Cluster` that `ProcessLives` rests on.
  `RestartingGuarded` says that such an entry settles all the same.
* **Full buffer** (`process_table.go:377`). The total of a full buffer is the
  constant 2*cap; a follower that has reached it is sent nothing more, although
  the new bytes are to be sent every 100 ms (`server.go:422`). Theorem
  `OutputFullSendsOnce` has the exact extent.
* **Moves end processes** (`recovery.go:192`, `autoscale.go:537`). Autoscaling
  "does not kill" (`docs/AUTOSCALE.md:70`), but a move is a restart, and the move
  after the last allowed one ends the process. The process whose state changed
  last is taken first, so the same one is moved there and back.
* **Global rate limit** (`autoscale.go:281`). "max 5 migrations per minute
  (globally)" (`docs/AUTOSCALE.md:42`); overload migrations are counted but do not
  look at it. `RebalanceLimited` states the part the code has.
* **Limits are never applied** (`cgroup.go:61`). The level of the lord id gets no
  controllers to pass on, so the limit files of a slice do not exist, and writes
  to them are skipped (`docs/PROTO.md:71` has a hard limit). If it did pass the
  memory controller on, `enableControllers` on the slice itself (`:83`) would
  make the kernel refuse the process: `SlicedIsAttached` holds only as long as
  the first is wrong too, and its mutant shows it.
* **Restarts of shells** (`server.go:187`). The shell asks for 0 restarts so as
  not to be restarted (`cmd/etronium/main.go:118`); Spawn takes 0 for "not given"
  and makes it 10.
* **CPU statistics** (`stats.go:49`). The file `cpu.usage.usec` is not one that
  cgroup v2 has, so a process's cpu figure is not read.
* **Start without a log** (`cmd/scheduler/main.go:92`). A log that cannot be
  opened is a warning, and the run goes unrecorded; `LogAgrees` names it as one of
  the reasons for a difference.

## 4. Proofs

All proofs are complete, for all values of the constants that satisfy the named
assumptions: `EntryAssumption` (hosts of sessions, first lord, integer bounds),
`ClusterAssumption` (bounds are naturals, `MaxRestarts` is not 0 because Spawn
replaces 0 by its default, `NoHost` is not a host), `OutputAssumption` (the
buffer has at least one byte), `LaunchAssumption` (finitely many lords, loads and
limits in the ranges of their types, a positive default of restarts),
`AutoscaleAssumption` (durations and limits are
naturals, the cooldown is positive), `WALAssumption` (live and final states
differ, markers are no process ids), `AgentAssumption`, `SessionAssumption` and
`RelayAssumption` (an outbox holds at least one message, `None` is none of the
names). TLC evaluates each of them in the run of its module.

| theorem | states |
|---|---|
| `EntryTypeOK`, `EntryFinalIsClosing`, `EntryRestartingGuarded`, `EntryRestartBudget` | the invariants of run `entry`, for any number of sessions, hosts, migrations and waiters |
| `ClusterTypeOK`, `ClusterKnownEverywhere`, `ClusterRestartingTimed`, `ClusterNoForgottenProcess` | the invariants of run `cluster`, for any number of hosts, processes, streams and crashes |
| `ClusterProcessLives` | `Cluster` implements `ProcessLife` |
| `ClusterEndedStays` | what tenants are shown of an ended process changes only by a lord's report, over crashes and restarts |
| `ClusterOrphansStay` | an entry bound to a lord id of an earlier incarnation cannot be killed and does not change, until a report, a Migrate or the next crash |
| `OutputTypeOK`, `OutputDumpIsLatest`, `OutputFollowExact`, `OutputOffsetIsCovered` | the invariants of run `output`, for any capacity, chunks and number of followers |
| `OutputFullSendsOnce` | a full buffer stays full and sends each follower at most one more batch |
| `PickFound`, `PickDifferentFound` | placement comes back empty only if no lord is eligible, for any finite set of lords and any loads |
| `LaunchTypeOK`, `LaunchNoneOverlooked`, `LaunchAskedForIsStarted`, `LaunchBudgetPerRun`, `LaunchSlicedIsAttached` | the invariants of run `launch`, for any lords, loads, controllers, limits, respawns and crashes |
| `LaunchUnlimited` | no limit of a tenant is ever written |
| `AutoscaleTypeOK`, `AutoscaleCooldownKept`, `AutoscaleRebalanceLimited` | the invariants of run `autoscale`, for any lords, loads and configuration |
| `WriteAheadLogProofs!TypeCorrect`, `LogAgreement`, `ExitCodes`, `TornLines` | the invariants of run `wal`, for any number of processes, updaters, faults and crashes |
| `EntriesAreKept` | no crash, fault or overlap takes back what the log has of a process, unless its create event is the unterminated last line |
| `LordAgentProofs!TypeCorrect`, `RunningIsReachable`, `DrainKillsAll`, `FewLosses`, `SlicesAreFreed` | the invariants of run `agent`, for any number of copies, streams and events |
| `LordSessionsProofs!TypeCorrect`, `HealthyLordsAreConnected`, `StaleLordsAreSwept` | the invariants of run `session`, for any lords, TTL and period |
| `StdinRelayProofs!TypeCorrect`, `WaitersAreKept`, `AcksAreRight` | the invariants of run `stdin`, for any lords and calls |

`ProcessEntryProofs!Inv` adds to the properties `OneShot`: a recovery goroutine
and its timer start once (`OneRecovery`, `OneTimer`), and only respawners call
`UpdateState(RESTARTING)` (`RestartCallers`). Without it an `OnLordDisconnect`
could throw away a respawn that is about to send, or a new respawn overwrite a
timer whose UpdateState is under way, and the guard would be lost.
`RestartBudget` is proved by counting the respawners that have read the budget
and not yet spent it along with the restarts already made: each read found the
count below `MaxRestarts`, and only the others can have raised it since.

`ClusterProofs!Inv` is `TypeOK /\ Scheduler /\ KnownEverywhere`. `Scheduler`
adds `Ids` (ids in use are below `nextId`, sessions are registered), `Down` (a
stopped scheduler has an empty table and registry), `ReplayState` (a running
scheduler's log would bring back the table's states) and `Recoveries` (a running
recovery belongs to a registered lord without session, its candidates are
known, and *within a pass the candidates already handled are no longer up on
the dead lord*). The last part is what makes `NoForgottenProcess` inductive:
when the loop ends with a success, every candidate has been handled.
The argument goes action by action; lemmas on queues (`AppendAbout`,
`TailAbout`, `SwapAbout`) carry `KnownEverywhere` through sends, receives and
overtaking, and effect lemmas (`RespawnEffect`, `RecvEffect`) state once what a
respawn and a report do to an entry. The refinement uses the same effect lemmas:
each action is a step of `ProcessLife` or leaves `Shown` alone, and `ReplayState`
is what makes a crash and a restart stutter. `ClusterEndedStays` comes from the
same case split. `ClusterOrphansStay` needs `Followed` besides: the candidates and
targets of recoveries and the processes under a timer are about lords registered
in this incarnation, and an orphan's lord is none of them, since ids are never
given out twice.

`ProcessOutputProofs!Inv` adds `Ring`, which says where each of the latest bytes
lies: the slots below `off` hold the latest bytes and, if the buffer is full,
the slots from `off` on the ones before them. `DumpIsLatest` follows from it but
does not say enough about slots to survive a write. `FollowExact` needs besides
that offsets of followers are at most the bytes stored while the buffer is not
full, and `OffsetIsCovered` that every follower's starting offset is covered as
well. `FullSendsOnce` rests on `Unattached`: the offset of a call that has not
started is 0.

In `PlacementProofs`, `Greatest` says that finitely many scores have a greatest
one. Induction over finite sets being out of reach (below), it takes a least set
without a greatest score, by the well-foundedness of strict inclusion, and
removes an element. That scores are not negative (`ScoreType`), whatever lords
report, makes the search that starts at -1 succeed. `LaunchInv` adds to the
properties `Order` (nothing is there before the request), `Kept` (entry, log
record and spawn events have what was asked for, as the copies made of them must),
`Counted` (the respawns are at most `max` for each crash so far and the count of
this run) and `NothingEnabled` (no lord passes a controller on to slices), which is
why copies get into their slices and also why no limit is written.

`ScalerInv` relates what `Decide` remembers to the history of all
decisions: `Marked` (LastMigration is at least the date of every migration off
that lord) gives the cooldown, `Recalled` (every migration of the last minute is
still in the pruned list) the rate limit. `Decided` states what one cycle may
decide; that a rebalance never joins an overload migration off the same lord is
the step that the order inside `Decide` matters for.

`WriteAheadLogProofs!Inv` adds `Given` (table and log are about ids that were
given out), `Alone` and `Agrees` (an update that was not raced is the only one of
its process, and what it logged is what it will assign), `ExitLogged` (an exit
code that is not logged has a reason too) and `Spent` (lost lines, and the
unterminated one that may yet cost one, are at most the tears). `EntriesAreKept`
needs `Fresh`: an unterminated create event is the only one of its process.

`LordAgentProofs!Inv` has `Base` (types; which copies are used, which are listed
in `procs`; a spawn under way has a copy of its own), `Losses` (a stream that may
still lose messages has lost accordingly fewer), `Reach` (a running copy is in
`procs`, or its handler is about to put it there, or it has a twin), `DrainFlags`
(once a drain is about to kill, only spawns that overtook the flag are under way),
`Drained` (what it did not find in `procs` overtook it or has a twin), and
`SliceFreed`.

`LordSessionsProofs!IInv` adds `SessionSteps` and `HealthySteps` (how far
`Connect` is says whether session and registry entry are there) and `AgeBound`:
a healthy lord's age is at most the TTL and the time since the last sweep, which
the sweep makes true and a tick keeps.

`StdinRelayProofs!IInv` adds `Addressed` (a call in progress has a session to look
up), `BothOverlap` (of two calls in progress both
count as overlapped), and `OneWrite` while nobody has given up or overlapped: the
one write that is anywhere on its way is that of the call that waits.

*Model-checked only*: the liveness properties `FinalWakes`, `RestartSettles`,
`DrainEnds` and `CallReturns` (fairness and ENABLED are out of the prover's
reach; `FinalIsClosing` and `RestartingGuarded` are the safety half of the first
two), and the two violations, whose counterexamples are TLC's. What a recursive
definition computes for every input could not be proved either, since the
induction theorems take an operator as a parameter; no model needs one.

*Proved only*: the action properties `EndedStays`, `OrphansStay`, `FullSendsOnce`
and `EntriesEndure`, which are defined beside their proofs.

## 5. Not modelled

Listed with reasons in `PROJECT.json`. In short: hardware detection, statistics
of `/proc`, BPF maps and configuration are I/O whose results are inputs of the
models or are read by no guard; the stubs and the HTTP gateway are generated and
keep no state; the demos are workloads; the CLI's other commands send one request
and print the answer, and its terminal handling is I/O. In the modelled parts:
exit codes, timestamps, error texts and tenants' names (no guard reads them); the
pumps that move the bytes of stdio in the agent; over-long log lines and loss of
the page cache (accepted in `wal.go:15`); `RotateWAL` (never called);
`WatchProcess` subscribers (nobody subscribes); SIGTERM to the agent, which ends
it without a drain; the crash of a host, which `Cluster` has.

What `Cluster` leaves to other modules: which lord `Pick` returns (any it could
return, or none), and everything that is split finer in section 2.

## 6. Plan

Done so far: one entry and its goroutines, the composition with log and agents,
the output, the autoscaler; then the log under faults, the agent with drain and
slices, the sessions and the registry, the stdin relay, the abstract life of a
process with its refinement, and the way of a request from the command line to
the cgroup; and the proofs of all their invariants, of the refinement and of four
action properties. Next:

1. **Links between the models** by proof: that `LordAgent` and `LordSessions`, with
   their finer steps, do to lists of processes and sessions what `Cluster` lets a
   handler do at once.
2. **Liveness of `Cluster`** under a fair network: a spawned process is eventually
   reported, which the missing ack timer of the first spawn (`server.go:204`) may
   prevent.
