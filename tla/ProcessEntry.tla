---------------------------- MODULE ProcessEntry ----------------------------
(***************************************************************************)
(* One entry of the scheduler's process table and every goroutine that     *)
(* touches it (internal/scheduler/process_table.go, recovery.go,           *)
(* migrate.go, connect.go, server.go).                                     *)
(*                                                                         *)
(* ProcessEntry.UpdateState is not atomic: it takes e.mu for the           *)
(* assignment only, then looks at the `exited` channel and closes it with  *)
(* no lock held, and its callers record the result in a further call.      *)
(* This module gives each of these accesses a step of its own, so that the *)
(* Spawn RPC, the receive loops of the lords' streams, the recovery        *)
(* goroutines, Migrate RPCs, the 30 s ack timers and Wait RPCs interleave  *)
(* as the Go scheduler lets them.                                          *)
(*                                                                         *)
(* Left out: timestamps, LastError, local pids and resource usage (no      *)
(* guard reads them), WatchProcess subscribers (notified without blocking, *)
(* and no code subscribes), Kill, which changes no field of the entry, and *)
(* the write-ahead log, which no guard of these goroutines reads (module   *)
(* Cluster has it).                                                        *)
(***************************************************************************)
EXTENDS Integers, FiniteSets

CONSTANTS
    Sessions,     \* lord ids: Connect gives every stream a fresh one
    Hosts,        \* machines that run a lord agent
    Host,         \* the machine behind each lord id (Register.hostname)
    FirstLord,    \* the lord Pick returned for the Spawn RPC
    Migrators,    \* Migrate RPCs (a tenant's or the autoscaler's)
    Waiters,      \* Wait RPCs without a timeout
    MaxRestarts,  \* max_restarts after Spawn's default; negative: unlimited
    MaxAttempts,  \* bound of the recovery loop (maxAttempts, 10 in the code)
    NoLord        \* the empty lord id

ASSUME EntryAssumption ==
    /\ Host \in [Sessions -> Hosts]
    /\ FirstLord \in Sessions
    /\ NoLord \notin Sessions
    /\ IsFiniteSet(Sessions) /\ IsFiniteSet(Migrators)
    /\ MaxRestarts \in Int \ {0}
    /\ MaxAttempts \in Nat

VARIABLES
    state,         \* Info.State
    lordId,        \* Info.Ref.LordId
    restartCount,  \* Info.RestartCount
    recorded,      \* Info.ExitCode and ExitSignal have been set
    exited,        \* TRUE once the `exited` channel is closed
    panicked,      \* a second close() of `exited` has crashed the scheduler
    pc,            \* what each goroutine does next
    call,          \* arguments of its UpdateState/UpdateResult pair
    target,        \* the lord a respawn goes to
    attempt,       \* attempts a recovery goroutine has made
    pending,       \* per host: spawn events not yet answered with Started
    live           \* per host: copies that have reported Started

info   == <<state, lordId, restartCount, recorded>>
locals == <<call, target, attempt>>
copies == <<pending, live>>
vars   == <<info, exited, panicked, pc, locals, copies>>

-----------------------------------------------------------------------------
State == {"NEW", "READY", "RUNNING", "PAUSED", "MIGRATING", "RESTARTING",
          "EXITED", "STOPPED"}
Final == {"EXITED", "STOPPED"}

\* The states from which recovery takes a process to another lord.
Recoverable == {"RUNNING", "READY", "PAUSED", "MIGRATING"}

\* How a process ended: the first two are reported by a lord (handleSpawn), the
\* others are the scheduler's codes -1, -2, -3, -4 and -5.
LordResult == {"exit", "signal"}
Result == LordResult \cup {"none", "spawnFailed", "respawnFailed",
                           "ackTimeout", "maxRestarts", "noLord"}

Lord == Sessions \cup {NoLord}
Call == [state: State, lord: Lord, result: Result]
NoCall == [state |-> "NEW", lord |-> NoLord, result |-> "none"]

\* Goroutines.
Spawner     == <<"spawn", FirstLord>>
Recv(s)     == <<"recv", s>>         \* Connect: receive loop, then cleanup
Recovery(s) == <<"recovery", s>>     \* recoverFromLordDisconnect(s)
Migrate(m)  == <<"migrate", m>>
Wait(w)     == <<"wait", w>>
TimerOf(g)  == IF g[1] = "recovery" THEN <<"recoveryTimer", g[2]>>
                                    ELSE <<"migrateTimer", g[2]>>

Receivers  == {"recv"} \X Sessions
Recoveries == {"recovery"} \X Sessions
Migrations == {"migrate"} \X Migrators
Respawners == Recoveries \cup Migrations
Timers     == ({"recoveryTimer"} \X Sessions) \cup ({"migrateTimer"} \X Migrators)
WaitCalls  == {"wait"} \X Waiters
Goroutines == {Spawner} \cup Receivers \cup Respawners \cup Timers \cup WaitCalls

Updating == {"setState", "testExited", "close", "updateResult"}
Label == Updating \cup {"off", "idle", "unlinked", "list", "pick", "recheck",
             "limit", "assign", "send", "sweep", "armed", "waiting",
             "done"}

TypeOK ==
    /\ state \in State
    /\ lordId \in Lord
    /\ restartCount \in Nat
    /\ recorded \in BOOLEAN
    /\ exited \in BOOLEAN
    /\ panicked \in BOOLEAN
    /\ pc \in [Goroutines -> Label]
    /\ call \in [Goroutines -> Call]
    /\ target \in [Respawners -> Lord]
    /\ attempt \in [Sessions -> Nat]
    /\ pending \in [Hosts -> Nat]
    /\ live \in [Hosts -> Nat]

-----------------------------------------------------------------------------
(* Helpers. *)

\* Goroutine g is about to do what the label says.  A panic ends all of them.
At(g, label) == ~panicked /\ pc[g] = label

Goto(g, label) == pc' = [pc EXCEPT ![g] = label]

\* Start `entry.UpdateState(st, l, _)`, followed by UpdateResult(r) when st is
\* final: everywhere in the code a final UpdateState is followed by one.
Invoke(g, st, l, r) ==
    /\ call' = [call EXCEPT ![g] = [state |-> st, lord |-> l, result |-> r]]
    /\ Goto(g, "setState")

\* The call returns; its arguments are out of scope.
Return(g, label) == call' = [call EXCEPT ![g] = NoCall] /\ Goto(g, label)

\* The registry calls a lord healthy until MarkUnhealthy, which comes after
\* its session has left lordSessions.
Healthy(s) == pc[Recv(s)] \notin {"off", "done"}
Linked(s)  == Healthy(s) /\ pc[Recv(s)] # "unlinked"

-----------------------------------------------------------------------------
(* UpdateState and UpdateResult, one step per access to shared state. *)

\* Where a goroutine goes on after an UpdateState to a state that is not final.
AfterState(g) == IF call[g].state = "RESTARTING" THEN "assign" ELSE "idle"

\* Mutant of SetState: only EXITED counts as final.
SetStateExitedOnly(g) ==
    /\ At(g, "setState")
    /\ state' = call[g].state
    /\ lordId' = IF call[g].lord = NoLord THEN lordId ELSE call[g].lord
    /\ IF call[g].state = "EXITED" THEN Goto(g, "testExited") /\ UNCHANGED call
                                   ELSE Return(g, AfterState(g))
    /\ UNCHANGED <<restartCount, recorded, exited, panicked, target, attempt, copies>>

\* Mutant of SetState: an entry that is being restarted ignores an end, as if
\* it could only be that of the old copy.
SetStateIgnoresEnd(g) ==
    /\ At(g, "setState")
    /\ state' = IF state = "RESTARTING" /\ call[g].state \in Final THEN state ELSE call[g].state
    /\ lordId' = IF call[g].lord = NoLord THEN lordId ELSE call[g].lord
    /\ IF call[g].state \in Final THEN Goto(g, "testExited") /\ UNCHANGED call
                                  ELSE Return(g, AfterState(g))
    /\ UNCHANGED <<restartCount, recorded, exited, panicked, target, attempt, copies>>

SetState(g) ==
    /\ At(g, "setState")
    /\ state' = call[g].state
    /\ lordId' = IF call[g].lord = NoLord THEN lordId ELSE call[g].lord
    /\ IF call[g].state \in Final THEN Goto(g, "testExited") /\ UNCHANGED call
                                  ELSE Return(g, AfterState(g))
    /\ UNCHANGED <<restartCount, recorded, exited, panicked, target, attempt, copies>>

\* Mutant of TestExited: the `default` branch of the select is missing.
TestExitedNoDefault(g) ==
    /\ At(g, "testExited")
    /\ Goto(g, "updateResult")
    /\ UNCHANGED <<info, exited, panicked, locals, copies>>

\* select { case <-e.exited: default: ... } looks at the channel ...
TestExited(g) ==
    /\ At(g, "testExited")
    /\ Goto(g, IF exited THEN "updateResult" ELSE "close")
    /\ UNCHANGED <<info, exited, panicked, locals, copies>>

\* ... and close(e.exited) panics if another goroutine has closed it since.
CloseExited(g) ==
    /\ At(g, "close")
    /\ panicked' = exited
    /\ exited' = TRUE
    /\ Goto(g, "updateResult")
    /\ UNCHANGED <<info, locals, copies>>

\* A receive loop takes its next message; a recovery goroutine whose respawn
\* returned an error goes round its retry loop; any other caller is finished.
AfterResult(g) ==
    IF g \in Receivers THEN "idle"
    ELSE IF g \in Recoveries /\ call[g].result # "noLord" THEN "pick"
    ELSE "done"

\* UpdateResult: logs the result and assigns it.
UpdateResult(g) ==
    /\ At(g, "updateResult")
    /\ recorded' = TRUE
    /\ Return(g, AfterResult(g))
    /\ UNCHANGED <<state, lordId, restartCount, exited, panicked, target, attempt, copies>>

Update(g) ==
    SetState(g) \/ TestExited(g) \/ CloseExited(g) \/ UpdateResult(g)

-----------------------------------------------------------------------------
(* Spawn RPC: the entry exists (state READY, logged); SendSpawn is next. *)

SpawnSend ==
    /\ At(Spawner, "send")
    /\ \/ /\ Linked(FirstLord)
          /\ pending' = [pending EXCEPT ![Host[FirstLord]] = @ + 1]
          /\ Goto(Spawner, "done")
          /\ UNCHANGED call
       \/ \* no session, or its outbox stays full for 5 s
          /\ Invoke(Spawner, "STOPPED", NoLord, "spawnFailed")
          /\ UNCHANGED pending
    /\ UNCHANGED <<info, exited, panicked, target, attempt, live>>

-----------------------------------------------------------------------------
(* Streams: Connect, its receive loop and its cleanup. *)

\* A lord registers and gets lord id s.  FindByHostname walks a Go map that
\* already holds s and still holds every earlier id of that host, so `old` is
\* any of them; only if it is the entry's lord is the entry re-bound to s.
Connect(s) ==
    /\ At(Recv(s), "off")
    /\ \E old \in {x \in Sessions : Host[x] = Host[s] /\ (x = s \/ pc[Recv(x)] # "off")} :
          lordId' = IF lordId = old THEN s ELSE lordId
    /\ Goto(Recv(s), "idle")
    /\ UNCHANGED <<state, restartCount, recorded, exited, panicked, locals, copies>>

\* handleStarted
RecvStarted(s) ==
    /\ At(Recv(s), "idle")
    /\ pending[Host[s]] > 0
    /\ pending' = [pending EXCEPT ![Host[s]] = @ - 1]
    /\ live' = [live EXCEPT ![Host[s]] = @ + 1]
    /\ Invoke(Recv(s), "RUNNING", s, "none")
    /\ UNCHANGED <<info, exited, panicked, target, attempt>>

\* handleProcessExit: a copy ends, or one that was never reported as started:
\* cmd.Start failed, the lord is draining, or the Started was lost with its
\* stream.  The exit is matched to the entry by process id alone: its sender is
\* not compared with the entry's lord.
RecvExit(s, r) ==
    /\ At(Recv(s), "idle")
    /\ \/ /\ live[Host[s]] > 0
          /\ live' = [live EXCEPT ![Host[s]] = @ - 1]
          /\ UNCHANGED pending
       \/ /\ pending[Host[s]] > 0
          /\ pending' = [pending EXCEPT ![Host[s]] = @ - 1]
          /\ UNCHANGED live
    /\ Invoke(Recv(s), IF r = "signal" THEN "STOPPED" ELSE "EXITED", NoLord, r)
    /\ UNCHANGED <<info, exited, panicked, target, attempt>>

\* An event is lost with the stream's outbox when the session ends, or with a
\* lord that crashes.  (After a 2 s timeout sendLoop only stops waiting: the
\* Send it started goes on.)
LoseSpawn(h) ==
    /\ ~panicked
    /\ pending[h] > 0
    /\ pending' = [pending EXCEPT ![h] = @ - 1]
    /\ UNCHANGED <<info, exited, panicked, pc, locals, live>>

\* The receive loop returns: first the session leaves lordSessions, ...
Disconnect(s) ==
    /\ At(Recv(s), "idle")
    /\ Goto(Recv(s), "unlinked")
    /\ UNCHANGED <<info, exited, panicked, locals, copies>>

\* ... then the lord is marked unhealthy and its recovery goroutine starts.
OnLordDisconnect(s) ==
    /\ At(Recv(s), "unlinked")
    /\ pc' = [pc EXCEPT ![Recv(s)] = "done", ![Recovery(s)] = "list"]
    /\ UNCHANGED <<info, exited, panicked, locals, copies>>

-----------------------------------------------------------------------------
(* recoverFromLordDisconnect *)

RecoverList(s) ==
    /\ At(Recovery(s), "list")
    /\ Goto(Recovery(s), IF lordId = s /\ state \in Recoverable THEN "pick" ELSE "done")
    /\ UNCHANGED <<info, exited, panicked, locals, copies>>

\* One turn of the retry loop.  Pick returns a healthy lord that is not
\* draining, or nothing: a connected lord may have missed its heartbeats.
RecoverPick(s) ==
    /\ At(Recovery(s), "pick")
    /\ attempt[s] < MaxAttempts
    /\ attempt' = [attempt EXCEPT ![s] = @ + 1]
    /\ \/ \E t \in Sessions :
             /\ Healthy(t)
             /\ target' = [target EXCEPT ![Recovery(s)] = t]
             /\ Goto(Recovery(s), "recheck")
       \/ UNCHANGED <<target, pc>>
    /\ UNCHANGED <<info, exited, panicked, call, copies>>

RecoverExhausted(s) ==
    /\ At(Recovery(s), "pick")
    /\ attempt[s] >= MaxAttempts
    /\ Goto(Recovery(s), "sweep")
    /\ UNCHANGED <<info, exited, panicked, locals, copies>>

\* After the loop, whether it ended by success or by exhaustion, a candidate
\* that is still RESTARTING is stopped.
RecoverSweep(s) ==
    /\ At(Recovery(s), "sweep")
    /\ IF state = "RESTARTING"
       THEN Invoke(Recovery(s), "STOPPED", NoLord, "noLord")
       ELSE Goto(Recovery(s), "done") /\ UNCHANGED call
    /\ UNCHANGED <<info, exited, panicked, target, attempt, copies>>

-----------------------------------------------------------------------------
(* Migrate RPC: any healthy lord (auto), or the id the caller names, which may *)
(* be one whose session is closed.                                             *)

MigrateBegin(m, t) ==
    /\ At(Migrate(m), "off")
    /\ pc[Recv(t)] # "off"
    /\ t # lordId
    /\ target' = [target EXCEPT ![Migrate(m)] = t]
    /\ Goto(Migrate(m), "recheck")
    /\ UNCHANGED <<info, exited, panicked, call, attempt, copies>>

-----------------------------------------------------------------------------
(* respawnProcessOnLord, for recovery and Migrate alike. *)

\* What follows a respawn that returned nil.
AfterRespawn(g) == IF g \in Recoveries THEN "sweep" ELSE "done"

RespawnRecheck(g) ==
    /\ At(g, "recheck")
    /\ Goto(g, IF state \in Final THEN AfterRespawn(g) ELSE "limit")
    /\ UNCHANGED <<info, exited, panicked, locals, copies>>

\* The restart budget is read without the lock, and spent only at "assign".
RespawnLimit(g) ==
    /\ At(g, "limit")
    /\ IF MaxRestarts >= 0 /\ restartCount >= MaxRestarts
       THEN Invoke(g, "STOPPED", NoLord, "maxRestarts")
       ELSE Invoke(g, "RESTARTING", NoLord, "none")
    /\ UNCHANGED <<info, exited, panicked, target, attempt, copies>>

\* Mutant of RespawnAssign: the counter goes down.
RespawnAssignDown(g) ==
    /\ At(g, "assign")
    /\ lordId' = target[g]
    /\ restartCount' = restartCount - 1
    /\ Goto(g, "send")
    /\ UNCHANGED <<state, recorded, exited, panicked, locals, copies>>

\* Mutant of RespawnAssign: a restart is counted twice.
RespawnAssignTwice(g) ==
    /\ At(g, "assign")
    /\ lordId' = target[g]
    /\ restartCount' = restartCount + 2
    /\ Goto(g, "send")
    /\ UNCHANGED <<state, recorded, exited, panicked, locals, copies>>

RespawnAssign(g) ==
    /\ At(g, "assign")
    /\ lordId' = target[g]
    /\ restartCount' = restartCount + 1
    /\ Goto(g, "send")
    /\ UNCHANGED <<state, recorded, exited, panicked, locals, copies>>

\* Mutant of RespawnSend: no ack timer is started.
RespawnSendNoTimer(g) ==
    /\ At(g, "send")
    /\ \/ /\ Linked(target[g])
          /\ pending' = [pending EXCEPT ![Host[target[g]]] = @ + 1]
          /\ Goto(g, AfterRespawn(g))
          /\ UNCHANGED call
       \/ /\ Invoke(g, "STOPPED", NoLord, "respawnFailed")
          /\ UNCHANGED pending
    /\ UNCHANGED <<info, exited, panicked, target, attempt, live>>

\* SendSpawn; on success the 30 s ack timer is started.
RespawnSend(g) ==
    /\ At(g, "send")
    /\ \/ /\ Linked(target[g])
          /\ pending' = [pending EXCEPT ![Host[target[g]]] = @ + 1]
          /\ pc' = [pc EXCEPT ![g] = AfterRespawn(g), ![TimerOf(g)] = "armed"]
          /\ UNCHANGED call
       \/ /\ Invoke(g, "STOPPED", NoLord, "respawnFailed")
          /\ UNCHANGED pending
    /\ UNCHANGED <<info, exited, panicked, target, attempt, live>>

AckTimeout(g) ==
    /\ At(g, "armed")
    /\ IF state = "RESTARTING"
       THEN Invoke(g, "STOPPED", NoLord, "ackTimeout")
       ELSE Goto(g, "done") /\ UNCHANGED call
    /\ UNCHANGED <<info, exited, panicked, target, attempt, copies>>

Respawn(g) ==
    RespawnRecheck(g) \/ RespawnLimit(g) \/ RespawnAssign(g) \/ RespawnSend(g)

-----------------------------------------------------------------------------
(* Wait RPC without timeout: blocks on the channel, then returns a snapshot. *)

WaitReturn(w) ==
    /\ At(Wait(w), "waiting")
    /\ exited
    /\ Goto(Wait(w), "done")
    /\ UNCHANGED <<info, exited, panicked, locals, copies>>

-----------------------------------------------------------------------------
\* Spawn's table.Create: state READY, lord assigned, create event logged.
Create ==
    /\ state = "READY"
    /\ lordId = FirstLord
    /\ restartCount = 0
    /\ recorded = FALSE
    /\ exited = FALSE

Init ==
    /\ Create
    /\ panicked = FALSE
    /\ pc = [g \in Goroutines |->
                IF g = Spawner THEN "send"
                ELSE IF g = Recv(FirstLord) THEN "idle"
                ELSE IF g \in WaitCalls THEN "waiting"
                ELSE "off"]
    /\ call = [g \in Goroutines |-> NoCall]
    /\ target = [g \in Respawners |-> NoLord]
    /\ attempt = [s \in Sessions |-> 0]
    /\ pending = [h \in Hosts |-> 0]
    /\ live = [h \in Hosts |-> 0]

\* Steps of the scheduler's goroutines that nothing outside can hold back.
Program ==
    \/ \E g \in Goroutines : Update(g)
    \/ SpawnSend
    \/ \E s \in Sessions :
          \/ OnLordDisconnect(s) \/ RecoverList(s) \/ RecoverPick(s)
          \/ RecoverExhausted(s) \/ RecoverSweep(s)
    \/ \E g \in Respawners : Respawn(g)
    \/ \E g \in Timers : AckTimeout(g)
    \/ \E w \in Waiters : WaitReturn(w)

\* What tenants, lords and the network do.
Environment ==
    \/ \E s \in Sessions :
          \/ Connect(s) \/ RecvStarted(s) \/ Disconnect(s)
          \/ \E r \in LordResult : RecvExit(s, r)
    \/ \E h \in Hosts : LoseSpawn(h)
    \/ \E m \in Migrators, t \in Sessions : MigrateBegin(m, t)

Next == Program \/ Environment

Spec == Init /\ [][Next]_vars

\* Every goroutine that can run does: Go's scheduler is preemptive, WAL appends
\* and e.mu are held for a bounded time, and the timers of recovery and of the
\* ack timeout fire.
ProgramSteps(g) ==
    \/ Update(g)
    \/ g \in Respawners /\ Respawn(g)
    \/ g \in Timers /\ AckTimeout(g)

RecoverySteps(s) ==
    \/ OnLordDisconnect(s) \/ RecoverList(s) \/ RecoverPick(s)
    \/ RecoverExhausted(s) \/ RecoverSweep(s)

Fairness ==
    /\ \A g \in Goroutines : WF_vars(ProgramSteps(g))
    /\ WF_vars(SpawnSend)
    /\ \A s \in Sessions : WF_vars(RecoverySteps(s))
    /\ \A w \in Waiters : WF_vars(WaitReturn(w))

FairSpec == Spec /\ Fairness
-----------------------------------------------------------------------------
(* Properties *)

\* An entry in a final state has its channel closed, or some goroutine is
\* between the assignment and the close: no finalizer leaves it open because
\* it believes that another one closes it.
FinalIsClosing ==
    state \in Final =>
        exited \/ \E g \in Goroutines : pc[g] \in {"testExited", "close"}

\* While the entry is RESTARTING some goroutine is bound to end that state: a
\* respawn that has not sent its spawn yet, an ack timer, or an UpdateState to
\* another state that is under way.  A timer that fires early, or one that
\* belongs to an earlier respawn, does not leave the entry RESTARTING for good.
EndsRestart(g) ==
    \/ g \in Respawners /\ pc[g] \in {"assign", "send"}
    \/ g \in Timers /\ pc[g] = "armed"
    \/ pc[g] = "setState" /\ call[g].state # "RESTARTING"

RestartingGuarded ==
    state = "RESTARTING" => \E g \in Goroutines : EndsRestart(g)

\* Recoveries and Migrate RPCs that have passed the test of max_restarts and
\* have not counted their restart yet.
Spending ==
    {g \in Respawners : \/ pc[g] = "assign"
                        \/ pc[g] = "setState" /\ call[g].state = "RESTARTING"}

\* respawnProcessOnLord tests max_restarts without the lock and counts the
\* restart two calls later.  Respawns that overlap may exceed the budget, but
\* never by as many restarts as there are recoveries and Migrate RPCs, however
\* often each of them retries.
RestartBudget ==
    MaxRestarts >= 0 =>
        restartCount + Cardinality(Spending) < MaxRestarts + Cardinality(Respawners)

\* Once the entry is final every Wait RPC returns, unless the scheduler crashes.
FinalWakes ==
    state \in Final ~> panicked \/ \A w \in Waiters : pc[Wait(w)] = "done"

\* RESTARTING is transient: an ack, an exit, a failed send, the ack timer or
\* the sweep at the end of recovery ends it.
RestartSettles == state = "RESTARTING" ~> panicked \/ state # "RESTARTING"

\* "UpdateState atomically changes the state and wakes the waiters"
\* (process_table.go:199): concurrent finalizers never crash the scheduler.
NoDoubleClose == ~panicked
=============================================================================
