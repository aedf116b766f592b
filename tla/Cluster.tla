------------------------------ MODULE Cluster ------------------------------
(***************************************************************************)
(* The scheduler, its write-ahead log and the lords it drives over gRPC    *)
(* streams: placement, spawn and kill, reports of lords, disconnects and   *)
(* reconnects under a fresh lord id, recovery, migration, and a crash and  *)
(* restart of the scheduler (internal/scheduler/{server,connect,recovery,  *)
(* migrate,placement,wal}.go, internal/lord/{agent,exec}.go).              *)
(*                                                                         *)
(* One action is one handler, or one turn of a loop that sleeps or sends   *)
(* in between; module ProcessEntry splits the handlers further.  The log   *)
(* is represented by what ReplayWAL makes of it: appending an event is     *)
(* applying it to the wal variables.                                       *)
(*                                                                         *)
(* Left out: stdio, exit codes and resources, tenants, load and capacity   *)
(* (Pick returns any connected lord, or none), draining, BPF maps.         *)
(***************************************************************************)
EXTENDS Integers, Sequences

CONSTANTS
    Hosts,        \* machines that run a lord agent
    Procs,        \* process ids that Spawn may create
    MaxConns,     \* bound on streams: lord ids are 1..MaxConns
    MaxRestarts,  \* max_restarts after Spawn's default; negative: unlimited
    MaxAttempts,  \* maxAttempts of the recovery loop (10 in the code)
    MaxQueue,     \* capacity of a session's outbox (1024 in the code)
    MaxCrashes,   \* bound on crashes of the scheduler
    NoHost        \* the host of a lord id that has not been given out

ASSUME ClusterAssumption ==
    /\ MaxConns \in Nat
    /\ MaxRestarts \in Int \ {0}
    /\ MaxAttempts \in Nat
    /\ MaxQueue \in Nat \ {0}
    /\ MaxCrashes \in Nat
    /\ NoHost \notin Hosts

VARIABLES
    up,          \* the scheduler is running
    crashes,     \* crashes so far
    nextId,      \* the next lord id (NewID)
    host,        \* hostname each lord id registered with
    known,       \* process table: its keys,
    state,       \*   Info.State,
    lord,        \*   Info.Ref.LordId,
    restarts,    \*   Info.RestartCount
    walKnown,    \* what ReplayWAL would make of the log: keys,
    walState,    \*   state,
    walLord,     \*   lord id
    registered,  \* keys of the lord registry
    sessions,    \* keys of lordSessions
    timers,      \* per process: armed 30 s ack timers
    rec,         \* per lord id: its recovery goroutine
    toLord,      \* per lord id: events queued or under way to the lord
    inflight,    \* per lord id: messages under way to the scheduler
    conn,        \* per host: the lord id of its agent's stream, while it works
    copies,      \* per host and process: processes running
    tracked,     \* per host: keys of the agent's procs map
    outbox       \* per host: the agent's outbox, which survives reconnects

table    == <<known, state, lord, restarts>>
wal      == <<walKnown, walState, walLord>>
registry == <<nextId, host, registered, sessions>>
streams  == <<toLord, inflight>>
agents   == <<conn, copies, tracked, outbox>>
vars     == <<up, crashes, table, wal, registry, timers, rec, streams, agents>>

-----------------------------------------------------------------------------
LordIds == 1..MaxConns
NoLord  == 0
Lord    == LordIds \cup {NoLord}

State == {"NEW", "READY", "RUNNING", "RESTARTING", "EXITED", "STOPPED"}
Final == {"EXITED", "STOPPED"}

\* The states recovery takes over.  (PAUSED and MIGRATING too in the code,
\* which never sets them.)
Recoverable == {"RUNNING", "READY"}

Event   == [kind: {"spawn", "kill"}, proc: Procs]
Message == [kind: {"started", "exit", "signal"}, proc: Procs]

\* recoverFromLordDisconnect: where it is, candidates, those not yet handled
\* in this pass, the lord picked, whether the pass has succeeded (succeeded >
\* 0), and attempts made.
Recovery == [pc: {"off", "list", "pick", "pass", "sweep", "done"},
             cand: SUBSET Procs, left: SUBSET Procs, target: Lord,
             ok: BOOLEAN, attempt: Nat]
NoRecovery == [pc |-> "off", cand |-> {}, left |-> {}, target |-> NoLord,
               ok |-> FALSE, attempt |-> 0]

TypeOK ==
    /\ up \in BOOLEAN
    /\ crashes \in Nat
    /\ nextId \in Nat \ {0}
    /\ host \in [LordIds -> Hosts \cup {NoHost}]
    /\ known \in SUBSET Procs
    /\ state \in [Procs -> State]
    /\ lord \in [Procs -> Lord]
    /\ restarts \in [Procs -> Nat]
    /\ walKnown \in SUBSET Procs
    /\ walState \in [Procs -> State]
    /\ walLord \in [Procs -> Lord]
    /\ registered \in SUBSET LordIds
    /\ sessions \in SUBSET LordIds
    /\ timers \in [Procs -> Nat]
    /\ rec \in [LordIds -> Recovery]
    /\ toLord \in [LordIds -> Seq(Event)]
    /\ inflight \in [LordIds -> Seq(Message)]
    /\ conn \in [Hosts -> Lord]
    /\ copies \in [Hosts -> [Procs -> Nat]]
    /\ tracked \in [Hosts -> SUBSET Procs]
    /\ outbox \in [Hosts -> Seq(Message)]

-----------------------------------------------------------------------------
(* Helpers of the scheduler. *)

\* AppendState: what a replay makes of the event, which carries l only if it
\* is not empty. Flushed before the call returns.
AppendState(P, st, l) ==
    /\ walState' = [p \in Procs |-> IF p \in P THEN st ELSE walState[p]]
    /\ walLord' = [p \in Procs |-> IF p \in P /\ l # NoLord THEN l ELSE walLord[p]]

\* UpdateState(st, l) on a set of entries, logged and assigned.
UpdateStates(P, st, l) ==
    /\ state' = [p \in Procs |-> IF p \in P THEN st ELSE state[p]]
    /\ AppendState(P, st, l)

\* getSession succeeds and the session's outbox has room.  (SendSpawn may fail
\* all the same: a fuller outbox than the model's may stay full for 5 s.)
CanSend(l) == l \in sessions /\ Len(toLord[l]) < MaxQueue

Send(l, kind, p) ==
    toLord' = [toLord EXCEPT ![l] = Append(@, [kind |-> kind, proc |-> p])]

-----------------------------------------------------------------------------
(* Tenants. *)

\* Mutant of Spawn: the create event is not logged.
SpawnUnlogged(p, l) ==
    /\ up
    /\ p \notin walKnown
    /\ l \in sessions
    /\ known' = known \cup {p}
    /\ walKnown' = walKnown
    /\ lord' = [lord EXCEPT ![p] = l]
    /\ walLord' = [walLord EXCEPT ![p] = l]
    /\ \/ /\ CanSend(l)
          /\ Send(l, "spawn", p)
          /\ state' = [state EXCEPT ![p] = "READY"]
          /\ walState' = [walState EXCEPT ![p] = "READY"]
       \/ /\ state' = [state EXCEPT ![p] = "STOPPED"]
          /\ walState' = [walState EXCEPT ![p] = "STOPPED"]
          /\ UNCHANGED toLord
    /\ UNCHANGED <<up, crashes, restarts, registry, timers, rec, inflight, agents>>

\* Spawn: Pick a lord, check its session, create and log the entry, send the
\* event.
Spawn(p, l) ==
    /\ up
    /\ p \notin walKnown
    /\ l \in sessions
    /\ known' = known \cup {p}
    /\ walKnown' = walKnown \cup {p}
    /\ lord' = [lord EXCEPT ![p] = l]
    /\ walLord' = [walLord EXCEPT ![p] = l]
    /\ \/ /\ CanSend(l)
          /\ Send(l, "spawn", p)
          /\ state' = [state EXCEPT ![p] = "READY"]
          /\ walState' = [walState EXCEPT ![p] = "READY"]
       \/ /\ state' = [state EXCEPT ![p] = "STOPPED"]
          /\ walState' = [walState EXCEPT ![p] = "STOPPED"]
          /\ UNCHANGED toLord
    /\ UNCHANGED <<up, crashes, restarts, registry, timers, rec, inflight, agents>>

\* Kill: routed by the entry's lord id; changes no entry.  (Bound: at most one
\* kill of a process is queued at a lord.)
Kill(p) ==
    /\ up
    /\ p \in known
    /\ CanSend(lord[p])
    /\ \A i \in DOMAIN toLord[lord[p]] :
          toLord[lord[p]][i] # [kind |-> "kill", proc |-> p]
    /\ Send(lord[p], "kill", p)
    /\ UNCHANGED <<up, crashes, table, wal, registry, timers, rec, inflight, agents>>

-----------------------------------------------------------------------------
(* Streams, seen from the scheduler. *)

\* FindByHostname walks a map: any id registered with that hostname.
FindByHostname(h) == {l \in registered : host[l] = h}

\* Entries bound to the old id move to the new one, in memory only.
UpdateLordForHostname(old, new) ==
    lord' = [p \in Procs |-> IF lord[p] = old THEN new ELSE lord[p]]

\* Connect: a fresh lord id, a session, a registry entry, and the re-bind,
\* for which FindByHostname may also return the id just registered.
Connect(h) ==
    /\ up
    /\ conn[h] = NoLord
    /\ nextId \in LordIds
    /\ nextId' = nextId + 1
    /\ host' = [host EXCEPT ![nextId] = h]
    /\ registered' = registered \cup {nextId}
    /\ sessions' = sessions \cup {nextId}
    /\ conn' = [conn EXCEPT ![h] = nextId]
    /\ \E old \in FindByHostname(h) \cup {nextId} : UpdateLordForHostname(old, nextId)
    /\ UNCHANGED <<up, crashes, known, state, restarts, wal, timers, rec, streams,
                   copies, tracked, outbox>>

\* A report that the agent's send loop puts on a dead stream is gone.  So is
\* one that it sends on a new stream ahead of Register: Connect refuses it.
LoseReport(h) ==
    /\ conn[h] = NoLord
    /\ outbox[h] # <<>>
    /\ outbox' = [outbox EXCEPT ![h] = Tail(@)]
    /\ UNCHANGED <<up, crashes, table, wal, registry, timers, rec, streams, conn,
                   copies, tracked>>

\* handleStarted and handleProcessExit.
StateAfter(kind) == CASE kind = "started" -> "RUNNING"
                      [] kind = "exit"    -> "EXITED"
                      [] kind = "signal"  -> "STOPPED"

RecvCmd(l) ==
    /\ l \in sessions
    /\ inflight[l] # <<>>
    /\ inflight' = [inflight EXCEPT ![l] = Tail(@)]
    /\ LET m == Head(inflight[l])
           sender == IF m.kind = "started" THEN l ELSE NoLord
       IN  /\ UpdateStates({m.proc} \cap known, StateAfter(m.kind), sender)
           /\ lord' = IF m.kind = "started" /\ m.proc \in known
                      THEN [lord EXCEPT ![m.proc] = l] ELSE lord
    /\ UNCHANGED <<up, crashes, known, restarts, walKnown, registry, timers, rec,
                   toLord, agents>>

\* Streams that have ended carry nothing more; the agent will find out at its
\* next Send and reconnect.
Hangup(L) ==
    /\ toLord' = [l \in LordIds |-> IF l \in L THEN <<>> ELSE toLord[l]]
    /\ inflight' = [l \in LordIds |-> IF l \in L THEN <<>> ELSE inflight[l]]
    /\ conn' = [h \in Hosts |-> IF conn[h] \in L THEN NoLord ELSE conn[h]]

\* The receive loop ends: the session goes, the lord is marked unhealthy, and
\* its recovery goroutine starts.
SessionEnd(l) ==
    /\ l \in sessions
    /\ sessions' = sessions \ {l}
    /\ rec' = [rec EXCEPT ![l].pc = "list"]
    /\ Hangup({l})
    /\ UNCHANGED <<up, crashes, table, wal, nextId, host, registered, timers, copies,
                   tracked, outbox>>

\* sendLoop goes on after 2 s although the Send it gave up on is still under
\* way, so the next event may overtake it.
SendTimeout(l) ==
    /\ l \in sessions
    /\ Len(toLord[l]) >= 2
    /\ toLord' = [toLord EXCEPT ![l] = <<@[2], @[1]>> \o SubSeq(@, 3, Len(@))]
    /\ UNCHANGED <<up, crashes, table, wal, registry, timers, rec, inflight, agents>>

-----------------------------------------------------------------------------
(* Recovery and migration. *)

\* Mutant of Respawn: no ack timer is started.
RespawnUntimed(p, t, nil) ==
    \/ /\ state[p] \in Final
       /\ nil
       /\ UNCHANGED <<table, wal, timers, toLord>>
    \/ /\ state[p] \notin Final
       /\ MaxRestarts >= 0 /\ restarts[p] >= MaxRestarts
       /\ ~nil
       /\ UpdateStates({p}, "STOPPED", NoLord)
       /\ UNCHANGED <<known, walKnown, lord, restarts, timers, toLord>>
    \/ /\ state[p] \notin Final
       /\ ~(MaxRestarts >= 0 /\ restarts[p] >= MaxRestarts)
       /\ lord' = [lord EXCEPT ![p] = t]
       /\ restarts' = [restarts EXCEPT ![p] = @ + 1]
       /\ \/ /\ CanSend(t)
             /\ nil
             /\ UpdateStates({p}, "RESTARTING", NoLord)
             /\ Send(t, "spawn", p)
             /\ UNCHANGED timers
          \/ /\ ~nil
             /\ UpdateStates({p}, "STOPPED", NoLord)
             /\ UNCHANGED <<toLord, timers>>
       /\ UNCHANGED <<known, walKnown>>

\* Mutant of Respawn: a process that has ended meanwhile is started again.
RespawnEnded(p, t, nil) ==
    \/ /\ MaxRestarts >= 0 /\ restarts[p] >= MaxRestarts
       /\ ~nil
       /\ UpdateStates({p}, "STOPPED", NoLord)
       /\ UNCHANGED <<known, walKnown, lord, restarts, timers, toLord>>
    \/ /\ ~(MaxRestarts >= 0 /\ restarts[p] >= MaxRestarts)
       /\ lord' = [lord EXCEPT ![p] = t]
       /\ restarts' = [restarts EXCEPT ![p] = @ + 1]
       /\ CanSend(t)
       /\ nil
       /\ UpdateStates({p}, "RESTARTING", NoLord)
       /\ Send(t, "spawn", p)
       /\ timers' = [timers EXCEPT ![p] = @ + 1]
       /\ UNCHANGED <<known, walKnown>>

\* respawnProcessOnLord(p, t); nil is what it returns.  RestartCount and the
\* new lord id are not logged.
Respawn(p, t, nil) ==
    \/ /\ state[p] \in Final
       /\ nil
       /\ UNCHANGED <<table, wal, timers, toLord>>
    \/ /\ state[p] \notin Final
       /\ MaxRestarts >= 0 /\ restarts[p] >= MaxRestarts
       /\ ~nil
       /\ UpdateStates({p}, "STOPPED", NoLord)
       /\ UNCHANGED <<known, walKnown, lord, restarts, timers, toLord>>
    \/ /\ state[p] \notin Final
       /\ ~(MaxRestarts >= 0 /\ restarts[p] >= MaxRestarts)
       /\ lord' = [lord EXCEPT ![p] = t]
       /\ restarts' = [restarts EXCEPT ![p] = @ + 1]
       /\ \/ /\ CanSend(t)
             /\ nil
             /\ UpdateStates({p}, "RESTARTING", NoLord)
             /\ Send(t, "spawn", p)
             /\ timers' = [timers EXCEPT ![p] = @ + 1]
          \/ /\ ~nil
             /\ UpdateStates({p}, "STOPPED", NoLord)
             /\ UNCHANGED <<toLord, timers>>
       /\ UNCHANGED <<known, walKnown>>

\* Mutant of Candidates: only RUNNING processes.
CandidatesRunning(l) == {p \in known : lord[p] = l /\ state[p] = "RUNNING"}

Candidates(l) == {p \in known : lord[p] = l /\ state[p] \in Recoverable}

\* The debounce by dead_lord_id never applies: an id disconnects once.
RecoverList(l) ==
    /\ rec[l].pc = "list"
    /\ rec' = [rec EXCEPT ![l].pc = IF Candidates(l) = {} THEN "done" ELSE "pick",
                          ![l].cand = Candidates(l)]
    /\ UNCHANGED <<up, crashes, table, wal, registry, timers, streams, agents>>

\* One attempt: Pick, or a wait for the next one if no lord is healthy.  (Any
\* connected lord may have missed its heartbeats: Pick may find none.)
RecoverPick(l) ==
    /\ rec[l].pc = "pick"
    /\ rec[l].attempt < MaxAttempts
    /\ \/ \E t \in sessions :
             rec' = [rec EXCEPT ![l] =
                        [pc |-> "pass", cand |-> @.cand, left |-> @.cand, target |-> t,
                         ok |-> FALSE, attempt |-> @.attempt + 1]]
       \/ rec' = [rec EXCEPT ![l].attempt = @ + 1]
    /\ UNCHANGED <<up, crashes, table, wal, registry, timers, streams, agents>>

RecoverExhausted(l) ==
    /\ rec[l].pc = "pick"
    /\ rec[l].attempt >= MaxAttempts
    /\ rec' = [rec EXCEPT ![l].pc = "sweep", ![l].ok = FALSE]
    /\ UNCHANGED <<up, crashes, table, wal, registry, timers, streams, agents>>

\* One candidate of the pass; after the last one the loop ends if at least
\* one respawn returned nil, and retries otherwise.
RecoverRespawn(l, p) ==
    /\ rec[l].pc = "pass"
    /\ p \in rec[l].left
    /\ \E nil \in BOOLEAN :
          /\ Respawn(p, rec[l].target, nil)
          /\ LET ok == rec[l].ok \/ nil
                 last == rec[l].left = {p}
             IN rec' = [rec EXCEPT ![l].left = @ \ {p}, ![l].ok = ok,
                                   ![l].pc = IF ~last THEN "pass"
                                             ELSE IF ok THEN "sweep" ELSE "pick"]
    /\ UNCHANGED <<up, crashes, registry, inflight, agents>>

\* The loop over the candidates that are RESTARTING after the last attempt.
RecoverSweep(l) ==
    /\ rec[l].pc = "sweep"
    /\ UpdateStates({p \in rec[l].cand : state[p] = "RESTARTING"}, "STOPPED", NoLord)
    /\ rec' = [rec EXCEPT ![l].pc = "done", ![l].target = NoLord]
    /\ UNCHANGED <<up, crashes, known, lord, restarts, walKnown, registry, timers,
                   streams, agents>>

\* Migrate RPC: to a healthy lord (auto) or to the id the caller names.
Migrate(p, t) ==
    /\ p \in known
    /\ t \in registered
    /\ t # lord[p]
    /\ \E nil \in BOOLEAN : Respawn(p, t, nil)
    /\ UNCHANGED <<up, crashes, registry, rec, inflight, agents>>

\* An ack timer fires.
AckTimeout(p) ==
    /\ timers[p] > 0
    /\ timers' = [timers EXCEPT ![p] = @ - 1]
    /\ UpdateStates({p} \cap {q \in Procs : state[q] = "RESTARTING"}, "STOPPED", NoLord)
    /\ UNCHANGED <<up, crashes, known, lord, restarts, walKnown, registry, rec, streams,
                   agents>>

-----------------------------------------------------------------------------
(* Lords. *)

Report(h, kind, p) ==
    outbox' = [outbox EXCEPT ![h] = Append(@, [kind |-> kind, proc |-> p])]

\* The copy ends; the exit is reported and the process id leaves procs, even
\* if a newer copy is registered under it.
End(h, p, kind) ==
    /\ copies' = [copies EXCEPT ![h][p] = @ - 1]
    /\ tracked' = [tracked EXCEPT ![h] = @ \ {p}]
    /\ Report(h, kind, p)

\* The agent takes the next event of its stream.
NextEvent(h, kind, p) ==
    /\ conn[h] # NoLord
    /\ toLord[conn[h]] # <<>>
    /\ Head(toLord[conn[h]]) = [kind |-> kind, proc |-> p]
    /\ toLord' = [toLord EXCEPT ![conn[h]] = Tail(@)]

\* handleSpawn: the process starts; or cmd.Start fails or the agent is draining,
\* which is reported as an exit; or a pipe cannot be made, which is not reported.
HandleSpawn(h, p) ==
    /\ NextEvent(h, "spawn", p)
    /\ \/ /\ copies' = [copies EXCEPT ![h][p] = @ + 1]
          /\ tracked' = [tracked EXCEPT ![h] = @ \cup {p}]
          /\ Report(h, "started", p)
       \/ /\ Report(h, "exit", p)
          /\ UNCHANGED <<copies, tracked>>
       \/ UNCHANGED <<copies, tracked, outbox>>
    /\ UNCHANGED <<up, crashes, table, wal, registry, timers, rec, inflight, conn>>

\* Mutant of HandleKill: the lookup in procs is not checked.
HandleKillUnchecked(h, p) ==
    /\ NextEvent(h, "kill", p)
    /\ \/ End(h, p, "signal")
       \/ UNCHANGED <<copies, tracked, outbox>>
    /\ UNCHANGED <<up, crashes, table, wal, registry, timers, rec, inflight, conn>>

\* handleKill: only a process in procs is signalled; it may ignore the signal.
HandleKill(h, p) ==
    /\ NextEvent(h, "kill", p)
    /\ \/ p \in tracked[h] /\ copies[h][p] > 0 /\ End(h, p, "signal")
       \/ UNCHANGED <<copies, tracked, outbox>>
    /\ UNCHANGED <<up, crashes, table, wal, registry, timers, rec, inflight, conn>>

\* A process ends by itself.
ProcessExit(h, p) ==
    /\ copies[h][p] > 0
    /\ End(h, p, "exit")
    /\ UNCHANGED <<up, crashes, table, wal, registry, timers, rec, streams, conn>>

\* The agent's send loop.
LordSend(h) ==
    /\ conn[h] # NoLord
    /\ outbox[h] # <<>>
    /\ inflight' = [inflight EXCEPT ![conn[h]] = Append(@, Head(outbox[h]))]
    /\ outbox' = [outbox EXCEPT ![h] = Tail(@)]
    /\ UNCHANGED <<up, crashes, table, wal, registry, timers, rec, toLord, conn, copies,
                   tracked>>

\* A Send fails: runOnce returns, and Run will reconnect.  The scheduler still
\* holds the session, and may receive what had been sent.
LordDisconnect(h) ==
    /\ conn[h] # NoLord
    /\ conn' = [conn EXCEPT ![h] = NoLord]
    /\ UNCHANGED <<up, crashes, table, wal, registry, timers, rec, streams, copies,
                   tracked, outbox>>

\* The machine, or the container with the agent and its processes, goes down.
LordCrash(h) ==
    /\ conn[h] # NoLord
    /\ conn' = [conn EXCEPT ![h] = NoLord]
    /\ copies' = [copies EXCEPT ![h] = [p \in Procs |-> 0]]
    /\ tracked' = [tracked EXCEPT ![h] = {}]
    /\ outbox' = [outbox EXCEPT ![h] = <<>>]
    /\ UNCHANGED <<up, crashes, table, wal, registry, timers, rec, streams>>

-----------------------------------------------------------------------------
(* The scheduler process. *)

\* Only the log survives; every goroutine, timer and stream is gone.
Crash ==
    /\ up
    /\ crashes < MaxCrashes
    /\ up' = FALSE
    /\ crashes' = crashes + 1
    /\ known' = {}
    /\ state' = [p \in Procs |-> "NEW"]
    /\ lord' = [p \in Procs |-> NoLord]
    /\ restarts' = [p \in Procs |-> 0]
    /\ registered' = {}
    /\ sessions' = {}
    /\ timers' = [p \in Procs |-> 0]
    /\ rec' = [l \in LordIds |-> NoRecovery]
    /\ Hangup(LordIds)
    /\ UNCHANGED <<wal, nextId, host, copies, tracked, outbox>>

\* main: ReplayWAL before the gRPC server listens.
Restart ==
    /\ ~up
    /\ up' = TRUE
    /\ known' = walKnown
    /\ state' = walState
    /\ lord' = walLord
    /\ UNCHANGED <<crashes, restarts, wal, registry, timers, rec, streams, agents>>

-----------------------------------------------------------------------------
Init ==
    /\ up = TRUE
    /\ crashes = 0
    /\ nextId = 1
    /\ host = [l \in LordIds |-> NoHost]
    /\ known = {}
    /\ state = [p \in Procs |-> "NEW"]
    /\ lord = [p \in Procs |-> NoLord]
    /\ restarts = [p \in Procs |-> 0]
    /\ walKnown = {}
    /\ walState = [p \in Procs |-> "NEW"]
    /\ walLord = [p \in Procs |-> NoLord]
    /\ registered = {}
    /\ sessions = {}
    /\ timers = [p \in Procs |-> 0]
    /\ rec = [l \in LordIds |-> NoRecovery]
    /\ toLord = [l \in LordIds |-> <<>>]
    /\ inflight = [l \in LordIds |-> <<>>]
    /\ conn = [h \in Hosts |-> NoLord]
    /\ copies = [h \in Hosts |-> [p \in Procs |-> 0]]
    /\ tracked = [h \in Hosts |-> {}]
    /\ outbox = [h \in Hosts |-> <<>>]

Next ==
    \/ \E p \in Procs, l \in LordIds : Spawn(p, l) \/ Migrate(p, l) \/ RecoverRespawn(l, p)
    \/ \E p \in Procs : Kill(p) \/ AckTimeout(p)
    \/ \E l \in LordIds :
          \/ RecvCmd(l) \/ SessionEnd(l) \/ SendTimeout(l)
          \/ RecoverList(l) \/ RecoverPick(l) \/ RecoverExhausted(l) \/ RecoverSweep(l)
    \/ \E h \in Hosts :
          \/ Connect(h) \/ LoseReport(h) \/ LordSend(h)
          \/ LordDisconnect(h) \/ LordCrash(h)
          \/ \E p \in Procs : HandleSpawn(h, p) \/ HandleKill(h, p) \/ ProcessExit(h, p)
    \/ Crash
    \/ Restart

Spec == Init /\ [][Next]_vars
-----------------------------------------------------------------------------
(* Properties *)

\* Create is logged before the spawn is sent, so a crash at any point leaves
\* no process, event or report that the restarted scheduler does not know.
KnownEverywhere ==
    /\ up => known = walKnown
    /\ \A h \in Hosts :
          /\ \A p \in Procs : copies[h][p] > 0 => p \in walKnown
          /\ \A i \in DOMAIN outbox[h] : outbox[h][i].proc \in walKnown
    /\ \A l \in LordIds :
          /\ \A i \in DOMAIN toLord[l] : toLord[l][i].proc \in walKnown
          /\ \A i \in DOMAIN inflight[l] : inflight[l][i].proc \in walKnown

\* A RESTARTING process of this incarnation has an ack timer that will end it,
\* whichever respawn, of recovery or Migrate, put it there.
RestartingTimed ==
    \A p \in Procs :
        state[p] = "RESTARTING" /\ lord[p] \in registered => timers[p] > 0

\* A process that is up on a lord whose session has ended is a candidate of
\* that lord's recovery, unless the recovery ran out of attempts: no order of
\* disconnects, re-binds, late reports and migrations makes one slip through.
NoForgottenProcess ==
    \A p \in known :
        LET l == lord[p] IN
        state[p] \in Recoverable /\ l \in registered \ sessions =>
            \/ rec[l].pc = "list"
            \/ p \in rec[l].cand /\ (rec[l].pc \in {"pick", "pass"} \/ ~rec[l].ok)

\* What tenants are shown, or will be once the scheduler is up again.
Shown ==
    [p \in Procs |-> CASE up /\ p \in known        -> state[p]
                       [] ~up /\ p \in walKnown    -> walState[p]
                       [] OTHER                    -> "NEW"]

Life == INSTANCE ProcessLife WITH life <- Shown

\* Processes live as ProcessLife says: a crash and a restart show nothing else
\* than before (wal.go:127), no process is created twice or goes back to READY,
\* and recovery, sweeps and timers never touch one that has ended
\* (recovery.go:182).
ProcessLives == Life!Spec
=============================================================================
