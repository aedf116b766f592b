---------------------------- MODULE LordSessions ----------------------------
(***************************************************************************)
(* The scheduler's end of the lords' streams: Connect with its two loops,  *)
(* the registry that placement reads and the sweeper writes, and Shutdown  *)
(* (internal/scheduler/{connect,placement,server}.go,                      *)
(* cmd/scheduler/main.go).                                                 *)
(*                                                                         *)
(* Connect makes a new lord id for every stream: a lord id stands for one  *)
(* stream here. Module Cluster has what streams do to processes, module    *)
(* LordAgent what lords do, module StdinRelay the writes to a process.     *)
(*                                                                         *)
(* Time passes in ticks, which wait for a sweep that is due.               *)
(***************************************************************************)
EXTENDS Integers, Sequences, SequencesExt

CONSTANTS
    Lords,      \* lord ids, one for each stream
    Cap,        \* capacity of a session's outbox (1024 in the code)
    TTL,        \* ticks without a heartbeat that make a lord unhealthy
    Period,     \* ticks between sweeps (TTL / 3 in the code)
    None

ASSUME SessionAssumption ==
    /\ Cap \in Nat \ {0}
    /\ TTL \in Nat
    /\ Period \in Nat \ {0}
    /\ None \notin Lords

VARIABLES
    step,       \* per lord id: how far its Connect call is
    sessions,   \* s.lordSessions
    outbox,     \* per session: its events
    ear,        \* per stream: what the lord's end waits for
    healthy,    \* registry: lords with Healthy, which placement reads
    shown,      \* registry: lords with Info.Healthy, which tenants see
    drained,    \* registry: lords with DrainRequested
    age,        \* registry: ticks since LastHeartbeat, of a healthy lord
    since,      \* ticks since the last sweep
    placing,    \* the session that a Spawn call is about to send to
    stopping,   \* whether Shutdown was called
    toAsk       \* sessions that Shutdown has yet to ask to drain

links    == <<step, sessions, outbox, ear>>
registry == <<healthy, shown, drained, age, since>>
shutdown == <<stopping, toAsk>>
vars     == <<links, registry, placing, shutdown>>

-----------------------------------------------------------------------------
\* The kinds of LordEvent, kills and writes to stdin aside.
Event == {"registerAck", "spawn", "heartbeatAck", "setDrain", "lazyDeathAck"}

\* Ages beyond it are not told apart.
MaxAge == TTL + Period + 1

TypeOK ==
    /\ step \in [Lords -> {"off", "session", "registered", "open", "ended", "deleted", "closed"}]
    /\ sessions \in SUBSET Lords
    /\ outbox \in [Lords -> Seq(Event)]
    /\ \A l \in Lords : Len(outbox[l]) <= Cap
    /\ ear \in [Lords -> {"ack", "events", "drain", "deaf"}]
    /\ healthy \in SUBSET Lords
    /\ shown \in SUBSET Lords
    /\ drained \in SUBSET Lords
    /\ age \in [Lords -> 0..MaxAge]
    /\ since \in 0..Period
    /\ placing \in Lords \cup {None}
    /\ stopping \in BOOLEAN
    /\ toAsk \in SUBSET Lords

Full(l) == Len(outbox[l]) >= Cap

\* Mutant of Put: the channel has no bound.
PutUnbounded(l, e) == outbox' = [outbox EXCEPT ![l] = Append(@, e)]

\* A send on sess.outbox.
Put(l, e) ==
    /\ ~Full(l)
    /\ outbox' = [outbox EXCEPT ![l] = Append(@, e)]

\* A select with a default: an event without room is dropped.
PutOrDrop(l, e) == Put(l, e) \/ (Full(l) /\ UNCHANGED outbox)

-----------------------------------------------------------------------------
(* Connect. *)

Goto(l, label) == step' = [step EXCEPT ![l] = label]

\* Register was received: the session can be looked up.
Connect(l) ==
    /\ step[l] = "off"
    /\ Goto(l, "session")
    /\ sessions' = sessions \cup {l}
    /\ UNCHANGED <<outbox, ear, registry, placing, shutdown>>

\* s.lords.Register: the lord can be picked. RegisterLordBPF and the re-bind
\* follow, and may take their time.
Register(l) ==
    /\ step[l] = "session"
    /\ Goto(l, "registered")
    /\ healthy' = healthy \cup {l}
    /\ shown' = shown \cup {l}
    /\ age' = [age EXCEPT ![l] = 0]
    /\ UNCHANGED <<sessions, outbox, ear, drained, since, placing, shutdown>>

\* The RegisterAck is queued, and the loops start.
Acknowledge(l) ==
    /\ step[l] = "registered"
    /\ Put(l, "registerAck")
    /\ Goto(l, "open")
    /\ UNCHANGED <<sessions, ear, registry, placing, shutdown>>

\* recvLoop ends with the stream, and the session is cancelled.
EndStream(l) ==
    /\ step[l] = "open"
    /\ Goto(l, "ended")
    /\ UNCHANGED <<sessions, outbox, ear, registry, placing, shutdown>>

DeleteSession(l) ==
    /\ step[l] = "ended"
    /\ Goto(l, "deleted")
    /\ sessions' = sessions \ {l}
    /\ UNCHANGED <<outbox, ear, registry, placing, shutdown>>

MarkUnhealthy(l) ==
    /\ step[l] = "deleted"
    /\ Goto(l, "closed")
    /\ healthy' = healthy \ {l}
    /\ shown' = shown \ {l}
    /\ age' = [age EXCEPT ![l] = 0]
    /\ UNCHANGED <<sessions, outbox, ear, drained, since, placing, shutdown>>

\* What a lord's end waits for after an event. It takes its first event for the
\* RegisterAck: if it is another one its receive loop ends, but waits for the
\* heartbeats to end, and they go on. SetDrain ends it, too.
Heard(waiting, e) ==
    CASE waiting = "ack"                        -> IF e = "registerAck" THEN "events" ELSE "deaf"
      [] waiting = "events" /\ e = "setDrain"   -> "drain"
      [] OTHER                                  -> waiting

\* sendLoop sends the next event, or one behind it if the Send of those ahead
\* has taken more than 2 s, and the lord receives it.
SendLoop(l) ==
    /\ step[l] = "open"
    /\ \E i \in 1..Len(outbox[l]) :
          /\ outbox' = [outbox EXCEPT ![l] = RemoveAt(@, i)]
          /\ ear' = [ear EXCEPT ![l] = Heard(@, outbox[l][i])]
    /\ UNCHANGED <<step, sessions, registry, placing, shutdown>>

-----------------------------------------------------------------------------
(* recvLoop, the sweeper and placement. *)

\* Mutant of UpdateStats: the lord id of the message. Heartbeats that a lord
\* queued before it reconnected name the id it had then.
UpdateStatsNamed(l, named) ==
    /\ healthy' = healthy \cup {named}
    /\ age' = [age EXCEPT ![named] = 0]

\* The entry of the stream, whatever lord id the message names.
UpdateStats(l, named) ==
    /\ healthy' = healthy \cup {l}
    /\ age' = [age EXCEPT ![l] = 0]

\* A heartbeat, which names the lord id that the lord had when it queued it.
Heartbeat(l, named) ==
    /\ step[l] = "open"
    /\ step[named] # "off"
    /\ UpdateStats(l, named)
    /\ PutOrDrop(l, "heartbeatAck")
    /\ UNCHANGED <<step, sessions, ear, shown, drained, since, placing, shutdown>>

\* A lord that drains says so when its processes are gone, and exits.
LazyDeath(l) ==
    /\ step[l] = "open"
    /\ ear[l] = "drain"
    /\ l \notin drained
    /\ drained' = drained \cup {l}
    /\ PutOrDrop(l, "lazyDeathAck")
    /\ UNCHANGED <<step, sessions, ear, healthy, shown, age, since, placing, shutdown>>

Tick ==
    /\ since < Period
    /\ since' = since + 1
    /\ age' = [l \in Lords |-> IF l \in healthy /\ age[l] < MaxAge THEN age[l] + 1 ELSE age[l]]
    /\ UNCHANGED <<links, healthy, shown, drained, placing, shutdown>>

\* Mutant of Overdue: a lord that was not heard of for a while longer.
OverdueLate == {l \in healthy : age[l] > TTL + Period}

Overdue == {l \in healthy : age[l] > TTL}

\* heartbeatSweeper.
SweepHeartbeats ==
    /\ since = Period
    /\ since' = 0
    /\ healthy' = healthy \ Overdue
    /\ shown' = shown \ Overdue
    /\ age' = [l \in Lords |-> IF l \in Overdue THEN 0 ELSE age[l]]
    /\ UNCHANGED <<links, drained, placing, shutdown>>

\* Spawn (or a migration or a recovery) picks a lord and looks up its session.
Pick(l) ==
    /\ placing = None
    /\ l \in (healthy \ drained) \cap sessions
    /\ placing' = l
    /\ UNCHANGED <<links, registry, shutdown>>

\* SendSpawn: queued, or given up for want of room.
SendSpawn ==
    /\ placing # None
    /\ PutOrDrop(placing, "spawn")
    /\ placing' = None
    /\ UNCHANGED <<step, sessions, ear, registry, shutdown>>

-----------------------------------------------------------------------------
(* Shutdown. *)

\* The sessions there are. New ones still come while Shutdown waits, and are
\* not asked.
Shutdown ==
    /\ ~stopping
    /\ stopping' = TRUE
    /\ toAsk' = sessions
    /\ UNCHANGED <<links, registry, placing>>

AskToDrain(l) ==
    /\ l \in toAsk
    /\ toAsk' = toAsk \ {l}
    /\ PutOrDrop(l, "setDrain")
    /\ UNCHANGED <<step, sessions, ear, registry, placing, stopping>>

-----------------------------------------------------------------------------
Init ==
    /\ step = [l \in Lords |-> "off"]
    /\ sessions = {}
    /\ outbox = [l \in Lords |-> <<>>]
    /\ ear = [l \in Lords |-> "ack"]
    /\ healthy = {}
    /\ shown = {}
    /\ drained = {}
    /\ age = [l \in Lords |-> 0]
    /\ since = 0
    /\ placing = None
    /\ stopping = FALSE
    /\ toAsk = {}

Next ==
    \/ \E l \in Lords :
          \/ Connect(l) \/ Register(l) \/ Acknowledge(l)
          \/ EndStream(l) \/ DeleteSession(l) \/ MarkUnhealthy(l)
          \/ SendLoop(l) \/ LazyDeath(l) \/ Pick(l) \/ AskToDrain(l)
          \/ \E named \in Lords : Heartbeat(l, named)
    \/ Tick \/ SweepHeartbeats \/ SendSpawn \/ Shutdown

Spec == Init /\ [][Next]_vars
-----------------------------------------------------------------------------
(* Properties *)

\* A lord that placement may pick, and only such a one is shown to tenants as
\* healthy, has a session, or Connect is about to mark it unhealthy: no late
\* message revives a lord whose stream has ended (connect.go:153,
\* placement.go:67). A lord that is picked may be shown as unhealthy:
\* UpdateStats does not set Info.Healthy again.
HealthyHasSession ==
    /\ shown \subseteq healthy
    /\ \A l \in healthy : l \in sessions \/ step[l] = "deleted"

\* A lord is taken for healthy at most TTL and a sweep period after its last
\* heartbeat (placement.go:269).
StaleIsSwept == \A l \in healthy : age[l] <= TTL + Period

\* "The first message from the scheduler is RegisterAck" (agent.go:236): no
\* event that is queued for a lord is ahead of it.
AckComesFirst ==
    \A l \in Lords : \A i \in 1..Len(outbox[l]) : outbox[l][i] = "registerAck" => i = 1
=============================================================================
