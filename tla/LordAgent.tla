----------------------------- MODULE LordAgent -----------------------------
(***************************************************************************)
(* One lord: its streams to the scheduler, the handlers of events, the     *)
(* processes it starts with the goroutine that waits for each, their       *)
(* cgroup slices, drain and exit (internal/lord/{agent,exec,drain,cgroup}  *)
(* .go, cmd/lord/main.go).                                                 *)
(*                                                                         *)
(* Each stream has a receive loop that handles its events one by one.      *)
(* recvLoop waits for the heartbeat goroutine before it returns, so runOnce *)
(* learns of a broken stream only by a Send that fails, and a handler of   *)
(* the old stream may still be at work beside those of the new one.        *)
(*                                                                         *)
(* Left out: what messages say (the outbox is its length; module Cluster   *)
(* has reports), the output of processes, resource limits, the crash of    *)
(* the host, and SIGTERM to the agent, which ends it without a drain.      *)
(***************************************************************************)
EXTENDS Integers, Sequences

CONSTANTS
    Procs,       \* process ids
    MaxCopies,   \* bound on processes that cmd.Start makes
    MaxStreams,  \* bound on streams: 1..MaxStreams
    Cap,         \* capacity of the outbox (128 in the code)
    MaxEvents,   \* bound on events from the scheduler
    None         \* no process id

ASSUME AgentAssumption ==
    /\ MaxStreams \in Nat
    /\ Cap \in Nat \ {0}
    /\ MaxEvents \in Nat
    /\ MaxCopies \in Nat
    /\ None \notin Procs

VARIABLES
    stream,     \* the last stream opened, 0 before the first
    link,       \* how it is doing
    stale,      \* streams that runOnce left with their send loop running
    lost,       \* history, per stream: messages its send loop took and lost
    events,     \* events sent by the scheduler so far
    inbox,      \* per stream: events to be received
    pc,         \* per stream: what the handler of its receive loop does next
    job,        \*   the event in hand
    cur,        \*   the process it starts
    outbox,     \* length of a.outbox
    procs,      \* a.procs: per process id a copy, or NoCopy
    of,         \* per copy: its process id
    life,       \* per copy: whether it runs
    waiter,     \* per copy: what the goroutine that waits for it does next
    cg,         \* a.cg: the stream whose lord id names its slices, 0: nil
    cgOf,       \* per copy: the manager that its goroutines hold
    slices,     \* slices that exist: <<manager, process id>>
    attached,   \* copies that are in the slice of their process id
    brood,      \* copies whose children were in their slice at the end
    draining,
    exit,       \* whether the agent's process is about to end, or has
    killed,     \* history: copies that drain sent SIGKILL
    overtaken   \* history: copies being spawned, past the check of draining,
                \*   when it was set

network  == <<stream, link, stale, lost>>
handlers == <<inbox, pc, job, cur>>
copies   == <<of, life, waiter, cgOf>>
cgroups  == <<cg, slices, attached, brood>>
drain    == <<draining, exit, killed, overtaken>>
vars     == <<network, events, handlers, outbox, procs, copies, cgroups, drain>>

-----------------------------------------------------------------------------
Streams == 1..MaxStreams

\* Processes that were started, numbered in the order of their spawns.
Copies == 1..MaxCopies
NoCopy == 0

Event == [kind : {"spawn", "kill", "stdin", "drain"}, proc : Procs]

Spawning == {"start", "slice", "register"}
Draining == {"set", "kill", "notify"}
Label    == {"idle", "announce", "refuse", "stdin"} \cup Spawning \cup Draining
Waiting  == {"none", "wait", "report", "forget", "done"}

TypeOK ==
    /\ stream \in 0..MaxStreams
    /\ link \in {"off", "new", "up", "broken"}
    /\ stale \in SUBSET Streams
    /\ lost \in [Streams -> Nat]
    /\ events \in Nat
    /\ inbox \in [Streams -> Seq(Event)]
    /\ pc \in [Streams -> Label]
    /\ job \in [Streams -> Event \cup {None}]
    /\ cur \in [Streams -> Copies \cup {NoCopy}]
    /\ outbox \in 0..Cap
    /\ procs \in [Procs -> Copies \cup {NoCopy}]
    /\ of \in [Copies -> Procs \cup {None}]
    /\ life \in [Copies -> {"unused", "up", "dead"}]
    /\ waiter \in [Copies -> Waiting]
    /\ cg \in 0..MaxStreams
    /\ cgOf \in [Copies -> 0..MaxStreams]
    /\ slices \in SUBSET (Streams \X Procs)
    /\ attached \in SUBSET Copies
    /\ brood \in SUBSET Copies
    /\ draining \in BOOLEAN
    /\ exit \in {"no", "soon", "drained"}
    /\ killed \in SUBSET Copies
    /\ overtaken \in SUBSET Copies
    /\ link # "off" => stream # 0

Alive == exit # "drained"

\* Mutant of Put: the outbox has no bound.
PutUnbounded == outbox' = outbox + 1

\* A blocking send on a.outbox.
Put == outbox < Cap /\ outbox' = outbox + 1

-----------------------------------------------------------------------------
(* Streams. *)

\* Run calls runOnce, which dials and starts the two loops.
Open ==
    /\ Alive
    /\ link = "off"
    /\ stream < MaxStreams
    /\ stream' = stream + 1
    /\ link' = "new"
    /\ UNCHANGED <<stale, lost, events, handlers, outbox, procs, copies, cgroups, drain>>

\* recvLoop: Register is sent and acknowledged, and a.cg is replaced. (Without
\* cgroup v2 it is not.)
Registered ==
    /\ Alive
    /\ link = "new"
    /\ link' = "up"
    /\ cg' \in {cg, stream}
    /\ UNCHANGED <<stream, stale, lost, events, handlers, outbox, procs, copies,
                   slices, attached, brood, drain>>

\* recvLoop fails to send Register and returns at once; the send loop stays.
RegisterFails ==
    /\ Alive
    /\ link = "new"
    /\ link' = "off"
    /\ stale' = stale \cup {stream}
    /\ UNCHANGED <<stream, lost, events, handlers, outbox, procs, copies, cgroups, drain>>

Break ==
    /\ Alive
    /\ link = "up"
    /\ link' = "broken"
    /\ UNCHANGED <<stream, stale, lost, events, handlers, outbox, procs, copies, cgroups,
                   drain>>

Take == outbox > 0 /\ outbox' = outbox - 1

Lose(s) == lost' = [lost EXCEPT ![s] = @ + 1]

\* Mutant of SendLoop: an error of Send does not end the loop.
SendLoopGoesOn ==
    /\ Alive
    /\ Take
    /\ \/ link = "up" /\ UNCHANGED <<network, inbox>>
       \/ /\ link = "new"
          /\ Lose(stream)
          /\ link' = "broken"
          /\ UNCHANGED <<stream, stale, inbox>>
       \/ /\ link = "broken"
          /\ Lose(stream)
          /\ UNCHANGED <<stream, stale, link, inbox>>
    /\ UNCHANGED <<events, pc, job, cur, procs, copies, cgroups, drain>>

\* sendLoop of the current stream. What it sends ahead of Register makes the
\* scheduler end the stream; a Send that fails loses its message and ends
\* runOnce, which closes the connection: events that it has received may still
\* be handled.
SendLoop ==
    /\ Alive
    /\ Take
    /\ \/ link = "up" /\ UNCHANGED <<network, inbox>>
       \/ /\ link = "new"
          /\ Lose(stream)
          /\ link' = "broken"
          /\ UNCHANGED <<stream, stale, inbox>>
       \/ /\ link = "broken"
          /\ Lose(stream)
          /\ link' = "off"
          /\ \/ UNCHANGED inbox
             \/ inbox' = [inbox EXCEPT ![stream] = <<>>]
          /\ UNCHANGED <<stream, stale>>
    /\ UNCHANGED <<events, pc, job, cur, procs, copies, cgroups, drain>>

\* The send loop that a failed Register left behind takes a message too.
StaleSend(s) ==
    /\ Alive
    /\ s \in stale
    /\ Take
    /\ Lose(s)
    /\ stale' = stale \ {s}
    /\ UNCHANGED <<stream, link, events, handlers, procs, copies, cgroups, drain>>

\* sendHeartbeat and pumpStream.
Chatter ==
    /\ Alive
    /\ stream # 0
    /\ Put
    /\ UNCHANGED <<network, events, handlers, procs, copies, cgroups, drain>>

\* The scheduler sends an event on the current stream.
Deliver(e) ==
    /\ Alive
    /\ link = "up"
    /\ events < MaxEvents
    /\ events' = events + 1
    /\ inbox' = [inbox EXCEPT ![stream] = Append(@, e)]
    /\ UNCHANGED <<network, pc, job, cur, outbox, procs, copies, cgroups, drain>>

-----------------------------------------------------------------------------
(* Handlers of events. *)

Goto(s, label) == pc' = [pc EXCEPT ![s] = label]

Return(s) ==
    /\ Goto(s, "idle")
    /\ job' = [job EXCEPT ![s] = None]
    /\ cur' = [cur EXCEPT ![s] = NoCopy]

\* recvLoop receives the next event and calls its handler.
Receive(s, kind) ==
    /\ Alive
    /\ pc[s] = "idle"
    /\ inbox[s] # <<>>
    /\ Head(inbox[s]).kind = kind
    /\ inbox' = [inbox EXCEPT ![s] = Tail(@)]
    /\ job' = [job EXCEPT ![s] = Head(inbox[s])]

\* The copy that cmd.Start would make next.
Fresh(c) ==
    /\ life[c] = "unused"
    /\ \A s \in Streams : cur[s] # c
    /\ \A b \in 1..(c - 1) : life[b] # "unused" \/ \E s \in Streams : cur[s] = b

\* Mutant of ReceiveSpawn: draining is not looked at.
ReceiveSpawnUnchecked(s) ==
    /\ Receive(s, "spawn")
    /\ \E c \in Copies : Fresh(c) /\ cur' = [cur EXCEPT ![s] = c]
    /\ Goto(s, "start")
    /\ UNCHANGED <<network, events, outbox, procs, copies, cgroups, drain>>

\* handleSpawn: refuses while draining.
ReceiveSpawn(s) ==
    /\ Receive(s, "spawn")
    /\ \/ draining /\ Goto(s, "refuse") /\ UNCHANGED cur
       \/ /\ ~draining
          /\ \E c \in Copies : Fresh(c) /\ cur' = [cur EXCEPT ![s] = c]
          /\ Goto(s, "start")
    /\ UNCHANGED <<network, events, outbox, procs, copies, cgroups, drain>>

\* handleSpawn: sendProcessExit for a spawn refused or failed.
Refuse(s) ==
    /\ Alive
    /\ pc[s] = "refuse"
    /\ Put
    /\ Return(s)
    /\ UNCHANGED <<network, events, inbox, procs, copies, cgroups, drain>>

\* cmd.Start, and the manager that this handler and the waiter will use. Without
\* one there are no slices. A failed Start is reported, a failed pipe is not.
Start(s) ==
    /\ Alive
    /\ pc[s] = "start"
    /\ LET c == cur[s] IN
       \/ /\ life' = [life EXCEPT ![c] = "up"]
          /\ of' = [of EXCEPT ![c] = job[s].proc]
          /\ cgOf' = [cgOf EXCEPT ![c] = cg]
          /\ Goto(s, IF cg = 0 THEN "register" ELSE "slice")
          /\ UNCHANGED <<job, cur>>
       \/ /\ Goto(s, "refuse")
          /\ cur' = [cur EXCEPT ![s] = NoCopy]
          /\ UNCHANGED <<job, life, of, cgOf>>
       \/ Return(s) /\ UNCHANGED <<life, of, cgOf>>
    /\ UNCHANGED <<network, events, inbox, outbox, procs, waiter, cgroups, drain>>

SliceOf(c) == <<cgOf[c], of[c]>>

\* CreateProcessSlice, which may fail.
CreateProcessSlice(s) ==
    /\ Alive
    /\ pc[s] = "slice"
    /\ \/ slices' = slices \cup {SliceOf(cur[s])}
       \/ UNCHANGED slices
    /\ Goto(s, "register")
    /\ UNCHANGED <<network, events, inbox, job, cur, outbox, procs, copies, cg, attached,
                   brood, drain>>

\* Attach, which fails if the slice is gone or the process has ended; then the
\* copy is put in procs.
Register(s) ==
    /\ Alive
    /\ pc[s] = "register"
    /\ \/ SliceOf(cur[s]) \in slices /\ attached' = attached \cup {cur[s]}
       \/ UNCHANGED attached
    /\ procs' = [procs EXCEPT ![of[cur[s]]] = cur[s]]
    /\ Goto(s, "announce")
    /\ UNCHANGED <<network, events, inbox, job, cur, outbox, copies, cg, slices, brood,
                   drain>>

\* The initial stdin is written, then ProcessStarted is queued and the goroutine
\* that waits for the end starts. The pumps of stdout and stderr start after the
\* write: a process that does not read its stdin, or waits for its output to be
\* read, holds the handler here until it ends.
Announce(s) ==
    /\ Alive
    /\ pc[s] = "announce"
    /\ Put
    /\ waiter' = [waiter EXCEPT ![cur[s]] = "wait"]
    /\ Return(s)
    /\ UNCHANGED <<network, events, inbox, procs, of, life, cgOf, cgroups, drain>>

\* Mutant of HandleKill: a process that was sent a signal is forgotten.
HandleKillForgets(s) ==
    /\ Alive
    /\ pc[s] = "idle"
    /\ inbox[s] # <<>>
    /\ Head(inbox[s]).kind = "kill"
    /\ inbox' = [inbox EXCEPT ![s] = Tail(@)]
    /\ LET c == procs[Head(inbox[s]).proc] IN
       \/ c # NoCopy /\ life' = [life EXCEPT ![c] = "dead"]
       \/ UNCHANGED life
    /\ procs' = [procs EXCEPT ![Head(inbox[s]).proc] = NoCopy]
    /\ UNCHANGED <<network, events, pc, job, cur, outbox, of, waiter, cgOf, cgroups, drain>>

\* handleKill: the copy that procs has is sent a signal, which may end it.
HandleKill(s) ==
    /\ Alive
    /\ pc[s] = "idle"
    /\ inbox[s] # <<>>
    /\ Head(inbox[s]).kind = "kill"
    /\ inbox' = [inbox EXCEPT ![s] = Tail(@)]
    /\ LET c == procs[Head(inbox[s]).proc] IN
       \/ c # NoCopy /\ life' = [life EXCEPT ![c] = "dead"]
       \/ UNCHANGED life
    /\ UNCHANGED <<network, events, pc, job, cur, outbox, procs, of, waiter, cgOf, cgroups,
                   drain>>

\* handleWriteStdin writes to the pipe, or finds no process, and acknowledges.
\* A full pipe holds the handler, and with it every event behind this one.
ReceiveStdin(s) ==
    /\ Receive(s, "stdin")
    /\ Goto(s, "stdin")
    /\ UNCHANGED <<network, events, cur, outbox, procs, copies, cgroups, drain>>

AckStdin(s) ==
    /\ Alive
    /\ pc[s] = "stdin"
    /\ Put
    /\ Return(s)
    /\ UNCHANGED <<network, events, inbox, procs, copies, cgroups, drain>>

-----------------------------------------------------------------------------
(* Drain and exit. *)

\* handleSetDrain returns if the agent is draining. (Two handlers may both pass:
\* the flag is tested and set under the lock, but not at once.)
ReceiveDrain(s) ==
    /\ Receive(s, "drain")
    /\ Goto(s, IF draining THEN "idle" ELSE "set")
    /\ UNCHANGED <<network, events, cur, outbox, procs, copies, cgroups, drain>>

SetDraining(s) ==
    /\ Alive
    /\ pc[s] = "set"
    /\ draining' = TRUE
    /\ overtaken' = overtaken \cup {cur[t] : t \in {t \in Streams : pc[t] \in Spawning}}
    /\ Goto(s, "kill")
    /\ UNCHANGED <<network, events, inbox, job, cur, outbox, procs, copies, cgroups, exit,
                   killed>>

\* SIGTERM to all, which some obey; the wait for procs to be empty or for the
\* deadline; SIGKILL to those that are left.
KillRest(s) ==
    /\ Alive
    /\ pc[s] = "kill"
    /\ killed' = killed \cup ({procs[p] : p \in Procs} \ {NoCopy})
    /\ Goto(s, "notify")
    /\ UNCHANGED <<network, events, inbox, job, cur, outbox, procs, copies, cgroups,
                   draining, exit, overtaken>>

\* Mutant of Notify: LazyDeath is sent like any other message.
NotifyBlocking(s) ==
    /\ Alive
    /\ pc[s] = "notify"
    /\ Put
    /\ exit' = "soon"
    /\ Return(s)
    /\ UNCHANGED <<network, events, inbox, procs, copies, cgroups, draining, killed,
                   overtaken>>

\* LazyDeath is queued if there is room, and a goroutine will end the agent.
Notify(s) ==
    /\ Alive
    /\ pc[s] = "notify"
    /\ Put \/ (outbox = Cap /\ UNCHANGED outbox)
    /\ exit' = "soon"
    /\ Return(s)
    /\ UNCHANGED <<network, events, inbox, procs, copies, cgroups, draining, killed,
                   overtaken>>

\* os.Exit: every goroutine is gone, the processes stay.
Exit ==
    /\ exit = "soon"
    /\ exit' = "drained"
    /\ UNCHANGED <<network, events, handlers, outbox, procs, copies, cgroups, draining,
                   killed, overtaken>>

-----------------------------------------------------------------------------
(* Processes and the goroutines that wait for them. *)

\* A process ends.
Die(c) ==
    /\ life[c] = "up"
    /\ life' = [life EXCEPT ![c] = "dead"]
    /\ UNCHANGED <<network, events, handlers, outbox, procs, of, waiter, cgOf, cgroups,
                   drain>>

\* Processes that run in a slice keep it busy.
Inside(sl) == {d \in attached : SliceOf(d) = sl /\ life[d] = "up"}

\* Mutant of Reap: the agent's manager instead of the one of the spawn.
ReapNow(c) ==
    /\ Alive
    /\ waiter[c] = "wait"
    /\ life[c] = "dead"
    /\ waiter' = [waiter EXCEPT ![c] = "report"]
    /\ \/ Inside(<<cg, of[c]>>) = {} /\ slices' = slices \ {<<cg, of[c]>>} /\ UNCHANGED brood
       \/ Inside(<<cg, of[c]>>) # {} /\ UNCHANGED <<slices, brood>>
       \/ c \in attached /\ brood' = brood \cup {c} /\ UNCHANGED slices
    /\ UNCHANGED <<network, events, handlers, outbox, procs, of, life, cgOf, cg, attached,
                   drain>>

\* cmd.Wait returns, and Destroy removes the slice. A busy one is left, which
\* children of the process keep busy, too. (cgroup.kill, if it can be read at
\* all, ends them, before rmdir or after it.)
Reap(c) ==
    /\ Alive
    /\ waiter[c] = "wait"
    /\ life[c] = "dead"
    /\ waiter' = [waiter EXCEPT ![c] = "report"]
    /\ \/ Inside(SliceOf(c)) = {} /\ slices' = slices \ {SliceOf(c)} /\ UNCHANGED brood
       \/ Inside(SliceOf(c)) # {} /\ UNCHANGED <<slices, brood>>
       \/ c \in attached /\ brood' = brood \cup {c} /\ UNCHANGED slices
    /\ UNCHANGED <<network, events, handlers, outbox, procs, of, life, cgOf, cg, attached,
                   drain>>

ReportExit(c) ==
    /\ Alive
    /\ waiter[c] = "report"
    /\ Put
    /\ waiter' = [waiter EXCEPT ![c] = "forget"]
    /\ UNCHANGED <<network, events, handlers, procs, of, life, cgOf, cgroups, drain>>

\* Whatever copy procs has under the process id leaves it.
Forget(c) ==
    /\ Alive
    /\ waiter[c] = "forget"
    /\ procs' = [procs EXCEPT ![of[c]] = NoCopy]
    /\ waiter' = [waiter EXCEPT ![c] = "done"]
    /\ UNCHANGED <<network, events, handlers, outbox, of, life, cgOf, cgroups, drain>>

-----------------------------------------------------------------------------
Init ==
    /\ stream = 0
    /\ link = "off"
    /\ stale = {}
    /\ lost = [s \in Streams |-> 0]
    /\ events = 0
    /\ inbox = [s \in Streams |-> <<>>]
    /\ pc = [s \in Streams |-> "idle"]
    /\ job = [s \in Streams |-> None]
    /\ cur = [s \in Streams |-> NoCopy]
    /\ outbox = 0
    /\ procs = [p \in Procs |-> NoCopy]
    /\ of = [c \in Copies |-> None]
    /\ life = [c \in Copies |-> "unused"]
    /\ waiter = [c \in Copies |-> "none"]
    /\ cg = 0
    /\ cgOf = [c \in Copies |-> 0]
    /\ slices = {}
    /\ attached = {}
    /\ brood = {}
    /\ draining = FALSE
    /\ exit = "no"
    /\ killed = {}
    /\ overtaken = {}

Drain(s) == SetDraining(s) \/ KillRest(s) \/ Notify(s)

Next ==
    \/ Open \/ Registered \/ RegisterFails \/ Break \/ SendLoop \/ Chatter
    \/ Exit
    \/ \E e \in Event : Deliver(e)
    \/ \E s \in Streams :
          \/ StaleSend(s)
          \/ ReceiveSpawn(s) \/ Refuse(s) \/ Start(s) \/ CreateProcessSlice(s)
          \/ Register(s) \/ Announce(s)
          \/ HandleKill(s) \/ ReceiveStdin(s) \/ AckStdin(s)
          \/ ReceiveDrain(s) \/ Drain(s)
    \/ \E c \in Copies : Die(c) \/ Reap(c) \/ ReportExit(c) \/ Forget(c)

\* The scheduler of goroutines is fair to a handler in handleSetDrain and to the
\* goroutine that calls os.Exit. Nothing is assumed of streams and processes.
Fairness == WF_vars(Exit) /\ \A s \in Streams : WF_vars(Drain(s))

Spec == Init /\ [][Next]_vars /\ Fairness
-----------------------------------------------------------------------------
(* Properties *)

\* Other processes were started under the same process id.
Twins(c) == {d \in Copies \ {c} : of[d] = of[c]}

\* A process that runs and was reported as started can be reached by kill, stdin
\* and drain, unless another one was started under its id (exec.go:207).
Reachable ==
    \A c \in Copies :
        Alive /\ life[c] = "up" /\ waiter[c] = "wait" => procs[of[c]] = c \/ Twins(c) # {}

\* A process that outlives a drain was sent SIGKILL; or its spawn had passed the
\* check on another stream's handler when draining was set, or it has a twin
\* (drain.go:103).
DrainLeavesNothing ==
    exit = "drained" =>
        \A c \in Copies : life[c] = "up" => c \in killed \cup overtaken \/ Twins(c) # {}

\* A stream costs at most two messages of the agent's: one that is sent ahead of
\* Register, and one whose Send fails (agent.go:199).
TwoLossesPerStream == \A s \in Streams : lost[s] <= 2

\* A slice belongs to a process that its waiter has not yet cleaned up after, or
\* a child of its processes keeps it (cgroup.go:133).
SliceFreed ==
    \A sl \in slices : \E c \in Copies :
        /\ SliceOf(c) = sl
        /\ c \in brood \/ waiter[c] \in {"none", "wait"}

\* A drain ends the agent, whatever its processes and its stream do
\* (drain.go:114).
DrainEnds == draining ~> ~Alive
=============================================================================
