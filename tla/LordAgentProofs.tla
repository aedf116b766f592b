-------------------------- MODULE LordAgentProofs --------------------------
(***************************************************************************)
(* Proofs about module LordAgent, for any processes, copies, streams and   *)
(* capacity of the outbox.                                                 *)
(***************************************************************************)
EXTENDS LordAgent, TLAPS

USE AgentAssumption

(* The types, by the parts of the state that actions change together. *)

TypeNetwork ==
    /\ stream \in 0..MaxStreams
    /\ link \in {"off", "new", "up", "broken"}
    /\ stale \in SUBSET Streams
    /\ lost \in [Streams -> Nat]
    /\ events \in Nat
    /\ outbox \in 0..Cap
    /\ link # "off" => stream # 0

TypeHandlers ==
    /\ inbox \in [Streams -> Seq(Event)]
    /\ pc \in [Streams -> Label]
    /\ job \in [Streams -> Event \cup {None}]
    /\ cur \in [Streams -> Copies \cup {NoCopy}]

TypeCopies ==
    /\ of \in [Copies -> Procs \cup {None}]
    /\ life \in [Copies -> {"unused", "up", "dead"}]
    /\ waiter \in [Copies -> Waiting]
    /\ cg \in 0..MaxStreams
    /\ cgOf \in [Copies -> 0..MaxStreams]
    /\ procs \in [Procs -> Copies \cup {NoCopy}]

TypeSets ==
    /\ slices \in SUBSET (Streams \X Procs)
    /\ attached \in SUBSET Copies
    /\ brood \in SUBSET Copies
    /\ killed \in SUBSET Copies
    /\ overtaken \in SUBSET Copies
    /\ draining \in BOOLEAN
    /\ exit \in {"no", "soon", "drained"}

LEMMA TypeParts == TypeOK <=> TypeNetwork /\ TypeHandlers /\ TypeCopies /\ TypeSets
BY DEF TypeOK, TypeNetwork, TypeHandlers, TypeCopies, TypeSets

\* A copy is made once, and its waiter starts after it and cleans up after its end.
Used ==
    \A c \in Copies :
        /\ life[c] = "unused" <=> of[c] = None
        /\ life[c] = "unused" => waiter[c] = "none"
        /\ waiter[c] \in {"report", "forget", "done"} => life[c] = "dead"

\* The process table holds copies that were made.
Listed == \A p \in Procs : procs[p] # NoCopy => life[procs[p]] # "unused"

\* The handler of a spawn has a copy of its own, which no goroutine waits for yet.
SpawnOf(s) ==
    /\ pc[s] \in Spawning \cup {"announce"} =>
          cur[s] \in Copies /\ job[s] \in Event /\ waiter[cur[s]] = "none"
    /\ pc[s] = "start" => life[cur[s]] = "unused"
    /\ pc[s] \in {"slice", "register", "announce"} => life[cur[s]] # "unused"
    /\ pc[s] = "slice" => cgOf[cur[s]] \in Streams

Spawn == \A s \in Streams : SpawnOf(s)

Single == \A s, t \in Streams : cur[s] = cur[t] /\ cur[s] # NoCopy => s = t

Base == TypeOK /\ Used /\ Listed /\ Spawn /\ Single

LEMMA ReceiveTypes ==
    ASSUME TypeHandlers, NEW s \in Streams, inbox[s] # <<>>
    PROVE  Head(inbox[s]) \in Event /\ [inbox EXCEPT ![s] = Tail(@)] \in [Streams -> Seq(Event)]
<1>1. inbox[s] \in Seq(Event) BY DEF TypeHandlers
<1>2. Head(inbox[s]) \in Event /\ Tail(inbox[s]) \in Seq(Event) BY <1>1
<1> QED BY <1>2 DEF TypeHandlers

\* The steps keep the types of the network.
LEMMA NetworkStep ==
    ASSUME TypeNetwork, [Next]_vars
    PROVE  TypeNetwork'
<1> USE DEF TypeNetwork, Streams, vars, network, handlers, copies, cgroups, drain
<1>1. CASE UNCHANGED vars BY <1>1 DEF vars
<1>2. CASE Open BY <1>2 DEF Open
<1>3. CASE Registered BY <1>3 DEF Registered
<1>4. CASE RegisterFails BY <1>4 DEF RegisterFails
<1>5. CASE Break BY <1>5 DEF Break
<1>6. CASE SendLoop
  <2>1. outbox' \in 0..Cap BY <1>6 DEF SendLoop, Take
  <2>2. /\ stream' = stream /\ stale' = stale /\ events' = events
        /\ link' \in {"off", "up", "broken"} /\ link # "off"
    BY <1>6 DEF SendLoop
  <2>3. lost' = lost \/ Lose(stream) BY <1>6 DEF SendLoop
  <2>4. lost' \in [Streams -> Nat] BY <2>3 DEF Lose
  <2> QED BY <2>1, <2>2, <2>4
<1>7. CASE Chatter BY <1>7 DEF Chatter, Put
<1>8. CASE Exit BY <1>8 DEF Exit
<1>9. ASSUME NEW e \in Event, Deliver(e) PROVE TypeNetwork' BY <1>9 DEF Deliver
<1>10. ASSUME NEW s \in Streams, StaleSend(s) PROVE TypeNetwork'
  BY <1>10 DEF StaleSend, Take, Lose
<1>11. ASSUME NEW s \in Streams, ReceiveSpawn(s) PROVE TypeNetwork'
  BY <1>11 DEF ReceiveSpawn, Receive, Goto, Fresh
<1>12. ASSUME NEW s \in Streams, Refuse(s) PROVE TypeNetwork'
  BY <1>12 DEF Refuse, Put, Return, Goto
<1>13. ASSUME NEW s \in Streams, Start(s) PROVE TypeNetwork'
  BY <1>13 DEF Start, Return, Goto
<1>14. ASSUME NEW s \in Streams, CreateProcessSlice(s) PROVE TypeNetwork'
  BY <1>14 DEF CreateProcessSlice, Goto, SliceOf
<1>15. ASSUME NEW s \in Streams, Register(s) PROVE TypeNetwork'
  BY <1>15 DEF Register, Goto, SliceOf
<1>16. ASSUME NEW s \in Streams, Announce(s) PROVE TypeNetwork'
  BY <1>16 DEF Announce, Put, Return, Goto
<1>17. ASSUME NEW s \in Streams, HandleKill(s) PROVE TypeNetwork'
  BY <1>17 DEF HandleKill
<1>18. ASSUME NEW s \in Streams, ReceiveStdin(s) PROVE TypeNetwork'
  BY <1>18 DEF ReceiveStdin, Receive, Goto
<1>19. ASSUME NEW s \in Streams, AckStdin(s) PROVE TypeNetwork'
  BY <1>19 DEF AckStdin, Put, Return, Goto
<1>20. ASSUME NEW s \in Streams, ReceiveDrain(s) PROVE TypeNetwork'
  BY <1>20 DEF ReceiveDrain, Receive, Goto
<1>21. ASSUME NEW s \in Streams, SetDraining(s) PROVE TypeNetwork'
  BY <1>21 DEF SetDraining, Goto
<1>22. ASSUME NEW s \in Streams, KillRest(s) PROVE TypeNetwork'
  BY <1>22 DEF KillRest, Goto
<1>23. ASSUME NEW s \in Streams, Notify(s) PROVE TypeNetwork'
  BY <1>23 DEF Notify, Put, Return, Goto
<1>24. ASSUME NEW c \in Copies, Die(c) PROVE TypeNetwork'
  BY <1>24 DEF Die
<1>25. ASSUME NEW c \in Copies, Reap(c) PROVE TypeNetwork'
  BY <1>25 DEF Reap, Inside, SliceOf
<1>26. ASSUME NEW c \in Copies, ReportExit(c) PROVE TypeNetwork'
  BY <1>26 DEF ReportExit, Put
<1>27. ASSUME NEW c \in Copies, Forget(c) PROVE TypeNetwork'
  BY <1>27 DEF Forget
<1> QED BY <1>1, <1>2, <1>3, <1>4, <1>5, <1>6, <1>7, <1>8, <1>9, <1>10, <1>11, <1>12,
         <1>13, <1>14, <1>15, <1>16, <1>17, <1>18, <1>19, <1>20, <1>21, <1>22, <1>23,
         <1>24, <1>25, <1>26, <1>27
  DEF Next, Drain

\* The steps keep the types of the handlers.
LEMMA HandlersStep ==
    ASSUME TypeHandlers, [Next]_vars
    PROVE  TypeHandlers'
<1> USE DEF TypeHandlers, Label, Spawning, Draining, vars, network, handlers, copies, cgroups, drain
<1>1. CASE UNCHANGED vars BY <1>1 DEF vars
<1>2. CASE Open BY <1>2 DEF Open
<1>3. CASE Registered BY <1>3 DEF Registered
<1>4. CASE RegisterFails BY <1>4 DEF RegisterFails
<1>5. CASE Break BY <1>5 DEF Break
<1>6. CASE SendLoop
  <2>1. inbox' = inbox \/ inbox' = [inbox EXCEPT ![stream] = <<>>] BY <1>6 DEF SendLoop
  <2>2. <<>> \in Seq(Event) OBVIOUS
  <2>3. \A q \in Seq(Event) : [inbox EXCEPT ![stream] = q] \in [Streams -> Seq(Event)] OBVIOUS
  <2>4. inbox' \in [Streams -> Seq(Event)] BY <2>1, <2>2, <2>3
  <2> QED BY <1>6, <2>4 DEF SendLoop
<1>7. CASE Chatter BY <1>7 DEF Chatter, Put
<1>8. CASE Exit BY <1>8 DEF Exit
<1>9. ASSUME NEW e \in Event, Deliver(e) PROVE TypeHandlers'
  <2>1. inbox' \in [Streams -> Seq(Event)]
    <3>1. inbox' = [inbox EXCEPT ![stream] = Append(@, e)] BY <1>9 DEF Deliver
    <3>2. \A s \in Streams : Append(inbox[s], e) \in Seq(Event) OBVIOUS
    <3> QED BY <3>1, <3>2
  <2> QED BY <1>9, <2>1 DEF Deliver
<1>10. ASSUME NEW s \in Streams, StaleSend(s) PROVE TypeHandlers'
  BY <1>10 DEF StaleSend, Take, Lose
<1>11. ASSUME NEW s \in Streams, ReceiveSpawn(s) PROVE TypeHandlers'
  BY <1>11, ReceiveTypes DEF ReceiveSpawn, Receive, Goto
<1>12. ASSUME NEW s \in Streams, Refuse(s) PROVE TypeHandlers'
  BY <1>12 DEF Refuse, Put, Return, Goto
<1>13. ASSUME NEW s \in Streams, Start(s) PROVE TypeHandlers'
  BY <1>13 DEF Start, Return, Goto
<1>14. ASSUME NEW s \in Streams, CreateProcessSlice(s) PROVE TypeHandlers'
  BY <1>14 DEF CreateProcessSlice, Goto, SliceOf
<1>15. ASSUME NEW s \in Streams, Register(s) PROVE TypeHandlers'
  BY <1>15 DEF Register, Goto, SliceOf
<1>16. ASSUME NEW s \in Streams, Announce(s) PROVE TypeHandlers'
  BY <1>16 DEF Announce, Put, Return, Goto
<1>17. ASSUME NEW s \in Streams, HandleKill(s) PROVE TypeHandlers'
  BY <1>17, ReceiveTypes DEF HandleKill
<1>18. ASSUME NEW s \in Streams, ReceiveStdin(s) PROVE TypeHandlers'
  BY <1>18, ReceiveTypes DEF ReceiveStdin, Receive, Goto
<1>19. ASSUME NEW s \in Streams, AckStdin(s) PROVE TypeHandlers'
  BY <1>19 DEF AckStdin, Put, Return, Goto
<1>20. ASSUME NEW s \in Streams, ReceiveDrain(s) PROVE TypeHandlers'
  BY <1>20, ReceiveTypes DEF ReceiveDrain, Receive, Goto
<1>21. ASSUME NEW s \in Streams, SetDraining(s) PROVE TypeHandlers'
  BY <1>21 DEF SetDraining, Goto
<1>22. ASSUME NEW s \in Streams, KillRest(s) PROVE TypeHandlers'
  BY <1>22 DEF KillRest, Goto
<1>23. ASSUME NEW s \in Streams, Notify(s) PROVE TypeHandlers'
  BY <1>23 DEF Notify, Put, Return, Goto
<1>24. ASSUME NEW c \in Copies, Die(c) PROVE TypeHandlers'
  BY <1>24 DEF Die
<1>25. ASSUME NEW c \in Copies, Reap(c) PROVE TypeHandlers'
  BY <1>25 DEF Reap, Inside, SliceOf
<1>26. ASSUME NEW c \in Copies, ReportExit(c) PROVE TypeHandlers'
  BY <1>26 DEF ReportExit, Put
<1>27. ASSUME NEW c \in Copies, Forget(c) PROVE TypeHandlers'
  BY <1>27 DEF Forget
<1> QED BY <1>1, <1>2, <1>3, <1>4, <1>5, <1>6, <1>7, <1>8, <1>9, <1>10, <1>11, <1>12,
         <1>13, <1>14, <1>15, <1>16, <1>17, <1>18, <1>19, <1>20, <1>21, <1>22, <1>23,
         <1>24, <1>25, <1>26, <1>27
  DEF Next, Drain

\* The steps keep the types of the copies.
LEMMA CopiesStep ==
    ASSUME TypeNetwork, TypeCopies, TypeHandlers, Spawn, [Next]_vars
    PROVE  TypeCopies'
<1> USE DEF TypeCopies, TypeHandlers, Waiting, Spawn, SpawnOf, Spawning, vars, network, handlers, copies, cgroups, drain
<1>1. CASE UNCHANGED vars BY <1>1 DEF vars
<1>2. CASE Open BY <1>2 DEF Open
<1>3. CASE Registered BY <1>3 DEF Registered, TypeNetwork
<1>4. CASE RegisterFails BY <1>4 DEF RegisterFails
<1>5. CASE Break BY <1>5 DEF Break
<1>6. CASE SendLoop BY <1>6 DEF SendLoop, Take, Lose
<1>7. CASE Chatter BY <1>7 DEF Chatter, Put
<1>8. CASE Exit BY <1>8 DEF Exit
<1>9. ASSUME NEW e \in Event, Deliver(e) PROVE TypeCopies' BY <1>9 DEF Deliver
<1>10. ASSUME NEW s \in Streams, StaleSend(s) PROVE TypeCopies'
  BY <1>10 DEF StaleSend, Take, Lose
<1>11. ASSUME NEW s \in Streams, ReceiveSpawn(s) PROVE TypeCopies'
  BY <1>11 DEF ReceiveSpawn, Receive, Goto, Fresh
<1>12. ASSUME NEW s \in Streams, Refuse(s) PROVE TypeCopies'
  BY <1>12 DEF Refuse, Put, Return, Goto
<1>13. ASSUME NEW s \in Streams, Start(s) PROVE TypeCopies'
  <2>1. cur[s] \in Copies /\ job[s].proc \in Procs BY <1>13 DEF Start, Event
  <2>2. /\ life' \in {life, [life EXCEPT ![cur[s]] = "up"]}
        /\ of' \in {of, [of EXCEPT ![cur[s]] = job[s].proc]}
        /\ cgOf' \in {cgOf, [cgOf EXCEPT ![cur[s]] = cg]}
        /\ UNCHANGED <<procs, waiter, cgroups>>
    BY <1>13 DEF Start
  <2>3. life' \in [Copies -> {"unused", "up", "dead"}] BY <2>2
  <2>4. of' \in [Copies -> Procs \cup {None}] BY <2>1, <2>2
  <2>5. cgOf' \in [Copies -> 0..MaxStreams] BY <2>2
  <2> QED BY <2>2, <2>3, <2>4, <2>5 DEF cgroups
<1>14. ASSUME NEW s \in Streams, CreateProcessSlice(s) PROVE TypeCopies'
  BY <1>14 DEF CreateProcessSlice, Goto, SliceOf
<1>15. ASSUME NEW s \in Streams, Register(s) PROVE TypeCopies'
  BY <1>15 DEF Register, Goto, SliceOf
<1>16. ASSUME NEW s \in Streams, Announce(s) PROVE TypeCopies'
  BY <1>16 DEF Announce, Put, Return, Goto
<1>17. ASSUME NEW s \in Streams, HandleKill(s) PROVE TypeCopies'
  BY <1>17 DEF HandleKill
<1>18. ASSUME NEW s \in Streams, ReceiveStdin(s) PROVE TypeCopies'
  BY <1>18 DEF ReceiveStdin, Receive, Goto
<1>19. ASSUME NEW s \in Streams, AckStdin(s) PROVE TypeCopies'
  BY <1>19 DEF AckStdin, Put, Return, Goto
<1>20. ASSUME NEW s \in Streams, ReceiveDrain(s) PROVE TypeCopies'
  BY <1>20 DEF ReceiveDrain, Receive, Goto
<1>21. ASSUME NEW s \in Streams, SetDraining(s) PROVE TypeCopies'
  BY <1>21 DEF SetDraining, Goto
<1>22. ASSUME NEW s \in Streams, KillRest(s) PROVE TypeCopies'
  BY <1>22 DEF KillRest, Goto
<1>23. ASSUME NEW s \in Streams, Notify(s) PROVE TypeCopies'
  BY <1>23 DEF Notify, Put, Return, Goto
<1>24. ASSUME NEW c \in Copies, Die(c) PROVE TypeCopies'
  BY <1>24 DEF Die
<1>25. ASSUME NEW c \in Copies, Reap(c) PROVE TypeCopies'
  BY <1>25 DEF Reap, Inside, SliceOf
<1>26. ASSUME NEW c \in Copies, ReportExit(c) PROVE TypeCopies'
  BY <1>26 DEF ReportExit, Put
<1>27. ASSUME NEW c \in Copies, Forget(c) PROVE TypeCopies'
  BY <1>27 DEF Forget
<1> QED BY <1>1, <1>2, <1>3, <1>4, <1>5, <1>6, <1>7, <1>8, <1>9, <1>10, <1>11, <1>12,
         <1>13, <1>14, <1>15, <1>16, <1>17, <1>18, <1>19, <1>20, <1>21, <1>22, <1>23,
         <1>24, <1>25, <1>26, <1>27
  DEF Next, Drain

\* The steps keep the types of slices and drain.
LEMMA SetsStep ==
    ASSUME TypeSets, TypeCopies, TypeHandlers, Spawn, Used, [Next]_vars
    PROVE  TypeSets'
<1> USE DEF TypeSets, TypeCopies, TypeHandlers, Spawn, SpawnOf, Used, Spawning, vars, network, handlers, copies, cgroups, drain
<1>1. CASE UNCHANGED vars BY <1>1 DEF vars
<1>2. CASE Open BY <1>2 DEF Open
<1>3. CASE Registered BY <1>3 DEF Registered
<1>4. CASE RegisterFails BY <1>4 DEF RegisterFails
<1>5. CASE Break BY <1>5 DEF Break
<1>6. CASE SendLoop BY <1>6 DEF SendLoop, Take, Lose
<1>7. CASE Chatter BY <1>7 DEF Chatter, Put
<1>8. CASE Exit BY <1>8 DEF Exit
<1>9. ASSUME NEW e \in Event, Deliver(e) PROVE TypeSets' BY <1>9 DEF Deliver
<1>10. ASSUME NEW s \in Streams, StaleSend(s) PROVE TypeSets'
  BY <1>10 DEF StaleSend, Take, Lose
<1>11. ASSUME NEW s \in Streams, ReceiveSpawn(s) PROVE TypeSets'
  BY <1>11 DEF ReceiveSpawn, Receive, Goto, Fresh
<1>12. ASSUME NEW s \in Streams, Refuse(s) PROVE TypeSets'
  BY <1>12 DEF Refuse, Put, Return, Goto
<1>13. ASSUME NEW s \in Streams, Start(s) PROVE TypeSets'
  BY <1>13 DEF Start, Return, Goto
<1>14. ASSUME NEW s \in Streams, CreateProcessSlice(s) PROVE TypeSets'
  BY <1>14 DEF CreateProcessSlice, Goto, SliceOf
<1>15. ASSUME NEW s \in Streams, Register(s) PROVE TypeSets'
  BY <1>15 DEF Register, Goto, SliceOf
<1>16. ASSUME NEW s \in Streams, Announce(s) PROVE TypeSets'
  BY <1>16 DEF Announce, Put, Return, Goto
<1>17. ASSUME NEW s \in Streams, HandleKill(s) PROVE TypeSets'
  BY <1>17 DEF HandleKill
<1>18. ASSUME NEW s \in Streams, ReceiveStdin(s) PROVE TypeSets'
  BY <1>18 DEF ReceiveStdin, Receive, Goto
<1>19. ASSUME NEW s \in Streams, AckStdin(s) PROVE TypeSets'
  BY <1>19 DEF AckStdin, Put, Return, Goto
<1>20. ASSUME NEW s \in Streams, ReceiveDrain(s) PROVE TypeSets'
  BY <1>20 DEF ReceiveDrain, Receive, Goto
<1>21. ASSUME NEW s \in Streams, SetDraining(s) PROVE TypeSets'
  BY <1>21 DEF SetDraining, Goto
<1>22. ASSUME NEW s \in Streams, KillRest(s) PROVE TypeSets'
  BY <1>22 DEF KillRest, Goto
<1>23. ASSUME NEW s \in Streams, Notify(s) PROVE TypeSets'
  BY <1>23 DEF Notify, Put, Return, Goto
<1>24. ASSUME NEW c \in Copies, Die(c) PROVE TypeSets'
  BY <1>24 DEF Die
<1>25. ASSUME NEW c \in Copies, Reap(c) PROVE TypeSets'
  BY <1>25 DEF Reap, Inside, SliceOf
<1>26. ASSUME NEW c \in Copies, ReportExit(c) PROVE TypeSets'
  BY <1>26 DEF ReportExit, Put
<1>27. ASSUME NEW c \in Copies, Forget(c) PROVE TypeSets'
  BY <1>27 DEF Forget
<1> QED BY <1>1, <1>2, <1>3, <1>4, <1>5, <1>6, <1>7, <1>8, <1>9, <1>10, <1>11, <1>12,
         <1>13, <1>14, <1>15, <1>16, <1>17, <1>18, <1>19, <1>20, <1>21, <1>22, <1>23,
         <1>24, <1>25, <1>26, <1>27
  DEF Next, Drain

\* A copy's waiter stays in step with it.
LEMMA UsedStep ==
    ASSUME TypeCopies, TypeHandlers, Used, Listed, Spawn, [Next]_vars
    PROVE  Used'
<1> USE DEF Used, Listed, Spawn, SpawnOf, TypeCopies, TypeHandlers, Event, Spawning, vars, network, handlers, copies, cgroups, drain
<1>1. CASE UNCHANGED vars BY <1>1 DEF vars
<1>2. CASE Open BY <1>2 DEF Open
<1>3. CASE Registered BY <1>3 DEF Registered
<1>4. CASE RegisterFails BY <1>4 DEF RegisterFails
<1>5. CASE Break BY <1>5 DEF Break
<1>6. CASE SendLoop BY <1>6 DEF SendLoop, Take, Lose
<1>7. CASE Chatter BY <1>7 DEF Chatter, Put
<1>8. CASE Exit BY <1>8 DEF Exit
<1>9. ASSUME NEW e \in Event, Deliver(e) PROVE Used' BY <1>9 DEF Deliver
<1>10. ASSUME NEW s \in Streams, StaleSend(s) PROVE Used'
  BY <1>10 DEF StaleSend, Take, Lose
<1>11. ASSUME NEW s \in Streams, ReceiveSpawn(s) PROVE Used'
  BY <1>11 DEF ReceiveSpawn, Receive, Goto, Fresh
<1>12. ASSUME NEW s \in Streams, Refuse(s) PROVE Used'
  BY <1>12 DEF Refuse, Put, Return, Goto
<1>13. ASSUME NEW s \in Streams, Start(s) PROVE Used'
  BY <1>13 DEF Start, Return, Goto
<1>14. ASSUME NEW s \in Streams, CreateProcessSlice(s) PROVE Used'
  BY <1>14 DEF CreateProcessSlice, Goto, SliceOf
<1>15. ASSUME NEW s \in Streams, Register(s) PROVE Used'
  BY <1>15 DEF Register, Goto, SliceOf
<1>16. ASSUME NEW s \in Streams, Announce(s) PROVE Used'
  BY <1>16 DEF Announce, Put, Return, Goto
<1>17. ASSUME NEW s \in Streams, HandleKill(s) PROVE Used'
  <2>1. Head(inbox[s]).proc \in Procs BY <1>17, ReceiveTypes DEF HandleKill
  <2> QED BY <1>17, <2>1 DEF HandleKill
<1>18. ASSUME NEW s \in Streams, ReceiveStdin(s) PROVE Used'
  BY <1>18 DEF ReceiveStdin, Receive, Goto
<1>19. ASSUME NEW s \in Streams, AckStdin(s) PROVE Used'
  BY <1>19 DEF AckStdin, Put, Return, Goto
<1>20. ASSUME NEW s \in Streams, ReceiveDrain(s) PROVE Used'
  BY <1>20 DEF ReceiveDrain, Receive, Goto
<1>21. ASSUME NEW s \in Streams, SetDraining(s) PROVE Used'
  BY <1>21 DEF SetDraining, Goto
<1>22. ASSUME NEW s \in Streams, KillRest(s) PROVE Used'
  BY <1>22 DEF KillRest, Goto
<1>23. ASSUME NEW s \in Streams, Notify(s) PROVE Used'
  BY <1>23 DEF Notify, Put, Return, Goto
<1>24. ASSUME NEW c \in Copies, Die(c) PROVE Used'
  BY <1>24 DEF Die
<1>25. ASSUME NEW c \in Copies, Reap(c) PROVE Used'
  BY <1>25 DEF Reap, Inside, SliceOf
<1>26. ASSUME NEW c \in Copies, ReportExit(c) PROVE Used'
  BY <1>26 DEF ReportExit, Put
<1>27. ASSUME NEW c \in Copies, Forget(c) PROVE Used'
  BY <1>27 DEF Forget
<1> QED BY <1>1, <1>2, <1>3, <1>4, <1>5, <1>6, <1>7, <1>8, <1>9, <1>10, <1>11, <1>12,
         <1>13, <1>14, <1>15, <1>16, <1>17, <1>18, <1>19, <1>20, <1>21, <1>22, <1>23,
         <1>24, <1>25, <1>26, <1>27
  DEF Next, Drain

\* The table gets no copies but those that were made.
LEMMA ListedStep ==
    ASSUME TypeCopies, TypeHandlers, Used, Listed, Spawn, [Next]_vars
    PROVE  Listed'
<1> USE DEF Listed, Spawn, SpawnOf, TypeCopies, TypeHandlers, Spawning, Used, vars, network, handlers, copies, cgroups, drain
<1>1. CASE UNCHANGED vars BY <1>1 DEF vars
<1>2. CASE Open BY <1>2 DEF Open
<1>3. CASE Registered BY <1>3 DEF Registered
<1>4. CASE RegisterFails BY <1>4 DEF RegisterFails
<1>5. CASE Break BY <1>5 DEF Break
<1>6. CASE SendLoop BY <1>6 DEF SendLoop, Take, Lose
<1>7. CASE Chatter BY <1>7 DEF Chatter, Put
<1>8. CASE Exit BY <1>8 DEF Exit
<1>9. ASSUME NEW e \in Event, Deliver(e) PROVE Listed' BY <1>9 DEF Deliver
<1>10. ASSUME NEW s \in Streams, StaleSend(s) PROVE Listed'
  BY <1>10 DEF StaleSend, Take, Lose
<1>11. ASSUME NEW s \in Streams, ReceiveSpawn(s) PROVE Listed'
  BY <1>11 DEF ReceiveSpawn, Receive, Goto, Fresh
<1>12. ASSUME NEW s \in Streams, Refuse(s) PROVE Listed'
  BY <1>12 DEF Refuse, Put, Return, Goto
<1>13. ASSUME NEW s \in Streams, Start(s) PROVE Listed'
  BY <1>13 DEF Start, Return, Goto
<1>14. ASSUME NEW s \in Streams, CreateProcessSlice(s) PROVE Listed'
  BY <1>14 DEF CreateProcessSlice, Goto, SliceOf
<1>15. ASSUME NEW s \in Streams, Register(s) PROVE Listed'
  BY <1>15 DEF Register, Goto, SliceOf
<1>16. ASSUME NEW s \in Streams, Announce(s) PROVE Listed'
  BY <1>16 DEF Announce, Put, Return, Goto
<1>17. ASSUME NEW s \in Streams, HandleKill(s) PROVE Listed'
  BY <1>17 DEF HandleKill
<1>18. ASSUME NEW s \in Streams, ReceiveStdin(s) PROVE Listed'
  BY <1>18 DEF ReceiveStdin, Receive, Goto
<1>19. ASSUME NEW s \in Streams, AckStdin(s) PROVE Listed'
  BY <1>19 DEF AckStdin, Put, Return, Goto
<1>20. ASSUME NEW s \in Streams, ReceiveDrain(s) PROVE Listed'
  BY <1>20 DEF ReceiveDrain, Receive, Goto
<1>21. ASSUME NEW s \in Streams, SetDraining(s) PROVE Listed'
  BY <1>21 DEF SetDraining, Goto
<1>22. ASSUME NEW s \in Streams, KillRest(s) PROVE Listed'
  BY <1>22 DEF KillRest, Goto
<1>23. ASSUME NEW s \in Streams, Notify(s) PROVE Listed'
  BY <1>23 DEF Notify, Put, Return, Goto
<1>24. ASSUME NEW c \in Copies, Die(c) PROVE Listed'
  BY <1>24 DEF Die
<1>25. ASSUME NEW c \in Copies, Reap(c) PROVE Listed'
  BY <1>25 DEF Reap, Inside, SliceOf
<1>26. ASSUME NEW c \in Copies, ReportExit(c) PROVE Listed'
  BY <1>26 DEF ReportExit, Put
<1>27. ASSUME NEW c \in Copies, Forget(c) PROVE Listed'
  BY <1>27 DEF Forget
<1> QED BY <1>1, <1>2, <1>3, <1>4, <1>5, <1>6, <1>7, <1>8, <1>9, <1>10, <1>11, <1>12,
         <1>13, <1>14, <1>15, <1>16, <1>17, <1>18, <1>19, <1>20, <1>21, <1>22, <1>23,
         <1>24, <1>25, <1>26, <1>27
  DEF Next, Drain

\* The handlers of spawns stay in step with their copies.
LEMMA SpawnStep ==
    ASSUME TypeCopies, TypeHandlers, Used, Listed, Spawn, Single, [Next]_vars
    PROVE  Spawn'
<1> USE DEF Spawn, SpawnOf, Single, Used, Listed, TypeCopies, TypeHandlers, Label, Spawning, vars, network, handlers, copies, cgroups, drain
<1>1. CASE UNCHANGED vars BY <1>1 DEF vars
<1>2. CASE Open BY <1>2 DEF Open
<1>3. CASE Registered BY <1>3 DEF Registered
<1>4. CASE RegisterFails BY <1>4 DEF RegisterFails
<1>5. CASE Break BY <1>5 DEF Break
<1>6. CASE SendLoop BY <1>6 DEF SendLoop, Take, Lose
<1>7. CASE Chatter BY <1>7 DEF Chatter, Put
<1>8. CASE Exit BY <1>8 DEF Exit
<1>9. ASSUME NEW e \in Event, Deliver(e) PROVE Spawn' BY <1>9 DEF Deliver
<1>10. ASSUME NEW s \in Streams, StaleSend(s) PROVE Spawn'
  BY <1>10 DEF StaleSend, Take, Lose
<1>11. ASSUME NEW s \in Streams, ReceiveSpawn(s) PROVE Spawn'
  <2>1. /\ Head(inbox[s]) \in Event
        /\ job' = [job EXCEPT ![s] = Head(inbox[s])]
        /\ UNCHANGED copies
    BY <1>11, ReceiveTypes DEF ReceiveSpawn, Receive
  <2>2. CASE UNCHANGED cur /\ Goto(s, "refuse") BY <2>1, <2>2 DEF Goto
  <2>3. ASSUME NEW c \in Copies, Fresh(c), cur' = [cur EXCEPT ![s] = c], Goto(s, "start")
        PROVE  Spawn'
    BY <2>1, <2>3 DEF Goto, Fresh
  <2> QED BY <1>11, <2>2, <2>3 DEF ReceiveSpawn
<1>12. ASSUME NEW s \in Streams, Refuse(s) PROVE Spawn'
  BY <1>12 DEF Refuse, Put, Return, Goto
<1>13. ASSUME NEW s \in Streams, Start(s) PROVE Spawn'
  <2> DEFINE c == cur[s]
  <2>1. c \in Copies /\ \A t \in Streams \ {s} : cur[t] # c BY <1>13 DEF Start, Copies, NoCopy
  <2>2. UNCHANGED waiter BY <1>13 DEF Start
  <2>3. CASE /\ life' = [life EXCEPT ![c] = "up"]
             /\ cgOf' = [cgOf EXCEPT ![c] = cg]
             /\ pc' = [pc EXCEPT ![s] = IF cg = 0 THEN "register" ELSE "slice"]
             /\ UNCHANGED <<job, cur>>
    <3>1. SpawnOf(s)' BY <1>13, <2>1, <2>2, <2>3 DEF Start, Streams
    <3>2. ASSUME NEW t \in Streams \ {s} PROVE SpawnOf(t)'
      <4>1. /\ pc'[t] = pc[t] /\ cur'[t] = cur[t] /\ job'[t] = job[t]
            /\ cur[t] \in Copies => life'[cur[t]] = life[cur[t]] /\ cgOf'[cur[t]] = cgOf[cur[t]]
        BY <2>1, <2>3
      <4> QED BY <2>2, <4>1
    <3> QED BY <3>1, <3>2
  <2>4. CASE UNCHANGED <<life, cgOf>> /\ (Goto(s, "refuse") \/ Return(s))
             /\ cur' = [cur EXCEPT ![s] = NoCopy] /\ job' \in {job, [job EXCEPT ![s] = None]}
    BY <2>2, <2>4 DEF Goto, Return
  <2> QED BY <1>13, <2>3, <2>4 DEF Start, Goto, Return
<1>14. ASSUME NEW s \in Streams, CreateProcessSlice(s) PROVE Spawn'
  BY <1>14 DEF CreateProcessSlice, Goto, SliceOf
<1>15. ASSUME NEW s \in Streams, Register(s) PROVE Spawn'
  BY <1>15 DEF Register, Goto, SliceOf
<1>16. ASSUME NEW s \in Streams, Announce(s) PROVE Spawn'
  <2>1. cur[s] \in Copies /\ \A t \in Streams \ {s} : cur[t] # cur[s]
    BY <1>16 DEF Announce, Copies, NoCopy
  <2> QED BY <1>16, <2>1 DEF Announce, Return, Goto
<1>17. ASSUME NEW s \in Streams, HandleKill(s) PROVE Spawn'
  <2>1. Head(inbox[s]).proc \in Procs BY <1>17, ReceiveTypes DEF HandleKill, Event
  <2> QED BY <1>17, <2>1 DEF HandleKill
<1>18. ASSUME NEW s \in Streams, ReceiveStdin(s) PROVE Spawn'
  BY <1>18 DEF ReceiveStdin, Receive, Goto
<1>19. ASSUME NEW s \in Streams, AckStdin(s) PROVE Spawn'
  BY <1>19 DEF AckStdin, Put, Return, Goto
<1>20. ASSUME NEW s \in Streams, ReceiveDrain(s) PROVE Spawn'
  BY <1>20 DEF ReceiveDrain, Receive, Goto
<1>21. ASSUME NEW s \in Streams, SetDraining(s) PROVE Spawn'
  BY <1>21 DEF SetDraining, Goto
<1>22. ASSUME NEW s \in Streams, KillRest(s) PROVE Spawn'
  BY <1>22 DEF KillRest, Goto
<1>23. ASSUME NEW s \in Streams, Notify(s) PROVE Spawn'
  BY <1>23 DEF Notify, Put, Return, Goto
<1>24. ASSUME NEW c \in Copies, Die(c) PROVE Spawn'
  BY <1>24 DEF Die
<1>25. ASSUME NEW c \in Copies, Reap(c) PROVE Spawn'
  BY <1>25 DEF Reap, Inside, SliceOf
<1>26. ASSUME NEW c \in Copies, ReportExit(c) PROVE Spawn'
  BY <1>26 DEF ReportExit, Put
<1>27. ASSUME NEW c \in Copies, Forget(c) PROVE Spawn'
  BY <1>27 DEF Forget
<1> QED BY <1>1, <1>2, <1>3, <1>4, <1>5, <1>6, <1>7, <1>8, <1>9, <1>10, <1>11, <1>12,
         <1>13, <1>14, <1>15, <1>16, <1>17, <1>18, <1>19, <1>20, <1>21, <1>22, <1>23,
         <1>24, <1>25, <1>26, <1>27
  DEF Next, Drain

\* No two handlers get the same copy.
LEMMA SingleStep ==
    ASSUME TypeHandlers, Single, [Next]_vars
    PROVE  Single'
<1> USE DEF Single, TypeHandlers, vars, network, handlers, copies, cgroups, drain
<1>1. CASE UNCHANGED vars BY <1>1 DEF vars
<1>2. CASE Open BY <1>2 DEF Open
<1>3. CASE Registered BY <1>3 DEF Registered
<1>4. CASE RegisterFails BY <1>4 DEF RegisterFails
<1>5. CASE Break BY <1>5 DEF Break
<1>6. CASE SendLoop BY <1>6 DEF SendLoop, Take, Lose
<1>7. CASE Chatter BY <1>7 DEF Chatter, Put
<1>8. CASE Exit BY <1>8 DEF Exit
<1>9. ASSUME NEW e \in Event, Deliver(e) PROVE Single' BY <1>9 DEF Deliver
<1>10. ASSUME NEW s \in Streams, StaleSend(s) PROVE Single'
  BY <1>10 DEF StaleSend, Take, Lose
<1>11. ASSUME NEW s \in Streams, ReceiveSpawn(s) PROVE Single'
  <2>1. CASE UNCHANGED cur BY <2>1
  <2>2. ASSUME NEW c \in Copies, Fresh(c), cur' = [cur EXCEPT ![s] = c] PROVE Single'
    BY <2>2 DEF Fresh
  <2> QED BY <1>11, <2>1, <2>2 DEF ReceiveSpawn
<1>12. ASSUME NEW s \in Streams, Refuse(s) PROVE Single'
  BY <1>12 DEF Refuse, Put, Return, Goto
<1>13. ASSUME NEW s \in Streams, Start(s) PROVE Single'
  BY <1>13 DEF Start, Return, Goto
<1>14. ASSUME NEW s \in Streams, CreateProcessSlice(s) PROVE Single'
  BY <1>14 DEF CreateProcessSlice, Goto, SliceOf
<1>15. ASSUME NEW s \in Streams, Register(s) PROVE Single'
  BY <1>15 DEF Register, Goto, SliceOf
<1>16. ASSUME NEW s \in Streams, Announce(s) PROVE Single'
  BY <1>16 DEF Announce, Put, Return, Goto
<1>17. ASSUME NEW s \in Streams, HandleKill(s) PROVE Single'
  BY <1>17 DEF HandleKill
<1>18. ASSUME NEW s \in Streams, ReceiveStdin(s) PROVE Single'
  BY <1>18 DEF ReceiveStdin, Receive, Goto
<1>19. ASSUME NEW s \in Streams, AckStdin(s) PROVE Single'
  BY <1>19 DEF AckStdin, Put, Return, Goto
<1>20. ASSUME NEW s \in Streams, ReceiveDrain(s) PROVE Single'
  BY <1>20 DEF ReceiveDrain, Receive, Goto
<1>21. ASSUME NEW s \in Streams, SetDraining(s) PROVE Single'
  BY <1>21 DEF SetDraining, Goto
<1>22. ASSUME NEW s \in Streams, KillRest(s) PROVE Single'
  BY <1>22 DEF KillRest, Goto
<1>23. ASSUME NEW s \in Streams, Notify(s) PROVE Single'
  BY <1>23 DEF Notify, Put, Return, Goto
<1>24. ASSUME NEW c \in Copies, Die(c) PROVE Single'
  BY <1>24 DEF Die
<1>25. ASSUME NEW c \in Copies, Reap(c) PROVE Single'
  BY <1>25 DEF Reap, Inside, SliceOf
<1>26. ASSUME NEW c \in Copies, ReportExit(c) PROVE Single'
  BY <1>26 DEF ReportExit, Put
<1>27. ASSUME NEW c \in Copies, Forget(c) PROVE Single'
  BY <1>27 DEF Forget
<1> QED BY <1>1, <1>2, <1>3, <1>4, <1>5, <1>6, <1>7, <1>8, <1>9, <1>10, <1>11, <1>12,
         <1>13, <1>14, <1>15, <1>16, <1>17, <1>18, <1>19, <1>20, <1>21, <1>22, <1>23,
         <1>24, <1>25, <1>26, <1>27
  DEF Next, Drain

\* Nothing but its end happens to a copy that was made.
LEMMA MadeStep ==
    ASSUME TypeCopies, TypeHandlers, Spawn, [Next]_vars,
           NEW c \in Copies, life[c] # "unused"
    PROVE  /\ of'[c] = of[c]
           /\ cgOf'[c] = cgOf[c]
           /\ life'[c] # "unused"
           /\ life'[c] = "up" => life[c] = "up"
<1> DEFINE Kept == /\ of'[c] = of[c]
                   /\ cgOf'[c] = cgOf[c]
                   /\ life'[c] # "unused"
                   /\ life'[c] = "up" => life[c] = "up"
<1> USE DEF TypeCopies, TypeHandlers, Spawn, SpawnOf, Spawning, vars, network, handlers, copies, cgroups, drain
<1>1. CASE UNCHANGED vars BY <1>1 DEF vars
<1>2. CASE Open BY <1>2 DEF Open
<1>3. CASE Registered BY <1>3 DEF Registered
<1>4. CASE RegisterFails BY <1>4 DEF RegisterFails
<1>5. CASE Break BY <1>5 DEF Break
<1>6. CASE SendLoop BY <1>6 DEF SendLoop, Take, Lose
<1>7. CASE Chatter BY <1>7 DEF Chatter, Put
<1>8. CASE Exit BY <1>8 DEF Exit
<1>9. ASSUME NEW e \in Event, Deliver(e) PROVE Kept BY <1>9 DEF Deliver
<1>10. ASSUME NEW s \in Streams, StaleSend(s) PROVE Kept
  BY <1>10 DEF StaleSend, Take, Lose
<1>11. ASSUME NEW s \in Streams, ReceiveSpawn(s) PROVE Kept
  BY <1>11 DEF ReceiveSpawn, Receive, Goto, Fresh
<1>12. ASSUME NEW s \in Streams, Refuse(s) PROVE Kept
  BY <1>12 DEF Refuse, Put, Return, Goto
<1>13. ASSUME NEW s \in Streams, Start(s) PROVE Kept
  BY <1>13 DEF Start, Return, Goto
<1>14. ASSUME NEW s \in Streams, CreateProcessSlice(s) PROVE Kept
  BY <1>14 DEF CreateProcessSlice, Goto, SliceOf
<1>15. ASSUME NEW s \in Streams, Register(s) PROVE Kept
  BY <1>15 DEF Register, Goto, SliceOf
<1>16. ASSUME NEW s \in Streams, Announce(s) PROVE Kept
  BY <1>16 DEF Announce, Put, Return, Goto
<1>17. ASSUME NEW s \in Streams, HandleKill(s) PROVE Kept
  BY <1>17 DEF HandleKill
<1>18. ASSUME NEW s \in Streams, ReceiveStdin(s) PROVE Kept
  BY <1>18 DEF ReceiveStdin, Receive, Goto
<1>19. ASSUME NEW s \in Streams, AckStdin(s) PROVE Kept
  BY <1>19 DEF AckStdin, Put, Return, Goto
<1>20. ASSUME NEW s \in Streams, ReceiveDrain(s) PROVE Kept
  BY <1>20 DEF ReceiveDrain, Receive, Goto
<1>21. ASSUME NEW s \in Streams, SetDraining(s) PROVE Kept
  BY <1>21 DEF SetDraining, Goto
<1>22. ASSUME NEW s \in Streams, KillRest(s) PROVE Kept
  BY <1>22 DEF KillRest, Goto
<1>23. ASSUME NEW s \in Streams, Notify(s) PROVE Kept
  BY <1>23 DEF Notify, Put, Return, Goto
<1>24. ASSUME NEW d \in Copies, Die(d) PROVE Kept
  BY <1>24 DEF Die
<1>25. ASSUME NEW d \in Copies, Reap(d) PROVE Kept
  BY <1>25 DEF Reap, Inside, SliceOf
<1>26. ASSUME NEW d \in Copies, ReportExit(d) PROVE Kept
  BY <1>26 DEF ReportExit, Put
<1>27. ASSUME NEW d \in Copies, Forget(d) PROVE Kept
  BY <1>27 DEF Forget
<1> QED BY <1>1, <1>2, <1>3, <1>4, <1>5, <1>6, <1>7, <1>8, <1>9, <1>10, <1>11, <1>12,
         <1>13, <1>14, <1>15, <1>16, <1>17, <1>18, <1>19, <1>20, <1>21, <1>22, <1>23,
         <1>24, <1>25, <1>26, <1>27
  DEF Next, Drain

LEMMA TwinsStay ==
    ASSUME TypeCopies, TypeHandlers, Spawn, Used, [Next]_vars,
           NEW c \in Copies, life[c] # "unused", Twins(c) # {}
    PROVE  Twins(c)' # {}
<1>1. PICK d \in Copies \ {c} : of[d] = of[c] BY DEF Twins
<1>2. life[d] # "unused" BY <1>1 DEF Used
<1>3. of'[c] = of[c] /\ of'[d] = of[d] BY <1>2, MadeStep
<1> QED BY <1>1, <1>3 DEF Twins

(* Losses. *)

\* A stream that has not begun, or whose send loop waits for its first message,
\* has lost nothing; one that is up has lost at most what was sent ahead of Register.
Losses ==
    /\ \A s \in Streams : lost[s] <= 2
    /\ \A s \in Streams : s > stream => lost[s] = 0
    /\ link = "new" => lost[stream] = 0
    /\ link \in {"up", "broken"} => lost[stream] <= 1
    /\ \A s \in stale : lost[s] = 0 /\ s <= stream
    /\ link # "off" => stream \notin stale

\* A stream's losses follow the state of its loops.
LEMMA LossesStep ==
    ASSUME TypeNetwork, Losses, [Next]_vars
    PROVE  Losses'
<1> USE DEF Losses, TypeNetwork, Streams, vars, network, handlers, copies, cgroups, drain
<1>1. CASE UNCHANGED vars BY <1>1 DEF vars
<1>2. CASE Open BY <1>2 DEF Open
<1>3. CASE Registered BY <1>3 DEF Registered
<1>4. CASE RegisterFails BY <1>4 DEF RegisterFails
<1>5. CASE Break BY <1>5 DEF Break
<1>6. CASE SendLoop
  <2>1. stream' = stream /\ stale' = stale BY <1>6 DEF SendLoop
  <2>2. CASE link = "up" /\ UNCHANGED network BY <2>2
  <2>3. CASE link = "new" /\ Lose(stream) /\ link' = "broken" BY <2>1, <2>3 DEF Lose
  <2>4. CASE link = "broken" /\ Lose(stream) /\ link' = "off" BY <2>1, <2>4 DEF Lose
  <2> QED BY <1>6, <2>2, <2>3, <2>4 DEF SendLoop
<1>7. CASE Chatter BY <1>7 DEF Chatter, Put
<1>8. CASE Exit BY <1>8 DEF Exit
<1>9. ASSUME NEW e \in Event, Deliver(e) PROVE Losses' BY <1>9 DEF Deliver
<1>10. ASSUME NEW s \in Streams, StaleSend(s) PROVE Losses'
  BY <1>10 DEF StaleSend, Take, Lose
<1>11. ASSUME NEW s \in Streams, ReceiveSpawn(s) PROVE Losses'
  BY <1>11 DEF ReceiveSpawn, Receive, Goto, Fresh
<1>12. ASSUME NEW s \in Streams, Refuse(s) PROVE Losses'
  BY <1>12 DEF Refuse, Put, Return, Goto
<1>13. ASSUME NEW s \in Streams, Start(s) PROVE Losses'
  BY <1>13 DEF Start, Return, Goto
<1>14. ASSUME NEW s \in Streams, CreateProcessSlice(s) PROVE Losses'
  BY <1>14 DEF CreateProcessSlice, Goto, SliceOf
<1>15. ASSUME NEW s \in Streams, Register(s) PROVE Losses'
  BY <1>15 DEF Register, Goto, SliceOf
<1>16. ASSUME NEW s \in Streams, Announce(s) PROVE Losses'
  BY <1>16 DEF Announce, Put, Return, Goto
<1>17. ASSUME NEW s \in Streams, HandleKill(s) PROVE Losses'
  BY <1>17 DEF HandleKill
<1>18. ASSUME NEW s \in Streams, ReceiveStdin(s) PROVE Losses'
  BY <1>18 DEF ReceiveStdin, Receive, Goto
<1>19. ASSUME NEW s \in Streams, AckStdin(s) PROVE Losses'
  BY <1>19 DEF AckStdin, Put, Return, Goto
<1>20. ASSUME NEW s \in Streams, ReceiveDrain(s) PROVE Losses'
  BY <1>20 DEF ReceiveDrain, Receive, Goto
<1>21. ASSUME NEW s \in Streams, SetDraining(s) PROVE Losses'
  BY <1>21 DEF SetDraining, Goto
<1>22. ASSUME NEW s \in Streams, KillRest(s) PROVE Losses'
  BY <1>22 DEF KillRest, Goto
<1>23. ASSUME NEW s \in Streams, Notify(s) PROVE Losses'
  BY <1>23 DEF Notify, Put, Return, Goto
<1>24. ASSUME NEW c \in Copies, Die(c) PROVE Losses'
  BY <1>24 DEF Die
<1>25. ASSUME NEW c \in Copies, Reap(c) PROVE Losses'
  BY <1>25 DEF Reap, Inside, SliceOf
<1>26. ASSUME NEW c \in Copies, ReportExit(c) PROVE Losses'
  BY <1>26 DEF ReportExit, Put
<1>27. ASSUME NEW c \in Copies, Forget(c) PROVE Losses'
  BY <1>27 DEF Forget
<1> QED BY <1>1, <1>2, <1>3, <1>4, <1>5, <1>6, <1>7, <1>8, <1>9, <1>10, <1>11, <1>12,
         <1>13, <1>14, <1>15, <1>16, <1>17, <1>18, <1>19, <1>20, <1>21, <1>22, <1>23,
         <1>24, <1>25, <1>26, <1>27
  DEF Next, Drain

(* Reaching processes. *)

\* A copy that runs is about to be registered, is in the table, or has a twin.
Held(c) ==
    \/ \E s \in Streams : cur[s] = c /\ pc[s] \in {"slice", "register"}
    \/ procs[of[c]] = c
    \/ Twins(c) # {}

Reach == \A c \in Copies : life[c] = "up" => Held(c)

\* No step loses one.
LEMMA ReachStep ==
    ASSUME Base, Reach, [Next]_vars
    PROVE  Reach'
<1> SUFFICES ASSUME NEW c \in Copies, life'[c] = "up" PROVE Held(c)'
  BY DEF Reach
<1>a. TypeCopies /\ TypeHandlers /\ Spawn /\ Used BY TypeParts DEF Base
<1>b. life[c] # "unused" => Held(c) /\ of'[c] = of[c] /\ (Twins(c) # {} => Twins(c)' # {})
  BY <1>a, MadeStep, TwinsStay DEF Reach, TypeCopies
<1>c. of[c] \in Procs \/ life[c] = "unused" BY <1>a DEF TypeCopies, Used
<1> USE DEF Held, TypeCopies, TypeHandlers, Spawn, SpawnOf, Spawning, Used, vars, network, handlers, copies, cgroups, drain
<1>1. CASE UNCHANGED vars BY <1>1, <1>a, <1>b DEF vars
<1>2. CASE Open BY <1>2, <1>a, <1>b DEF Open
<1>3. CASE Registered BY <1>3, <1>a, <1>b DEF Registered
<1>4. CASE RegisterFails BY <1>4, <1>a, <1>b DEF RegisterFails
<1>5. CASE Break BY <1>5, <1>a, <1>b DEF Break
<1>6. CASE SendLoop BY <1>6, <1>a, <1>b DEF SendLoop, Take, Lose
<1>7. CASE Chatter BY <1>7, <1>a, <1>b DEF Chatter, Put
<1>8. CASE Exit BY <1>8, <1>a, <1>b DEF Exit
<1>9. ASSUME NEW e \in Event, Deliver(e) PROVE Held(c)' BY <1>9, <1>a, <1>b DEF Deliver
<1>10. ASSUME NEW s \in Streams, StaleSend(s) PROVE Held(c)'
  BY <1>10, <1>a, <1>b DEF StaleSend, Take, Lose
<1>11. ASSUME NEW s \in Streams, ReceiveSpawn(s) PROVE Held(c)'
  BY <1>11, <1>a, <1>b DEF ReceiveSpawn, Receive, Goto, Fresh
<1>12. ASSUME NEW s \in Streams, Refuse(s) PROVE Held(c)'
  BY <1>12, <1>a, <1>b DEF Refuse, Put, Return, Goto
<1>13. ASSUME NEW s \in Streams, Start(s) PROVE Held(c)'
  <2>1. CASE c = cur[s] BY <1>13, <1>a, <2>1 DEF Start, Return, Goto
  <2>2. CASE c # cur[s]
    <3>1. life[c] = "up" BY <1>13, <1>a, <2>2 DEF Start
    <3>2. \A t \in Streams : cur[t] = c => cur'[t] = c /\ pc'[t] = pc[t]
      BY <1>13, <1>a, <2>2 DEF Start, Return, Goto
    <3> QED BY <1>13, <1>b, <3>1, <3>2 DEF Start
  <2> QED BY <2>1, <2>2
<1>14. ASSUME NEW s \in Streams, CreateProcessSlice(s) PROVE Held(c)'
  BY <1>14, <1>a, <1>b DEF CreateProcessSlice, Goto, SliceOf
<1>15. ASSUME NEW s \in Streams, Register(s) PROVE Held(c)'
  <2>1. life[c] = "up" /\ of[c] \in Procs /\ Held(c) BY <1>15, <1>a, <1>b DEF Register
  <2>2. procs' = [procs EXCEPT ![of[cur[s]]] = cur[s]] BY <1>15 DEF Register
  <2>3. cur' = cur /\ pc' = [pc EXCEPT ![s] = "announce"] BY <1>15 DEF Register, Goto
  <2>4. cur[s] \in Copies BY <1>15, <1>a DEF Register
  <2>5. ASSUME NEW t \in Streams, cur[t] = c, pc[t] \in {"slice", "register"} PROVE Held(c)'
    <3>1. CASE t = s BY <1>a, <1>b, <2>1, <2>2, <2>5, <3>1
    <3>2. CASE t # s BY <1>a, <2>3, <2>5, <3>2
    <3> QED BY <3>1, <3>2
  <2>6. CASE procs[of[c]] = c
    <3>1. CASE cur[s] = c BY <1>a, <1>b, <2>1, <2>2, <3>1
    <3>2. CASE cur[s] # c /\ of[cur[s]] = of[c]
      <4>1. cur[s] \in Twins(c) BY <2>4, <3>2 DEF Twins
      <4> QED BY <1>b, <2>1, <4>1
    <3>3. CASE of[cur[s]] # of[c] BY <1>a, <1>b, <2>1, <2>2, <2>6, <3>3
    <3> QED BY <3>1, <3>2, <3>3
  <2>7. CASE Twins(c) # {} BY <1>b, <2>1, <2>7
  <2> QED BY <2>1, <2>5, <2>6, <2>7
<1>16. ASSUME NEW s \in Streams, Announce(s) PROVE Held(c)'
  BY <1>16, <1>a, <1>b DEF Announce, Put, Return, Goto
<1>17. ASSUME NEW s \in Streams, HandleKill(s) PROVE Held(c)'
  BY <1>17, <1>a, <1>b DEF HandleKill
<1>18. ASSUME NEW s \in Streams, ReceiveStdin(s) PROVE Held(c)'
  BY <1>18, <1>a, <1>b DEF ReceiveStdin, Receive, Goto
<1>19. ASSUME NEW s \in Streams, AckStdin(s) PROVE Held(c)'
  BY <1>19, <1>a, <1>b DEF AckStdin, Put, Return, Goto
<1>20. ASSUME NEW s \in Streams, ReceiveDrain(s) PROVE Held(c)'
  BY <1>20, <1>a, <1>b DEF ReceiveDrain, Receive, Goto
<1>21. ASSUME NEW s \in Streams, SetDraining(s) PROVE Held(c)'
  BY <1>21, <1>a, <1>b DEF SetDraining, Goto
<1>22. ASSUME NEW s \in Streams, KillRest(s) PROVE Held(c)'
  BY <1>22, <1>a, <1>b DEF KillRest, Goto
<1>23. ASSUME NEW s \in Streams, Notify(s) PROVE Held(c)'
  BY <1>23, <1>a, <1>b DEF Notify, Put, Return, Goto
<1>24. ASSUME NEW d \in Copies, Die(d) PROVE Held(c)'
  BY <1>24, <1>a, <1>b DEF Die
<1>25. ASSUME NEW d \in Copies, Reap(d) PROVE Held(c)'
  BY <1>25, <1>a, <1>b DEF Reap, Inside, SliceOf
<1>26. ASSUME NEW d \in Copies, ReportExit(d) PROVE Held(c)'
  BY <1>26, <1>a, <1>b DEF ReportExit, Put
<1>27. ASSUME NEW d \in Copies, Forget(d) PROVE Held(c)'
  <2>1. life[c] = "up" /\ of[c] \in Procs /\ Held(c) BY <1>27, <1>a, <1>b DEF Forget
  <2>2. life[d] = "dead" BY <1>27, <1>a DEF Forget
  <2>3. CASE of[d] = of[c]
    <3>1. d \in Twins(c) BY <2>1, <2>2, <2>3 DEF Twins
    <3> QED BY <1>b, <2>1, <3>1
  <2>4. CASE of[d] # of[c] BY <1>27, <1>a, <1>b, <2>1, <2>4 DEF Forget
  <2> QED BY <2>3, <2>4
<1> QED BY <1>1, <1>2, <1>3, <1>4, <1>5, <1>6, <1>7, <1>8, <1>9, <1>10, <1>11, <1>12,
         <1>13, <1>14, <1>15, <1>16, <1>17, <1>18, <1>19, <1>20, <1>21, <1>22, <1>23,
         <1>24, <1>25, <1>26, <1>27
  DEF Next, Drain

(* Drain. *)

DrainFlags ==
    /\ exit # "no" => draining
    /\ \A s \in Streams : pc[s] \in {"kill", "notify"} => draining
    /\ draining => \A s \in Streams : pc[s] \in Spawning => cur[s] \in overtaken

\* A drain that is over or about to kill has set the flag, and no spawn passes after.
LEMMA FlagsStep ==
    ASSUME TypeHandlers, DrainFlags, [Next]_vars
    PROVE  DrainFlags'
<1> USE DEF DrainFlags, TypeHandlers, Spawning, vars, network, handlers, copies, cgroups, drain
<1>1. CASE UNCHANGED vars BY <1>1 DEF vars
<1>2. CASE Open BY <1>2 DEF Open
<1>3. CASE Registered BY <1>3 DEF Registered
<1>4. CASE RegisterFails BY <1>4 DEF RegisterFails
<1>5. CASE Break BY <1>5 DEF Break
<1>6. CASE SendLoop BY <1>6 DEF SendLoop, Take, Lose
<1>7. CASE Chatter BY <1>7 DEF Chatter, Put
<1>8. CASE Exit BY <1>8 DEF Exit
<1>9. ASSUME NEW e \in Event, Deliver(e) PROVE DrainFlags' BY <1>9 DEF Deliver
<1>10. ASSUME NEW s \in Streams, StaleSend(s) PROVE DrainFlags'
  BY <1>10 DEF StaleSend, Take, Lose
<1>11. ASSUME NEW s \in Streams, ReceiveSpawn(s) PROVE DrainFlags'
  BY <1>11 DEF ReceiveSpawn, Receive, Goto, Fresh
<1>12. ASSUME NEW s \in Streams, Refuse(s) PROVE DrainFlags'
  BY <1>12 DEF Refuse, Put, Return, Goto
<1>13. ASSUME NEW s \in Streams, Start(s) PROVE DrainFlags'
  BY <1>13 DEF Start, Return, Goto
<1>14. ASSUME NEW s \in Streams, CreateProcessSlice(s) PROVE DrainFlags'
  BY <1>14 DEF CreateProcessSlice, Goto, SliceOf
<1>15. ASSUME NEW s \in Streams, Register(s) PROVE DrainFlags'
  BY <1>15 DEF Register, Goto, SliceOf
<1>16. ASSUME NEW s \in Streams, Announce(s) PROVE DrainFlags'
  BY <1>16 DEF Announce, Put, Return, Goto
<1>17. ASSUME NEW s \in Streams, HandleKill(s) PROVE DrainFlags'
  BY <1>17 DEF HandleKill
<1>18. ASSUME NEW s \in Streams, ReceiveStdin(s) PROVE DrainFlags'
  BY <1>18 DEF ReceiveStdin, Receive, Goto
<1>19. ASSUME NEW s \in Streams, AckStdin(s) PROVE DrainFlags'
  BY <1>19 DEF AckStdin, Put, Return, Goto
<1>20. ASSUME NEW s \in Streams, ReceiveDrain(s) PROVE DrainFlags'
  BY <1>20 DEF ReceiveDrain, Receive, Goto
<1>21. ASSUME NEW s \in Streams, SetDraining(s) PROVE DrainFlags'
  BY <1>21 DEF SetDraining, Goto
<1>22. ASSUME NEW s \in Streams, KillRest(s) PROVE DrainFlags'
  BY <1>22 DEF KillRest, Goto
<1>23. ASSUME NEW s \in Streams, Notify(s) PROVE DrainFlags'
  BY <1>23 DEF Notify, Put, Return, Goto
<1>24. ASSUME NEW c \in Copies, Die(c) PROVE DrainFlags'
  BY <1>24 DEF Die
<1>25. ASSUME NEW c \in Copies, Reap(c) PROVE DrainFlags'
  BY <1>25 DEF Reap, Inside, SliceOf
<1>26. ASSUME NEW c \in Copies, ReportExit(c) PROVE DrainFlags'
  BY <1>26 DEF ReportExit, Put
<1>27. ASSUME NEW c \in Copies, Forget(c) PROVE DrainFlags'
  BY <1>27 DEF Forget
<1> QED BY <1>1, <1>2, <1>3, <1>4, <1>5, <1>6, <1>7, <1>8, <1>9, <1>10, <1>11, <1>12,
         <1>13, <1>14, <1>15, <1>16, <1>17, <1>18, <1>19, <1>20, <1>21, <1>22, <1>23,
         <1>24, <1>25, <1>26, <1>27
  DEF Next, Drain

\* Drain has looked at the table, and now waits to notify or is over.
Looked == exit # "no" \/ \E s \in Streams : pc[s] = "notify"

\* Only KillRest looks, and only Start makes copies.
LEMMA LookStep ==
    ASSUME TypeHandlers, TypeCopies, Listed, [Next]_vars
    PROVE  /\ killed \subseteq killed' /\ overtaken \subseteq overtaken'
           /\ Looked' => Looked \/ \E s \in Streams : KillRest(s)
           /\ \A c \in Copies : life[c] = "unused" /\ life'[c] # "unused" =>
                 \E s \in Streams : pc[s] = "start" /\ cur[s] = c
<1> DEFINE G == /\ killed \subseteq killed' /\ overtaken \subseteq overtaken'
                /\ Looked' => Looked \/ \E s \in Streams : KillRest(s)
                /\ \A c \in Copies : life[c] = "unused" /\ life'[c] # "unused" =>
                      \E s \in Streams : pc[s] = "start" /\ cur[s] = c
<1> USE DEF Looked, Listed, TypeHandlers, TypeCopies, vars, network, handlers, copies, cgroups, drain
<1>1. CASE UNCHANGED vars BY <1>1 DEF vars
<1>2. CASE Open BY <1>2 DEF Open
<1>3. CASE Registered BY <1>3 DEF Registered
<1>4. CASE RegisterFails BY <1>4 DEF RegisterFails
<1>5. CASE Break BY <1>5 DEF Break
<1>6. CASE SendLoop BY <1>6 DEF SendLoop, Take, Lose
<1>7. CASE Chatter BY <1>7 DEF Chatter, Put
<1>8. CASE Exit BY <1>8 DEF Exit
<1>9. ASSUME NEW e \in Event, Deliver(e) PROVE G BY <1>9 DEF Deliver
<1>10. ASSUME NEW s \in Streams, StaleSend(s) PROVE G
  BY <1>10 DEF StaleSend, Take, Lose
<1>11. ASSUME NEW s \in Streams, ReceiveSpawn(s) PROVE G
  BY <1>11 DEF ReceiveSpawn, Receive, Goto, Fresh
<1>12. ASSUME NEW s \in Streams, Refuse(s) PROVE G
  BY <1>12 DEF Refuse, Put, Return, Goto
<1>13. ASSUME NEW s \in Streams, Start(s) PROVE G
  BY <1>13 DEF Start, Return, Goto
<1>14. ASSUME NEW s \in Streams, CreateProcessSlice(s) PROVE G
  BY <1>14 DEF CreateProcessSlice, Goto, SliceOf
<1>15. ASSUME NEW s \in Streams, Register(s) PROVE G
  BY <1>15 DEF Register, Goto, SliceOf
<1>16. ASSUME NEW s \in Streams, Announce(s) PROVE G
  BY <1>16 DEF Announce, Put, Return, Goto
<1>17. ASSUME NEW s \in Streams, HandleKill(s) PROVE G
  <2>1. Head(inbox[s]).proc \in Procs BY <1>17, ReceiveTypes DEF HandleKill, Event
  <2> QED BY <1>17, <2>1 DEF HandleKill
<1>18. ASSUME NEW s \in Streams, ReceiveStdin(s) PROVE G
  BY <1>18 DEF ReceiveStdin, Receive, Goto
<1>19. ASSUME NEW s \in Streams, AckStdin(s) PROVE G
  BY <1>19 DEF AckStdin, Put, Return, Goto
<1>20. ASSUME NEW s \in Streams, ReceiveDrain(s) PROVE G
  BY <1>20 DEF ReceiveDrain, Receive, Goto
<1>21. ASSUME NEW s \in Streams, SetDraining(s) PROVE G
  BY <1>21 DEF SetDraining, Goto
<1>22. ASSUME NEW s \in Streams, KillRest(s) PROVE G
  BY <1>22 DEF KillRest, Goto
<1>23. ASSUME NEW s \in Streams, Notify(s) PROVE G
  BY <1>23 DEF Notify, Put, Return, Goto
<1>24. ASSUME NEW c \in Copies, Die(c) PROVE G
  BY <1>24 DEF Die
<1>25. ASSUME NEW c \in Copies, Reap(c) PROVE G
  BY <1>25 DEF Reap, Inside, SliceOf
<1>26. ASSUME NEW c \in Copies, ReportExit(c) PROVE G
  BY <1>26 DEF ReportExit, Put
<1>27. ASSUME NEW c \in Copies, Forget(c) PROVE G
  BY <1>27 DEF Forget
<1> QED BY <1>1, <1>2, <1>3, <1>4, <1>5, <1>6, <1>7, <1>8, <1>9, <1>10, <1>11, <1>12,
         <1>13, <1>14, <1>15, <1>16, <1>17, <1>18, <1>19, <1>20, <1>21, <1>22, <1>23,
         <1>24, <1>25, <1>26, <1>27
  DEF Next, Drain

Drained == Looked =>
    \A c \in Copies : life[c] = "up" => c \in killed \cup overtaken \/ Twins(c) # {}

\* What a drain did not find in the table overtook it or has a twin.
LEMMA DrainedStep ==
    ASSUME Base, Reach, DrainFlags, Drained, [Next]_vars
    PROVE  Drained'
<1>1. TypeCopies /\ TypeHandlers /\ Spawn /\ Used /\ Listed BY TypeParts DEF Base
<1> SUFFICES ASSUME Looked', NEW c \in Copies, life'[c] = "up"
             PROVE  c \in killed' \cup overtaken' \/ Twins(c)' # {}
  BY DEF Drained
<1>2. killed \subseteq killed' /\ overtaken \subseteq overtaken' BY <1>1, LookStep
<1>3. Looked \/ \E s \in Streams : KillRest(s) BY <1>1, LookStep
<1>4. draining BY <1>3 DEF Looked, DrainFlags, KillRest
<1>5. CASE life[c] = "unused"
  <2>1. PICK s \in Streams : pc[s] = "start" /\ cur[s] = c BY <1>1, <1>5, LookStep
  <2>2. c \in overtaken BY <1>4, <2>1 DEF DrainFlags, Spawning
  <2> QED BY <1>2, <2>2
<1>6. CASE life[c] # "unused"
  <2>1. life[c] = "up" BY <1>1, <1>6, MadeStep
  <2>2. Twins(c) # {} => Twins(c)' # {} BY <1>1, <1>6, TwinsStay
  <2>3. CASE Looked BY <1>2, <2>1, <2>2, <2>3 DEF Drained
  <2>4. ASSUME NEW s \in Streams, KillRest(s)
        PROVE  c \in killed' \cup overtaken' \/ Twins(c)' # {}
    <3>1. Held(c) BY <2>1 DEF Reach
    <3>2. ASSUME NEW t \in Streams, cur[t] = c, pc[t] \in {"slice", "register"}
          PROVE  c \in overtaken
      BY <1>4, <3>2 DEF DrainFlags, Spawning
    <3>3. CASE procs[of[c]] = c
      <4>1. of[c] \in Procs BY <1>1, <1>6 DEF Used, TypeCopies
      <4>2. c # NoCopy BY DEF Copies, NoCopy
      <4>3. c \in killed' BY <2>4, <3>3, <4>1, <4>2 DEF KillRest
      <4> QED BY <4>3
    <3> QED BY <1>2, <2>2, <3>1, <3>2, <3>3 DEF Held
  <2> QED BY <1>3, <2>3, <2>4
<1> QED BY <1>5, <1>6

(* Slices. *)

\* A copy that a slice waits for.
Owner(c, sl) == SliceOf(c) = sl /\ (c \in brood \/ waiter[c] \in {"none", "wait"})

\* The other actions neither make nor remove slices.
LEMMA OwnersStep ==
    ASSUME TypeHandlers, TypeCopies, [Next]_vars
    PROVE  \/ \E s \in Streams : CreateProcessSlice(s)
           \/ \E c \in Copies : Reap(c)
           \/ /\ UNCHANGED <<slices, brood>>
              /\ \A c \in Copies : waiter[c] \in {"none", "wait"} => waiter'[c] \in {"none", "wait"}
<1> DEFINE G == \/ \E s \in Streams : CreateProcessSlice(s)
                \/ \E c \in Copies : Reap(c)
                \/ /\ UNCHANGED <<slices, brood>>
                   /\ \A c \in Copies :
                         waiter[c] \in {"none", "wait"} => waiter'[c] \in {"none", "wait"}
<1> USE DEF TypeHandlers, TypeCopies, vars, network, handlers, copies, cgroups, drain
<1>1. CASE UNCHANGED vars BY <1>1 DEF vars
<1>2. CASE Open BY <1>2 DEF Open
<1>3. CASE Registered BY <1>3 DEF Registered
<1>4. CASE RegisterFails BY <1>4 DEF RegisterFails
<1>5. CASE Break BY <1>5 DEF Break
<1>6. CASE SendLoop BY <1>6 DEF SendLoop, Take, Lose
<1>7. CASE Chatter BY <1>7 DEF Chatter, Put
<1>8. CASE Exit BY <1>8 DEF Exit
<1>9. ASSUME NEW e \in Event, Deliver(e) PROVE G BY <1>9 DEF Deliver
<1>10. ASSUME NEW s \in Streams, StaleSend(s) PROVE G
  BY <1>10 DEF StaleSend, Take, Lose
<1>11. ASSUME NEW s \in Streams, ReceiveSpawn(s) PROVE G
  BY <1>11 DEF ReceiveSpawn, Receive, Goto, Fresh
<1>12. ASSUME NEW s \in Streams, Refuse(s) PROVE G
  BY <1>12 DEF Refuse, Put, Return, Goto
<1>13. ASSUME NEW s \in Streams, Start(s) PROVE G
  BY <1>13 DEF Start, Return, Goto
<1>14. ASSUME NEW s \in Streams, CreateProcessSlice(s) PROVE G
  BY <1>14
<1>15. ASSUME NEW s \in Streams, Register(s) PROVE G
  BY <1>15 DEF Register, Goto, SliceOf
<1>16. ASSUME NEW s \in Streams, Announce(s) PROVE G
  BY <1>16 DEF Announce, Put, Return, Goto
<1>17. ASSUME NEW s \in Streams, HandleKill(s) PROVE G
  BY <1>17 DEF HandleKill
<1>18. ASSUME NEW s \in Streams, ReceiveStdin(s) PROVE G
  BY <1>18 DEF ReceiveStdin, Receive, Goto
<1>19. ASSUME NEW s \in Streams, AckStdin(s) PROVE G
  BY <1>19 DEF AckStdin, Put, Return, Goto
<1>20. ASSUME NEW s \in Streams, ReceiveDrain(s) PROVE G
  BY <1>20 DEF ReceiveDrain, Receive, Goto
<1>21. ASSUME NEW s \in Streams, SetDraining(s) PROVE G
  BY <1>21 DEF SetDraining, Goto
<1>22. ASSUME NEW s \in Streams, KillRest(s) PROVE G
  BY <1>22 DEF KillRest, Goto
<1>23. ASSUME NEW s \in Streams, Notify(s) PROVE G
  BY <1>23 DEF Notify, Put, Return, Goto
<1>24. ASSUME NEW c \in Copies, Die(c) PROVE G
  BY <1>24 DEF Die
<1>25. ASSUME NEW c \in Copies, Reap(c) PROVE G
  BY <1>25
<1>26. ASSUME NEW c \in Copies, ReportExit(c) PROVE G
  BY <1>26 DEF ReportExit, Put
<1>27. ASSUME NEW c \in Copies, Forget(c) PROVE G
  BY <1>27 DEF Forget
<1> QED BY <1>1, <1>2, <1>3, <1>4, <1>5, <1>6, <1>7, <1>8, <1>9, <1>10, <1>11, <1>12,
         <1>13, <1>14, <1>15, <1>16, <1>17, <1>18, <1>19, <1>20, <1>21, <1>22, <1>23,
         <1>24, <1>25, <1>26, <1>27
  DEF Next, Drain

\* A slice that stays keeps an owner, and a new one has one.
LEMMA SlicesStep ==
    ASSUME Base, SliceFreed, [Next]_vars
    PROVE  SliceFreed'
<1>1. TypeCopies /\ TypeHandlers /\ TypeSets /\ Spawn /\ Used BY TypeParts DEF Base
<1> SUFFICES ASSUME NEW sl \in slices' PROVE \E c \in Copies : Owner(c, sl)'
  BY DEF SliceFreed, Owner
<1>2. sl \in slices => \E c \in Copies : Owner(c, sl) /\ life[c] # "unused"
  <2>1. SUFFICES ASSUME sl \in slices, NEW c \in Copies, Owner(c, sl) PROVE life[c] # "unused"
    BY DEF SliceFreed, Owner
  <2>2. of[c] \in Procs BY <1>1, <2>1 DEF Owner, SliceOf, TypeSets
  <2> QED BY <1>1, <2>2 DEF Used
<1>3. \A c \in Copies : life[c] # "unused" => SliceOf(c)' = SliceOf(c)
  BY <1>1, MadeStep DEF SliceOf
<1>4. ASSUME NEW s \in Streams, CreateProcessSlice(s) PROVE \E c \in Copies : Owner(c, sl)'
  <2>1. cur[s] \in Copies /\ waiter[cur[s]] = "none" /\ life[cur[s]] # "unused"
    BY <1>1, <1>4 DEF CreateProcessSlice, Spawn, SpawnOf, Spawning
  <2>2. UNCHANGED <<waiter, brood>> BY <1>4 DEF CreateProcessSlice, copies
  <2>3. CASE sl = SliceOf(cur[s]) BY <1>3, <2>1, <2>2, <2>3 DEF Owner
  <2>4. CASE sl \in slices BY <1>2, <1>3, <2>2, <2>4 DEF Owner
  <2> QED BY <1>4, <2>3, <2>4 DEF CreateProcessSlice
<1>5. ASSUME NEW d \in Copies, Reap(d) PROVE \E c \in Copies : Owner(c, sl)'
  <2>1. sl \in slices /\ brood \subseteq brood' BY <1>5 DEF Reap
  <2>2. PICK c \in Copies : Owner(c, sl) /\ life[c] # "unused" BY <1>2, <2>1
  <2>3. CASE c # d
    <3>1. waiter'[c] = waiter[c] BY <1>1, <1>5, <2>3 DEF Reap, TypeCopies
    <3> QED BY <1>3, <2>1, <2>2, <3>1 DEF Owner
  <2>4. CASE c = d
    <3>1. SliceOf(d) = sl BY <2>2, <2>4 DEF Owner
    <3>2. Inside(SliceOf(d)) # {} \/ d \in brood' BY <1>5, <3>1 DEF Reap
    <3>3. CASE d \in brood' BY <1>3, <2>2, <2>4, <3>3 DEF Owner
    <3>4. ASSUME NEW b \in Inside(SliceOf(d)) PROVE Owner(b, sl)' /\ b \in Copies
      <4>1. b \in Copies /\ SliceOf(b) = sl /\ life[b] = "up"
        BY <1>1, <3>1, <3>4 DEF Inside, TypeSets
      <4>2. waiter[b] \in {"none", "wait"} BY <1>1, <4>1 DEF Used, TypeCopies, Waiting
      <4>3. b # d BY <1>5, <4>1 DEF Reap
      <4>4. waiter'[b] = waiter[b] BY <1>1, <1>5, <4>1, <4>3 DEF Reap, TypeCopies
      <4> QED BY <1>3, <4>1, <4>2, <4>4 DEF Owner
    <3> QED BY <3>2, <3>3, <3>4
  <2> QED BY <2>3, <2>4
<1>6. CASE /\ UNCHANGED <<slices, brood>>
           /\ \A c \in Copies : waiter[c] \in {"none", "wait"} => waiter'[c] \in {"none", "wait"}
  BY <1>2, <1>3, <1>6 DEF Owner
<1> QED BY <1>1, <1>4, <1>5, <1>6, OwnersStep

(* The theorems. *)

Inv == Base /\ Losses /\ Reach /\ DrainFlags /\ Drained /\ SliceFreed

LEMMA InitInv == Init => Inv
<1> SUFFICES ASSUME Init PROVE Inv OBVIOUS
<1> USE DEF Init
<1>1. TypeNetwork BY DEF TypeNetwork, Streams
<1>2. TypeHandlers
  <2>1. <<>> \in Seq(Event) OBVIOUS
  <2> QED BY <2>1 DEF TypeHandlers, Label, Spawning, Draining
<1>3. TypeCopies /\ TypeSets
  <2>1. /\ [p \in Procs |-> NoCopy] \in [Procs -> Copies \cup {NoCopy}]
        /\ [c \in Copies |-> None] \in [Copies -> Procs \cup {None}]
        /\ [c \in Copies |-> "unused"] \in [Copies -> {"unused", "up", "dead"}]
        /\ [c \in Copies |-> "none"] \in [Copies -> Waiting]
        /\ [c \in Copies |-> 0] \in [Copies -> 0..MaxStreams]
    BY DEF Waiting
  <2>2. TypeCopies BY <2>1 DEF TypeCopies
  <2>3. TypeSets BY DEF TypeSets
  <2> QED BY <2>2, <2>3
<1>4. Used /\ Listed /\ Spawn /\ Single
  BY DEF Used, Listed, Spawn, SpawnOf, Single, Spawning
<1>5. Losses BY DEF Losses
<1>6. Reach /\ DrainFlags /\ Drained /\ SliceFreed
  BY DEF Reach, DrainFlags, Drained, Looked, SliceFreed, Spawning
<1> QED BY <1>1, <1>2, <1>3, <1>4, <1>5, <1>6, TypeParts DEF Inv, Base

LEMMA StepInv == Inv /\ [Next]_vars => Inv'
<1> SUFFICES ASSUME Inv, [Next]_vars PROVE Inv' OBVIOUS
<1>1. /\ TypeNetwork /\ TypeHandlers /\ TypeCopies /\ TypeSets
      /\ Used /\ Listed /\ Spawn /\ Single
  BY TypeParts DEF Inv, Base
<1>2. TypeNetwork' /\ TypeHandlers' BY <1>1, NetworkStep, HandlersStep
<1>3. TypeCopies' /\ TypeSets' BY <1>1, CopiesStep, SetsStep
<1>4. TypeOK'
  BY <1>2, <1>3 DEF TypeOK, TypeNetwork, TypeHandlers, TypeCopies, TypeSets
<1>5. Used' /\ Listed' BY <1>1, UsedStep, ListedStep
<1>6. Spawn' /\ Single' BY <1>1, SpawnStep, SingleStep
<1>7. Losses' BY <1>1, LossesStep DEF Inv
<1>8. Reach' BY ReachStep DEF Inv
<1>9. DrainFlags' BY <1>1, FlagsStep DEF Inv
<1>10. Drained' BY DrainedStep DEF Inv
<1>11. SliceFreed' BY SlicesStep DEF Inv
<1> QED BY <1>4, <1>5, <1>6, <1>7, <1>8, <1>9, <1>10, <1>11 DEF Inv, Base

THEOREM Invariance == Spec => []Inv
BY InitInv, StepInv, PTL DEF Spec

\* Every variable keeps its type.
THEOREM TypeCorrect == Spec => []TypeOK
<1>1. Inv => TypeOK BY DEF Inv, Base
<1> QED BY <1>1, Invariance, PTL

\* A process that runs and was reported as started is in the table that kill,
\* stdin and drain look it up in, or another was started under its id.
THEOREM RunningIsReachable == Spec => []Reachable
<1>1. Inv => Reachable
  <2> SUFFICES ASSUME Inv, NEW c \in Copies, life[c] = "up", waiter[c] = "wait"
               PROVE  procs[of[c]] = c \/ Twins(c) # {}
    BY DEF Reachable
  <2>1. Held(c) BY DEF Inv, Reach
  <2>2. ~\E s \in Streams : cur[s] = c /\ pc[s] \in {"slice", "register"}
    BY DEF Inv, Base, Spawn, SpawnOf, Spawning
  <2> QED BY <2>1, <2>2 DEF Held
<1> QED BY <1>1, Invariance, PTL

\* What outlives a drain was sent SIGKILL, overtook the drain, or has a twin.
THEOREM DrainKillsAll == Spec => []DrainLeavesNothing
<1>1. Inv => DrainLeavesNothing BY DEF Inv, Drained, Looked, DrainLeavesNothing
<1> QED BY <1>1, Invariance, PTL

\* No stream takes more than two of the agent's messages with it.
THEOREM FewLosses == Spec => []TwoLossesPerStream
<1>1. Inv => TwoLossesPerStream BY DEF Inv, Losses, TwoLossesPerStream
<1> QED BY <1>1, Invariance, PTL

\* A slice that is left has a process, or a child of one, that keeps it.
THEOREM SlicesAreFreed == Spec => []SliceFreed
<1>1. Inv => SliceFreed BY DEF Inv
<1> QED BY <1>1, Invariance, PTL
=============================================================================
