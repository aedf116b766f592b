------------------------- MODULE ProcessEntryProofs -------------------------
(***************************************************************************)
(* Proofs, for any number of sessions, hosts, Migrate and Wait RPCs and    *)
(* any restart and retry limits, of the safety properties of ProcessEntry. *)
(***************************************************************************)
EXTENDS ProcessEntry, FiniteSetTheorems, TLAPS

\* Every stream, recovery, Migrate and ack timer has one goroutine: the first
\* disconnect of a session starts its only recovery, a respawn starts a timer
\* at most once, and only a respawn makes an entry RESTARTING.
Finished(g) ==
    \/ pc[g] \in {"sweep", "done"}
    \/ /\ pc[g] \in Updating
       /\ call[g].state = "STOPPED"
       /\ call[g].result = "noLord"

OneRecovery == \A s \in Sessions : pc[Recovery(s)] # "off" => pc[Recv(s)] = "done"
OneTimer == \A g \in Respawners : pc[TimerOf(g)] # "off" => Finished(g)
RestartCallers ==
    \A g \in Goroutines : call[g].state = "RESTARTING" => g \in Respawners
OneShot == OneRecovery /\ OneTimer /\ RestartCallers

Inv == TypeOK /\ OneShot /\ FinalIsClosing /\ RestartingGuarded /\ RestartBudget

-----------------------------------------------------------------------------
(* Goroutine names. *)

\* Goroutines of different kinds have different names, and a respawn's timer
\* belongs to no other respawn.
LEMMA Names ==
    /\ Spawner \in Goroutines
    /\ \A s \in Sessions : Recv(s) \in Receivers /\ Recovery(s) \in Recoveries
    /\ \A m \in Migrators : Migrate(m) \in Migrations
    /\ \A w \in Waiters : Wait(w) \in WaitCalls
    /\ \A g \in Respawners : TimerOf(g) \in Timers
    /\ \A g, h \in Respawners : TimerOf(g) = TimerOf(h) => g = h
    /\ \A r, s \in Sessions : Recovery(r) = Recovery(s) => r = s
    /\ \A r, s \in Sessions : Recv(r) = Recv(s) => r = s
  BY DEF Spawner, Goroutines, Recv, Recovery, Migrate, Wait, TimerOf, Receivers,
         Recoveries, Migrations, Respawners, Timers, WaitCalls

\* No goroutine has two roles.
LEMMA Roles ==
    /\ Receivers \cap Respawners = {}
    /\ Receivers \cap Timers = {}
    /\ Respawners \cap Timers = {}
    /\ WaitCalls \cap (Receivers \cup Respawners \cup Timers) = {}
    /\ Recoveries \cap Migrations = {}
    /\ Spawner \notin Receivers \cup Respawners \cup Timers \cup WaitCalls
  BY DEF Spawner, Receivers, Recoveries, Migrations, Respawners, Timers, WaitCalls

-----------------------------------------------------------------------------
(* Types. *)

LEMMA InitType == Init => TypeOK
<1> SUFFICES ASSUME Init PROVE TypeOK OBVIOUS
<1>1. NoCall \in Call BY DEF NoCall, Call, State, Lord, Result
<1>2. pc \in [Goroutines -> Label] BY DEF Init, Label
<1>3. lordId \in Lord /\ target \in [Respawners -> Lord]
  BY EntryAssumption DEF Init, Create, Lord
<1>4. call \in [Goroutines -> Call] BY <1>1 DEF Init
<1> QED BY <1>2, <1>3, <1>4 DEF Init, Create, TypeOK, State

LEMMA UpdateType == ASSUME TypeOK, NEW g \in Goroutines, Update(g) PROVE TypeOK'
<1> USE DEF TypeOK, Call, Label, Updating, info, locals, copies, Goto, At
<1>1. CASE SetState(g)
  BY <1>1 DEF SetState, Return, AfterState, NoCall, Lord, State, Result
<1>2. CASE TestExited(g) BY <1>2 DEF TestExited
<1>3. CASE CloseExited(g) BY <1>3 DEF CloseExited
<1>4. CASE UpdateResult(g)
  BY <1>4 DEF UpdateResult, Return, AfterResult, NoCall, Lord, State, Result
<1> QED BY <1>1, <1>2, <1>3, <1>4 DEF Update

\* UpdateState and UpdateResult are invoked with a state, a lord and a result.
LEMMA InvokeType ==
    ASSUME TypeOK, NEW g, NEW st \in State, NEW r \in Result, Invoke(g, st, NoLord, r)
    PROVE  call' \in [Goroutines -> Call] /\ pc' \in [Goroutines -> Label]
  BY DEF TypeOK, Invoke, Goto, Call, Lord, Label, Updating

LEMMA StreamType ==
    ASSUME TypeOK, NEW s \in Sessions,
           \/ Connect(s) \/ RecvStarted(s) \/ Disconnect(s) \/ OnLordDisconnect(s)
           \/ \E r \in LordResult : RecvExit(s, r)
    PROVE  TypeOK'
<1> USE EntryAssumption DEF info, locals, copies
<1>1. Host[s] \in Hosts OBVIOUS
<1>2. CASE Connect(s)
  BY <1>2 DEF Connect, TypeOK, Goto, Label, Lord
<1>3. CASE RecvStarted(s)
  <2>1. call' \in [Goroutines -> Call] /\ pc' \in [Goroutines -> Label]
    BY <1>3 DEF RecvStarted, TypeOK, Invoke, Goto, Call, Lord, State, Result, Label, Updating
  <2>2. pending' \in [Hosts -> Nat] /\ live' \in [Hosts -> Nat]
    BY <1>1, <1>3 DEF RecvStarted, TypeOK
  <2> QED BY <1>3, <2>1, <2>2 DEF RecvStarted, TypeOK
<1>4. CASE Disconnect(s) BY <1>4 DEF Disconnect, TypeOK, Goto, Label
<1>5. CASE OnLordDisconnect(s) BY <1>5 DEF OnLordDisconnect, TypeOK, Label
<1>6. ASSUME NEW r \in LordResult, RecvExit(s, r) PROVE TypeOK'
  <2>1. call' \in [Goroutines -> Call] /\ pc' \in [Goroutines -> Label]
    BY <1>6, InvokeType DEF RecvExit, State, Result
  <2>2. pending' \in [Hosts -> Nat] /\ live' \in [Hosts -> Nat]
    BY <1>1, <1>6 DEF RecvExit, TypeOK
  <2> QED BY <1>6, <2>1, <2>2 DEF RecvExit, TypeOK
<1> QED BY <1>2, <1>3, <1>4, <1>5, <1>6

LEMMA RecoverType ==
    ASSUME TypeOK, NEW s \in Sessions,
           \/ RecoverList(s) \/ RecoverPick(s) \/ RecoverExhausted(s) \/ RecoverSweep(s)
    PROVE  TypeOK'
<1> USE DEF info, locals, copies
<1>1. CASE RecoverList(s) BY <1>1 DEF RecoverList, TypeOK, Goto, Label
<1>2. CASE RecoverPick(s) BY <1>2 DEF RecoverPick, TypeOK, Goto, Label, Lord
<1>3. CASE RecoverExhausted(s) BY <1>3 DEF RecoverExhausted, TypeOK, Goto, Label
<1>4. CASE RecoverSweep(s)
  <2>1. call' \in [Goroutines -> Call] /\ pc' \in [Goroutines -> Label]
    BY <1>4, InvokeType DEF RecoverSweep, State, Result, TypeOK, Goto, Label
  <2> QED BY <1>4, <2>1 DEF RecoverSweep, TypeOK
<1> QED BY <1>1, <1>2, <1>3, <1>4

LEMMA RespawnType ==
    ASSUME TypeOK, NEW g \in Respawners, Respawn(g) PROVE TypeOK'
<1> USE DEF info, locals, copies
<1>1. CASE RespawnRecheck(g)
  BY <1>1 DEF RespawnRecheck, AfterRespawn, TypeOK, Goto, Label
<1>2. CASE RespawnLimit(g)
  <2>1. call' \in [Goroutines -> Call] /\ pc' \in [Goroutines -> Label]
    BY <1>2, InvokeType DEF RespawnLimit, State, Result
  <2> QED BY <1>2, <2>1 DEF RespawnLimit, TypeOK
<1>3. CASE RespawnAssign(g)
  <2>1. lordId' \in Lord /\ restartCount' \in Nat BY <1>3 DEF RespawnAssign, TypeOK
  <2>2. pc' \in [Goroutines -> Label] BY <1>3 DEF RespawnAssign, TypeOK, Goto, Label
  <2> QED BY <1>3, <2>1, <2>2 DEF RespawnAssign, TypeOK
<1>4. CASE RespawnSend(g)
  <2>1. call' \in [Goroutines -> Call] /\ pc' \in [Goroutines -> Label]
    BY <1>4, InvokeType DEF RespawnSend, State, Result, TypeOK, AfterRespawn, Label
  <2>2. pending' \in [Hosts -> Nat] BY <1>4 DEF RespawnSend, TypeOK
  <2> QED BY <1>4, <2>1, <2>2 DEF RespawnSend, TypeOK
<1> QED BY <1>1, <1>2, <1>3, <1>4 DEF Respawn

LEMMA OtherType ==
    ASSUME TypeOK,
           \/ SpawnSend
           \/ \E g \in Timers : AckTimeout(g)
           \/ \E w \in Waiters : WaitReturn(w)
           \/ \E h \in Hosts : LoseSpawn(h)
           \/ \E m \in Migrators, t \in Sessions : MigrateBegin(m, t)
    PROVE  TypeOK'
<1> USE DEF info, locals, copies
<1>1. CASE SpawnSend
  <2>1. call' \in [Goroutines -> Call] /\ pc' \in [Goroutines -> Label]
    BY <1>1, InvokeType DEF SpawnSend, State, Result, TypeOK, Goto, Label
  <2>2. pending' \in [Hosts -> Nat] BY <1>1 DEF SpawnSend, TypeOK
  <2> QED BY <1>1, <2>1, <2>2 DEF SpawnSend, TypeOK
<1>2. ASSUME NEW g \in Timers, AckTimeout(g) PROVE TypeOK'
  <2>1. call' \in [Goroutines -> Call] /\ pc' \in [Goroutines -> Label]
    BY <1>2, InvokeType DEF AckTimeout, State, Result, TypeOK, Goto, Label
  <2> QED BY <1>2, <2>1 DEF AckTimeout, TypeOK
<1>3. ASSUME NEW w \in Waiters, WaitReturn(w) PROVE TypeOK'
  BY <1>3 DEF WaitReturn, TypeOK, Goto, Label
<1>4. ASSUME NEW h \in Hosts, LoseSpawn(h) PROVE TypeOK'
  BY <1>4 DEF LoseSpawn, TypeOK
<1>5. ASSUME NEW m \in Migrators, NEW t \in Sessions, MigrateBegin(m, t) PROVE TypeOK'
  BY <1>5 DEF MigrateBegin, TypeOK, Goto, Label, Lord
<1> QED BY <1>1, <1>2, <1>3, <1>4, <1>5

LEMMA NextType == TypeOK /\ [Next]_vars => TypeOK'
<1> SUFFICES ASSUME TypeOK, [Next]_vars PROVE TypeOK' OBVIOUS
<1>1. CASE Program
  BY <1>1, UpdateType, StreamType, RecoverType, RespawnType, OtherType DEF Program
<1>2. CASE Environment BY <1>2, StreamType, OtherType DEF Environment
<1>3. CASE UNCHANGED vars
  BY <1>3 DEF vars, info, locals, copies, TypeOK
<1> QED BY <1>1, <1>2, <1>3 DEF Next

-----------------------------------------------------------------------------
(* One goroutine per role. *)

\* A goroutine that is neither a receive loop nor a respawn nor a timer moves
\* without touching what OneShot is about.
LEMMA RolesOfGoroutines ==
    /\ Goroutines = {Spawner} \cup Receivers \cup Respawners \cup Timers \cup WaitCalls
    /\ Respawners = Recoveries \cup Migrations
    /\ \A g \in Receivers : \E s \in Sessions : g = Recv(s)
    /\ \A g \in Recoveries : \E s \in Sessions : g = Recovery(s)
    /\ \A g \in Migrations : \E m \in Migrators : g = Migrate(m)
  BY DEF Goroutines, Respawners, Receivers, Recoveries, Migrations, Recv, Recovery, Migrate

LEMMA InitOneShot == Init => OneShot
<1> SUFFICES ASSUME Init PROVE OneShot OBVIOUS
<1> USE Names, Roles, RolesOfGoroutines, EntryAssumption
<1>1. OneRecovery BY DEF Init, OneRecovery
<1>2. OneTimer BY DEF Init, OneTimer
<1>3. RestartCallers BY DEF Init, RestartCallers, NoCall
<1> QED BY <1>1, <1>2, <1>3 DEF OneShot

LEMMA UpdateOneShot ==
    ASSUME TypeOK, OneShot, NEW g \in Goroutines, Update(g) PROVE OneShot'
<1> USE Names, Roles, RolesOfGoroutines DEF OneShot, Update, At, Updating
<1>1. pc \in [Goroutines -> Label] /\ call \in [Goroutines -> Call] BY DEF TypeOK
<1>2. /\ pc[g] \in Updating
      /\ \E l \in Label \ {"off"} : pc' = [pc EXCEPT ![g] = l]
      /\ call' = call \/ call' = [call EXCEPT ![g] = NoCall]
  BY DEF SetState, TestExited, CloseExited, UpdateResult, Goto, Return, AfterState,
         AfterResult, Label, locals
<1>3. OneRecovery' BY <1>1, <1>2 DEF OneRecovery
<1>4. RestartCallers' BY <1>1, <1>2 DEF RestartCallers, NoCall
<1>5. ASSUME NEW h \in Respawners, pc'[TimerOf(h)] # "off" PROVE Finished(h)'
  <2>1. Finished(h) BY <1>1, <1>2, <1>5 DEF OneTimer
  <2>2. CASE g # h BY <1>1, <1>2, <2>1, <2>2 DEF Finished
  <2>3. CASE g = h
    <3>1. call[g].state = "STOPPED" /\ call[g].result = "noLord"
      BY <1>2, <2>1, <2>3 DEF Finished
    <3>2. CASE SetState(g) BY <1>1, <2>3, <3>1, <3>2 DEF SetState, Goto, Final, Finished
    <3>3. CASE TestExited(g)
      BY <1>1, <2>3, <3>1, <3>3 DEF TestExited, Goto, Finished, locals
    <3>4. CASE CloseExited(g)
      BY <1>1, <2>3, <3>1, <3>4 DEF CloseExited, Goto, Finished, locals
    <3>5. CASE UpdateResult(g)
      BY <1>1, <2>3, <3>1, <3>5 DEF UpdateResult, Return, Goto, AfterResult, Finished
    <3> QED BY <3>2, <3>3, <3>4, <3>5
  <2> QED BY <2>2, <2>3
<1> QED BY <1>3, <1>4, <1>5 DEF OneTimer

\* Only goroutine g moves.
OnlyMoves(g) == \A h \in Goroutines \ {g} : pc'[h] = pc[h] /\ call'[h] = call[h]

\* A step of one goroutine that is no timer keeps OneTimer: a respawn that is
\* not Finished has no timer yet.
LEMMA OneTimerFrame ==
    ASSUME OneTimer, NEW g \in Goroutines \ Timers, OnlyMoves(g),
           g \in Respawners => ~Finished(g) \/ Finished(g)'
    PROVE  OneTimer'
  BY Names, Roles, RolesOfGoroutines DEF OneTimer, Finished, OnlyMoves

LEMMA StreamOneShot ==
    ASSUME TypeOK, OneShot, NEW s \in Sessions,
           \/ Connect(s) \/ RecvStarted(s) \/ Disconnect(s)
           \/ \E r \in LordResult : RecvExit(s, r)
    PROVE  OneShot'
<1> USE Names, Roles, RolesOfGoroutines DEF OneShot
<1> DEFINE g == Recv(s)
<1>1. pc \in [Goroutines -> Label] /\ call \in [Goroutines -> Call] BY DEF TypeOK
<1>2. /\ pc[g] \in {"off", "idle"}
      /\ OnlyMoves(g)
      /\ call'[g] = call[g] \/ call'[g].state # "RESTARTING"
  BY <1>1 DEF Connect, RecvStarted, Disconnect, RecvExit, At, Goto, Invoke, locals, OnlyMoves
<1>3. OneRecovery' BY <1>2 DEF OneRecovery, OnlyMoves
<1>4. RestartCallers' BY <1>2 DEF RestartCallers, OnlyMoves
<1>5. OneTimer' BY <1>2, OneTimerFrame
<1> QED BY <1>3, <1>4, <1>5

LEMMA DisconnectOneShot ==
    ASSUME TypeOK, OneShot, NEW s \in Sessions, OnLordDisconnect(s)
    PROVE  OneShot'
<1> USE Names, Roles, RolesOfGoroutines DEF OneShot
<1>1. pc \in [Goroutines -> Label] /\ call \in [Goroutines -> Call] BY DEF TypeOK
<1>2. /\ pc[Recovery(s)] = "off"
      /\ pc' = [pc EXCEPT ![Recv(s)] = "done", ![Recovery(s)] = "list"]
      /\ call' = call
  BY DEF OnLordDisconnect, At, OneRecovery, locals
<1>3. OneRecovery' BY <1>1, <1>2 DEF OneRecovery
<1>4. RestartCallers' BY <1>2 DEF RestartCallers
<1>5. ~Finished(Recovery(s)) BY <1>2 DEF Finished, Updating
<1>6. OneTimer' BY <1>1, <1>2, <1>5 DEF OneTimer, Finished
<1> QED BY <1>3, <1>4, <1>6

LEMMA RecoverOneShot ==
    ASSUME TypeOK, OneShot, NEW s \in Sessions,
           \/ RecoverList(s) \/ RecoverPick(s) \/ RecoverExhausted(s) \/ RecoverSweep(s)
    PROVE  OneShot'
<1> USE Names, Roles, RolesOfGoroutines DEF OneShot
<1> DEFINE g == Recovery(s)
<1>1. pc \in [Goroutines -> Label] /\ call \in [Goroutines -> Call] BY DEF TypeOK
<1>2. /\ pc[g] \in {"list", "pick", "sweep"}
      /\ pc'[g] # "off"
      /\ OnlyMoves(g)
  BY <1>1 DEF RecoverList, RecoverPick, RecoverExhausted, RecoverSweep, At, Goto, Invoke,
         locals, OnlyMoves
<1>3. OneRecovery' BY <1>2 DEF OneRecovery, OnlyMoves
<1>4. RestartCallers' BY <1>2 DEF RestartCallers, OnlyMoves
<1>5. ~Finished(g) \/ Finished(g)'
  <2>1. CASE RecoverSweep(s)
    BY <1>1, <2>1 DEF RecoverSweep, Finished, Invoke, Goto, Updating
  <2>2. CASE ~RecoverSweep(s)
    BY <2>2 DEF RecoverList, RecoverPick, RecoverExhausted, At, Finished, Updating
  <2> QED BY <2>1, <2>2
<1>6. OneTimer' BY <1>2, <1>5, OneTimerFrame
<1> QED BY <1>3, <1>4, <1>6

LEMMA RespawnOneShot ==
    ASSUME TypeOK, OneShot, NEW g \in Respawners, Respawn(g) PROVE OneShot'
<1> USE Names, Roles, RolesOfGoroutines DEF OneShot
<1>1. pc \in [Goroutines -> Label] /\ call \in [Goroutines -> Call] BY DEF TypeOK
<1>2. /\ pc[g] \in {"recheck", "limit", "assign", "send"}
      /\ pc'[g] # "off"
      /\ \A h \in Goroutines \ {g} : call'[h] = call[h]
      /\ \A h \in Goroutines \ {g, TimerOf(g)} : pc'[h] = pc[h]
  BY <1>1 DEF Respawn, RespawnRecheck, RespawnLimit, RespawnAssign, RespawnSend, At, Goto,
         Invoke, AfterRespawn, locals
<1>3. OneRecovery' BY <1>2 DEF OneRecovery
<1>4. RestartCallers' BY <1>2 DEF RestartCallers
<1>5. ~Finished(g) BY <1>2 DEF Finished, Updating
<1>6. pc'[TimerOf(g)] = pc[TimerOf(g)] \/ pc'[g] = AfterRespawn(g)
  BY <1>1 DEF Respawn, RespawnRecheck, RespawnLimit, RespawnAssign, RespawnSend, Goto, Invoke
<1>7. OneTimer'
  <2> SUFFICES ASSUME NEW h \in Respawners, pc'[TimerOf(h)] # "off" PROVE Finished(h)'
    BY DEF OneTimer
  <2>1. CASE h = g BY <1>2, <1>5, <1>6, <2>1 DEF OneTimer, Finished, AfterRespawn
  <2>2. CASE h # g BY <1>2, <2>2 DEF OneTimer, Finished
  <2> QED BY <2>1, <2>2
<1> QED BY <1>3, <1>4, <1>7

LEMMA OtherOneShot ==
    ASSUME TypeOK, OneShot,
           \/ SpawnSend
           \/ \E g \in Timers : AckTimeout(g)
           \/ \E w \in Waiters : WaitReturn(w)
           \/ \E h \in Hosts : LoseSpawn(h)
           \/ \E m \in Migrators, t \in Sessions : MigrateBegin(m, t)
    PROVE  OneShot'
<1> USE Names, Roles, RolesOfGoroutines DEF OneShot
<1>1. pc \in [Goroutines -> Label] /\ call \in [Goroutines -> Call] BY DEF TypeOK
<1>2. ASSUME NEW g \in Goroutines \ (Receivers \cup Recoveries \cup Timers), OnlyMoves(g),
             call'[g] = call[g] \/ call'[g].state # "RESTARTING", ~Finished(g)
      PROVE  OneShot'
  <2>1. OneRecovery' BY <1>2 DEF OneRecovery, OnlyMoves
  <2>2. RestartCallers' BY <1>2 DEF RestartCallers, OnlyMoves
  <2>3. OneTimer' BY <1>2, OneTimerFrame
  <2> QED BY <2>1, <2>2, <2>3
<1>3. CASE SpawnSend
  <2>1. /\ OnlyMoves(Spawner)
        /\ call'[Spawner] = call[Spawner] \/ call'[Spawner].state # "RESTARTING"
        /\ ~Finished(Spawner)
    BY <1>1, <1>3 DEF SpawnSend, At, Goto, Invoke, Finished, Updating, OnlyMoves
  <2> QED BY <1>2, <2>1
<1>4. ASSUME NEW g \in Timers, AckTimeout(g) PROVE OneShot'
  <2>1. /\ pc[g] = "armed"
        /\ OnlyMoves(g)
        /\ call'[g] = call[g] \/ call'[g].state # "RESTARTING"
    BY <1>1, <1>4 DEF AckTimeout, At, Goto, Invoke, OnlyMoves
  <2>2. OneRecovery' BY <2>1 DEF OneRecovery, OnlyMoves
  <2>3. RestartCallers' BY <2>1 DEF RestartCallers, OnlyMoves
  <2>4. OneTimer' BY <2>1 DEF OneTimer, Finished, OnlyMoves
  <2> QED BY <2>2, <2>3, <2>4
<1>5. ASSUME NEW w \in Waiters, WaitReturn(w) PROVE OneShot'
  <2>1. OnlyMoves(Wait(w)) /\ call' = call /\ ~Finished(Wait(w))
    BY <1>1, <1>5 DEF WaitReturn, At, Goto, locals, Finished, Updating, OnlyMoves
  <2> QED BY <1>2, <2>1
<1>6. ASSUME NEW h \in Hosts, LoseSpawn(h) PROVE OneShot'
  BY <1>6 DEF LoseSpawn, locals, OneRecovery, OneTimer, RestartCallers, Finished
<1>7. ASSUME NEW m \in Migrators, NEW t \in Sessions, MigrateBegin(m, t) PROVE OneShot'
  <2>1. OnlyMoves(Migrate(m)) /\ call' = call /\ ~Finished(Migrate(m))
    BY <1>1, <1>7 DEF MigrateBegin, At, Goto, Finished, Updating, OnlyMoves
  <2> QED BY <1>2, <2>1
<1> QED BY <1>3, <1>4, <1>5, <1>6, <1>7

LEMMA NextOneShot == TypeOK /\ OneShot /\ [Next]_vars => OneShot'
<1> SUFFICES ASSUME TypeOK, OneShot, [Next]_vars PROVE OneShot' OBVIOUS
<1>1. CASE Program
  BY <1>1, UpdateOneShot, DisconnectOneShot, RecoverOneShot, RespawnOneShot, OtherOneShot
  DEF Program
<1>2. CASE Environment BY <1>2, StreamOneShot, OtherOneShot DEF Environment
<1>3. CASE UNCHANGED vars
  BY <1>3 DEF vars, locals, OneShot, OneRecovery, OneTimer, RestartCallers, Finished
<1> QED BY <1>1, <1>2, <1>3 DEF Next

-----------------------------------------------------------------------------
(* Waiters of a final entry are about to be woken. *)

\* Goroutines that are closing the channel stay put unless they take a step.
LEMMA ClosingFrame ==
    ASSUME FinalIsClosing, UNCHANGED <<state, exited>>,
           \A g \in Goroutines :
              pc[g] \in {"testExited", "close"} => pc'[g] = pc[g]
    PROVE  FinalIsClosing'
  BY DEF FinalIsClosing

LEMMA UpdateClosing ==
    ASSUME TypeOK, FinalIsClosing, NEW g \in Goroutines, Update(g)
    PROVE  FinalIsClosing'
<1> USE DEF At, Goto
<1>1. pc \in [Goroutines -> Label] BY DEF TypeOK
<1>2. CASE SetState(g) BY <1>1, <1>2 DEF SetState, FinalIsClosing
<1>3. CASE TestExited(g) BY <1>1, <1>3 DEF TestExited, FinalIsClosing, info
<1>4. CASE CloseExited(g) BY <1>4 DEF CloseExited, FinalIsClosing
<1>5. CASE UpdateResult(g)
  BY <1>1, <1>5, ClosingFrame DEF UpdateResult, Return
<1> QED BY <1>2, <1>3, <1>4, <1>5 DEF Update

LEMMA RespawnClosing ==
    ASSUME TypeOK, OneShot, FinalIsClosing, NEW g \in Respawners, Respawn(g)
    PROVE  FinalIsClosing'
<1> USE Names, Roles, RolesOfGoroutines
<1>1. pc \in [Goroutines -> Label] BY DEF TypeOK
<1>2. pc[g] \in {"recheck", "limit", "assign", "send"} /\ UNCHANGED <<state, exited>>
  BY DEF Respawn, RespawnRecheck, RespawnLimit, RespawnAssign, RespawnSend, At, info
<1>3. pc[TimerOf(g)] = "off"
  BY <1>2 DEF OneShot, OneTimer, Finished, Updating
<1>4. \A h \in Goroutines \ {g, TimerOf(g)} : pc'[h] = pc[h]
  BY <1>1 DEF Respawn, RespawnRecheck, RespawnLimit, RespawnAssign, RespawnSend, Goto, Invoke
<1> QED BY <1>2, <1>3, <1>4, ClosingFrame

LEMMA RecoverClosing ==
    ASSUME TypeOK, OneShot, FinalIsClosing, NEW s \in Sessions,
           \/ OnLordDisconnect(s) \/ RecoverList(s) \/ RecoverPick(s)
           \/ RecoverExhausted(s) \/ RecoverSweep(s)
    PROVE  FinalIsClosing'
<1> USE Names
<1>1. pc \in [Goroutines -> Label] BY DEF TypeOK
<1>2. CASE OnLordDisconnect(s)
  <2>1. pc[Recv(s)] = "unlinked" /\ pc[Recovery(s)] = "off"
    BY <1>2 DEF OnLordDisconnect, At, OneShot, OneRecovery
  <2> QED BY <1>1, <1>2, <2>1, ClosingFrame DEF OnLordDisconnect, info
<1>3. CASE ~OnLordDisconnect(s)
  BY <1>1, <1>3, ClosingFrame
  DEF RecoverList, RecoverPick, RecoverExhausted, RecoverSweep, At, Goto, Invoke, info
<1> QED BY <1>2, <1>3

LEMMA OtherClosing ==
    ASSUME TypeOK, FinalIsClosing,
           \/ SpawnSend
           \/ \E g \in Timers : AckTimeout(g)
           \/ \E w \in Waiters : WaitReturn(w)
           \/ Environment
    PROVE  FinalIsClosing'
<1> USE Names DEF At, Goto, Invoke, info
<1>1. pc \in [Goroutines -> Label] BY DEF TypeOK
<1>2. CASE SpawnSend BY <1>1, <1>2, ClosingFrame DEF SpawnSend
<1>3. CASE \E g \in Timers : AckTimeout(g) BY <1>1, <1>3, ClosingFrame DEF AckTimeout
<1>4. CASE \E w \in Waiters : WaitReturn(w) BY <1>1, <1>4, ClosingFrame DEF WaitReturn
<1>5. CASE \E s \in Sessions :
              \/ Connect(s) \/ RecvStarted(s) \/ Disconnect(s)
              \/ \E r \in LordResult : RecvExit(s, r)
  BY <1>1, <1>5, ClosingFrame DEF Connect, RecvStarted, Disconnect, RecvExit
<1>6. CASE \E h \in Hosts : LoseSpawn(h) BY <1>6, ClosingFrame DEF LoseSpawn
<1>7. CASE \E m \in Migrators, t \in Sessions : MigrateBegin(m, t)
  BY <1>1, <1>7, ClosingFrame DEF MigrateBegin
<1> QED BY <1>2, <1>3, <1>4, <1>5, <1>6, <1>7 DEF Environment

LEMMA NextClosing == TypeOK /\ OneShot /\ FinalIsClosing /\ [Next]_vars => FinalIsClosing'
<1> SUFFICES ASSUME TypeOK, OneShot, FinalIsClosing, [Next]_vars PROVE FinalIsClosing'
  OBVIOUS
<1>1. CASE Program
  BY <1>1, UpdateClosing, RespawnClosing, RecoverClosing, OtherClosing DEF Program
<1>2. CASE Environment BY <1>2, OtherClosing
<1>3. CASE UNCHANGED vars BY <1>3, ClosingFrame DEF vars, info
<1> QED BY <1>1, <1>2, <1>3 DEF Next

-----------------------------------------------------------------------------
(* RESTARTING has an end in sight. *)

LEMMA RestartFrame ==
    ASSUME RestartingGuarded, UNCHANGED state,
           \A g \in Goroutines : EndsRestart(g) => \E h \in Goroutines : EndsRestart(h)'
    PROVE  RestartingGuarded'
  BY DEF RestartingGuarded

LEMMA UpdateRestart ==
    ASSUME TypeOK, OneShot, RestartingGuarded, NEW g \in Goroutines, Update(g)
    PROVE  RestartingGuarded'
<1>1. pc \in [Goroutines -> Label] /\ call \in [Goroutines -> Call] BY DEF TypeOK
<1>2. CASE SetState(g)
  <2>1. state' = "RESTARTING" => EndsRestart(g)'
    BY <1>1, <1>2 DEF SetState, Final, Return, Goto, AfterState, EndsRestart, OneShot,
       RestartCallers
  <2> QED BY <2>1 DEF RestartingGuarded
<1>3. CASE ~SetState(g)
  <2>1. pc[g] \in {"testExited", "close", "updateResult"} /\ OnlyMoves(g) /\ state' = state
    BY <1>1, <1>3 DEF Update, TestExited, CloseExited, UpdateResult, At, Goto, Return,
       OnlyMoves, info, locals
  <2> QED BY <2>1, RestartFrame DEF OnlyMoves, EndsRestart
<1> QED BY <1>2, <1>3

LEMMA RespawnRestart ==
    ASSUME TypeOK, OneShot, RestartingGuarded, NEW g \in Respawners, Respawn(g)
    PROVE  RestartingGuarded'
<1> USE Names, Roles, RolesOfGoroutines
<1>1. pc \in [Goroutines -> Label] /\ call \in [Goroutines -> Call] BY DEF TypeOK
<1>2. /\ state' = state
      /\ \A h \in Goroutines \ {g} : call'[h] = call[h]
      /\ \A h \in Goroutines \ {g, TimerOf(g)} : pc'[h] = pc[h]
  BY <1>1 DEF Respawn, RespawnRecheck, RespawnLimit, RespawnAssign, RespawnSend, Goto,
     Invoke, info, locals
<1>3. pc'[TimerOf(g)] \in {pc[TimerOf(g)], "armed"}
  BY <1>1 DEF Respawn, RespawnRecheck, RespawnLimit, RespawnAssign, RespawnSend, Goto, Invoke
<1>4. EndsRestart(g) => EndsRestart(g)' \/ EndsRestart(TimerOf(g))'
  BY <1>1 DEF Respawn, RespawnRecheck, RespawnLimit, RespawnAssign, RespawnSend, At, Goto,
     Invoke, EndsRestart
<1>5. EndsRestart(TimerOf(g)) => EndsRestart(TimerOf(g))'
  BY <1>1, <1>2, <1>3 DEF EndsRestart
<1>6. \A h \in Goroutines \ {g, TimerOf(g)} : EndsRestart(h) => EndsRestart(h)'
  BY <1>2 DEF EndsRestart
<1> QED BY <1>2, <1>4, <1>5, <1>6, RestartFrame

LEMMA RecoverRestart ==
    ASSUME TypeOK, OneShot, RestartingGuarded, NEW s \in Sessions,
           \/ OnLordDisconnect(s) \/ RecoverList(s) \/ RecoverPick(s)
           \/ RecoverExhausted(s) \/ RecoverSweep(s)
    PROVE  RestartingGuarded'
<1> USE Names
<1>1. pc \in [Goroutines -> Label] /\ call \in [Goroutines -> Call] BY DEF TypeOK
<1>2. CASE OnLordDisconnect(s)
  <2>1. pc[Recv(s)] = "unlinked" /\ pc[Recovery(s)] = "off"
    BY <1>2 DEF OnLordDisconnect, At, OneShot, OneRecovery
  <2>2. \A h \in Goroutines : EndsRestart(h) => EndsRestart(h)'
    BY <1>1, <1>2, <2>1 DEF OnLordDisconnect, EndsRestart, locals
  <2> QED BY <1>2, <2>2, RestartFrame DEF OnLordDisconnect, info
<1>3. CASE ~OnLordDisconnect(s)
  <2>1. /\ pc[Recovery(s)] \in {"list", "pick", "sweep"}
        /\ OnlyMoves(Recovery(s))
        /\ state' = state
    BY <1>1, <1>3 DEF RecoverList, RecoverPick, RecoverExhausted, RecoverSweep, At, Goto,
       Invoke, info, locals, OnlyMoves
  <2> QED BY <2>1, RestartFrame DEF OnlyMoves, EndsRestart
<1> QED BY <1>2, <1>3

LEMMA OtherRestart ==
    ASSUME TypeOK, RestartingGuarded,
           \/ SpawnSend
           \/ \E g \in Timers : AckTimeout(g)
           \/ \E w \in Waiters : WaitReturn(w)
           \/ Environment
    PROVE  RestartingGuarded'
<1> USE Names, Roles, RolesOfGoroutines
<1>1. pc \in [Goroutines -> Label] /\ call \in [Goroutines -> Call] BY DEF TypeOK
<1>2. ASSUME NEW g \in Goroutines, OnlyMoves(g), ~EndsRestart(g), state' = state
      PROVE  RestartingGuarded'
  BY <1>2, RestartFrame DEF OnlyMoves, EndsRestart
<1> USE DEF At, Goto, Invoke, info, locals, OnlyMoves, EndsRestart
<1>3. CASE SpawnSend BY <1>1, <1>2, <1>3 DEF SpawnSend
<1>4. ASSUME NEW g \in Timers, AckTimeout(g) PROVE RestartingGuarded'
  <2>1. OnlyMoves(g) /\ state' = state BY <1>1, <1>4 DEF AckTimeout
  <2>2. state = "RESTARTING" => EndsRestart(g)' BY <1>1, <1>4 DEF AckTimeout
  <2> QED BY <2>1, <2>2 DEF RestartingGuarded
<1>5. CASE \E w \in Waiters : WaitReturn(w) BY <1>1, <1>2, <1>5 DEF WaitReturn
<1>6. ASSUME NEW s \in Sessions,
             \/ Connect(s) \/ RecvStarted(s) \/ Disconnect(s)
             \/ \E r \in LordResult : RecvExit(s, r)
      PROVE  RestartingGuarded'
  <2>1. pc[Recv(s)] \in {"off", "idle"} /\ OnlyMoves(Recv(s)) /\ state' = state
    BY <1>1, <1>6 DEF Connect, RecvStarted, Disconnect, RecvExit
  <2> QED BY <1>2, <2>1
<1>7. CASE \E h \in Hosts : LoseSpawn(h) BY <1>7, RestartFrame DEF LoseSpawn
<1>8. CASE \E m \in Migrators, t \in Sessions : MigrateBegin(m, t)
  BY <1>1, <1>2, <1>8 DEF MigrateBegin
<1> QED BY <1>3, <1>4, <1>5, <1>6, <1>7, <1>8 DEF Environment

LEMMA NextRestart ==
    TypeOK /\ OneShot /\ RestartingGuarded /\ [Next]_vars => RestartingGuarded'
<1> SUFFICES ASSUME TypeOK, OneShot, RestartingGuarded, [Next]_vars
             PROVE  RestartingGuarded'
  OBVIOUS
<1>1. CASE Program
  BY <1>1, UpdateRestart, RespawnRestart, RecoverRestart, OtherRestart DEF Program
<1>2. CASE Environment BY <1>2, OtherRestart
<1>3. CASE UNCHANGED vars BY <1>3, RestartFrame DEF vars, info, locals, EndsRestart
<1> QED BY <1>1, <1>2, <1>3 DEF Next

-----------------------------------------------------------------------------
(* The restart budget. *)

\* Finitely many goroutines respawn, so those that are spending can be counted.
LEMMA RespawnersFinite == IsFiniteSet(Respawners)
<1>1. IsFiniteSet({"recovery"}) /\ IsFiniteSet({"migrate"}) BY FS_Singleton
<1>2. IsFiniteSet(Recoveries) /\ IsFiniteSet(Migrations)
  BY <1>1, EntryAssumption, FS_Product DEF Recoveries, Migrations
<1> QED BY <1>2, FS_Union DEF Respawners

LEMMA SpendingCount ==
    /\ IsFiniteSet(Spending)
    /\ Cardinality(Spending) \in Nat
    /\ Cardinality(Respawners) \in Nat
    /\ Cardinality(Spending) <= Cardinality(Respawners)
<1>1. Spending \subseteq Respawners BY DEF Spending
<1> QED BY <1>1, RespawnersFinite, FS_Subset, FS_CardinalityType

LEMMA SpendingCountNext ==
    /\ IsFiniteSet(Spending')
    /\ Cardinality(Spending') \in Nat
    /\ Cardinality(Spending') <= Cardinality(Respawners)
<1>1. Spending' \subseteq Respawners BY DEF Spending
<1> QED BY <1>1, RespawnersFinite, FS_Subset, FS_CardinalityType

\* A step that lets no goroutine past the test keeps the budget.
LEMMA BudgetFrame ==
    ASSUME TypeOK, RestartBudget, restartCount' = restartCount, Spending' \subseteq Spending
    PROVE  RestartBudget'
<1>1. Cardinality(Spending') <= Cardinality(Spending) BY SpendingCount, FS_Subset
<1>2. restartCount \in Nat /\ MaxRestarts \in Int BY EntryAssumption DEF TypeOK
<1> QED BY <1>1, <1>2, SpendingCount, SpendingCountNext DEF RestartBudget

LEMMA UpdateBudget ==
    ASSUME TypeOK, RestartBudget, NEW g \in Goroutines, Update(g)
    PROVE  RestartBudget'
<1>1. pc \in [Goroutines -> Label] /\ call \in [Goroutines -> Call] BY DEF TypeOK
<1>2. restartCount' = restartCount /\ OnlyMoves(g)
  BY <1>1 DEF Update, SetState, TestExited, CloseExited, UpdateResult, Goto, Return, OnlyMoves,
     info, locals
<1>3. ASSUME g \in Spending' PROVE g \in Spending
  <2>1. CASE SetState(g)
    BY <1>1, <1>3, <2>1 DEF SetState, At, Goto, Return, AfterState, Spending, NoCall, Final
  <2>2. CASE TestExited(g) BY <1>1, <1>3, <2>2 DEF TestExited, Goto, Spending
  <2>3. CASE CloseExited(g) BY <1>1, <1>3, <2>3 DEF CloseExited, Goto, Spending
  <2>4. CASE UpdateResult(g)
    BY <1>1, <1>3, <2>4 DEF UpdateResult, Goto, Return, AfterResult, Spending
  <2> QED BY <2>1, <2>2, <2>3, <2>4 DEF Update
<1>4. Spending' \subseteq Spending
  BY <1>2, <1>3, RolesOfGoroutines DEF Spending, OnlyMoves
<1> QED BY <1>2, <1>4, BudgetFrame

\* A respawn is let past the test while the count is below the limit: with it,
\* at most all of them are spending.
LEMMA RespawnBudget ==
    ASSUME TypeOK, OneShot, RestartBudget, NEW g \in Respawners, Respawn(g)
    PROVE  RestartBudget'
<1> USE Names, Roles, RolesOfGoroutines
<1>1. pc \in [Goroutines -> Label] /\ call \in [Goroutines -> Call] BY DEF TypeOK
<1>2. restartCount \in Nat /\ MaxRestarts \in Int BY EntryAssumption DEF TypeOK
<1>3. \A h \in Respawners \ {g} : pc'[h] = pc[h] /\ call'[h] = call[h]
  BY <1>1 DEF Respawn, RespawnRecheck, RespawnLimit, RespawnAssign, RespawnSend, Goto,
     Invoke, locals
<1>4. CASE RespawnRecheck(g)
  <2>1. Spending' \subseteq Spending
    BY <1>1, <1>3, <1>4 DEF RespawnRecheck, Goto, AfterRespawn, Spending
  <2> QED BY <1>4, <2>1, BudgetFrame DEF RespawnRecheck, info
<1>5. CASE RespawnLimit(g)
  <2>1. CASE MaxRestarts >= 0 /\ restartCount >= MaxRestarts
    <3>1. Spending' \subseteq Spending
      BY <1>1, <1>3, <1>5, <2>1 DEF RespawnLimit, Invoke, Goto, Spending
    <3> QED BY <1>5, <3>1, BudgetFrame DEF RespawnLimit, info
  <2>2. CASE ~(MaxRestarts >= 0 /\ restartCount >= MaxRestarts)
    <3>1. restartCount' = restartCount BY <1>5 DEF RespawnLimit, info
    <3> QED BY <1>2, <2>2, <3>1, SpendingCount, SpendingCountNext DEF RestartBudget
  <2> QED BY <2>1, <2>2
<1>6. CASE RespawnAssign(g)
  <2>1. g \in Spending BY <1>6 DEF RespawnAssign, At, Spending
  <2>2. Spending' = Spending \ {g}
    BY <1>1, <1>3, <1>6 DEF RespawnAssign, Goto, Spending
  <2>3. Cardinality(Spending') = Cardinality(Spending) - 1
    BY <2>1, <2>2, SpendingCount, FS_RemoveElement
  <2>4. restartCount' = restartCount + 1 BY <1>6 DEF RespawnAssign
  <2> QED BY <1>2, <2>3, <2>4, SpendingCount DEF RestartBudget
<1>7. CASE RespawnSend(g)
  <2>1. Spending' \subseteq Spending
    BY <1>1, <1>3, <1>7 DEF RespawnSend, Invoke, Goto, AfterRespawn, Spending
  <2> QED BY <1>7, <2>1, BudgetFrame DEF RespawnSend, info
<1> QED BY <1>4, <1>5, <1>6, <1>7 DEF Respawn

LEMMA RecoverBudget ==
    ASSUME TypeOK, RestartBudget, NEW s \in Sessions,
           \/ OnLordDisconnect(s) \/ RecoverList(s) \/ RecoverPick(s)
           \/ RecoverExhausted(s) \/ RecoverSweep(s)
    PROVE  RestartBudget'
<1> USE Names, Roles, RolesOfGoroutines
<1>1. pc \in [Goroutines -> Label] /\ call \in [Goroutines -> Call] BY DEF TypeOK
<1>2. restartCount' = restartCount
  BY DEF OnLordDisconnect, RecoverList, RecoverPick, RecoverExhausted, RecoverSweep, info
<1>3. /\ \A h \in Respawners \ {Recovery(s)} : pc'[h] = pc[h] /\ call'[h] = call[h]
      /\ pc'[Recovery(s)] # "assign"
      /\ pc'[Recovery(s)] = "setState" => call'[Recovery(s)].state # "RESTARTING"
  BY <1>1 DEF OnLordDisconnect, RecoverList, RecoverPick, RecoverExhausted, RecoverSweep, At,
     Goto, Invoke, locals
<1>4. Spending' \subseteq Spending BY <1>3 DEF Spending
<1> QED BY <1>2, <1>4, BudgetFrame

LEMMA OtherBudget ==
    ASSUME TypeOK, RestartBudget,
           \/ SpawnSend
           \/ \E g \in Timers : AckTimeout(g)
           \/ \E w \in Waiters : WaitReturn(w)
           \/ Environment
    PROVE  RestartBudget'
<1> USE Names, Roles, RolesOfGoroutines
<1>1. pc \in [Goroutines -> Label] /\ call \in [Goroutines -> Call] BY DEF TypeOK
<1>2. ASSUME NEW g \in Goroutines, OnlyMoves(g), restartCount' = restartCount,
             g \in Respawners => pc'[g] = "recheck"
      PROVE  RestartBudget'
  <2>1. Spending' \subseteq Spending BY <1>2 DEF Spending, OnlyMoves
  <2> QED BY <1>2, <2>1, BudgetFrame
<1> USE DEF At, Goto, Invoke, info, locals, OnlyMoves
<1>3. CASE SpawnSend BY <1>1, <1>2, <1>3 DEF SpawnSend
<1>4. CASE \E g \in Timers : AckTimeout(g) BY <1>1, <1>2, <1>4 DEF AckTimeout
<1>5. CASE \E w \in Waiters : WaitReturn(w) BY <1>1, <1>2, <1>5 DEF WaitReturn
<1>6. ASSUME NEW s \in Sessions,
             \/ Connect(s) \/ RecvStarted(s) \/ Disconnect(s)
             \/ \E r \in LordResult : RecvExit(s, r)
      PROVE  RestartBudget'
  <2>1. OnlyMoves(Recv(s)) /\ restartCount' = restartCount
    BY <1>1, <1>6 DEF Connect, RecvStarted, Disconnect, RecvExit
  <2> QED BY <1>2, <2>1
<1>7. CASE \E h \in Hosts : LoseSpawn(h)
  BY <1>7, BudgetFrame DEF LoseSpawn, Spending
<1>8. CASE \E m \in Migrators, t \in Sessions : MigrateBegin(m, t)
  BY <1>1, <1>2, <1>8 DEF MigrateBegin
<1> QED BY <1>3, <1>4, <1>5, <1>6, <1>7, <1>8 DEF Environment

LEMMA NextBudget == TypeOK /\ OneShot /\ RestartBudget /\ [Next]_vars => RestartBudget'
<1> SUFFICES ASSUME TypeOK, OneShot, RestartBudget, [Next]_vars PROVE RestartBudget'
  OBVIOUS
<1>1. CASE Program
  BY <1>1, UpdateBudget, RespawnBudget, RecoverBudget, OtherBudget DEF Program
<1>2. CASE Environment BY <1>2, OtherBudget
<1>3. CASE UNCHANGED vars
  BY <1>3, BudgetFrame DEF vars, info, locals, Spending
<1> QED BY <1>1, <1>2, <1>3 DEF Next

\* At the start nobody is spending, and there is at least one respawn: the
\* recovery of the first lord.
LEMMA InitBudget == Init => RestartBudget
<1> SUFFICES ASSUME Init PROVE RestartBudget OBVIOUS
<1>1. Spending = {}
  BY Names, Roles, RolesOfGoroutines DEF Init, Spending
<1>2. Cardinality(Spending) = 0 BY <1>1, FS_EmptySet
<1>3. MaxRestarts \in Int \ {0} BY EntryAssumption
<1> QED BY <1>2, <1>3, SpendingCount DEF RestartBudget, Init, Create

-----------------------------------------------------------------------------
(* Theorems. *)

LEMMA Invariance == Spec => []Inv
<1>1. Init => Inv
  <2>1. Init => FinalIsClosing /\ RestartingGuarded
    BY DEF Init, Create, FinalIsClosing, RestartingGuarded, Final
  <2> QED BY <2>1, InitType, InitOneShot, InitBudget DEF Inv
<1>2. Inv /\ [Next]_vars => Inv'
  BY NextType, NextOneShot, NextClosing, NextRestart, NextBudget DEF Inv
<1> QED BY <1>1, <1>2, PTL DEF Spec

\* The entry's fields, the channel and every goroutine's program counter and
\* arguments keep their types.
THEOREM EntryTypeOK == Spec => []TypeOK
  BY Invariance, PTL DEF Inv

\* However many goroutines call UpdateState, a final entry has its `exited`
\* channel closed or a goroutine that is about to close it.
THEOREM EntryFinalIsClosing == Spec => []FinalIsClosing
  BY Invariance, PTL DEF Inv

\* Whatever recoveries, Migrate RPCs, lords' messages and stale timers do, an
\* entry in RESTARTING has a respawn in progress, an armed ack timer, or an
\* UpdateState to another state under way.
THEOREM EntryRestartingGuarded == Spec => []RestartingGuarded
  BY Invariance, PTL DEF Inv

\* However recoveries and Migrate RPCs overlap and retry, the restarts of a
\* process exceed max_restarts by less than the number of those goroutines.
THEOREM EntryRestartBudget == Spec => []RestartBudget
  BY Invariance, PTL DEF Inv
=============================================================================
