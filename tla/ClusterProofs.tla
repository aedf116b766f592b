---------------------------- MODULE ClusterProofs ----------------------------
(***************************************************************************)
(* Proofs, for any number of hosts, processes, streams and crashes and any *)
(* limits, of the safety properties of Cluster.                            *)
(***************************************************************************)
EXTENDS Cluster, TLAPS, SequenceTheorems

\* Lord ids are given out in order and never again; a session is registered.
Ids ==
    /\ \A l \in registered : l < nextId
    /\ sessions \subseteq registered
    /\ \A p \in Procs : lord[p] < nextId /\ walLord[p] < nextId

\* A scheduler that is down has no table and no registry.
Down == ~up => known = {} /\ registered = {}

\* A recovery runs for a lord whose session has ended, over known processes;
\* one that this pass is done with is no longer up on that lord.
Recoveries ==
    \A l \in LordIds :
        /\ rec[l].pc # "off" => l \in registered \ sessions
        /\ rec[l].cand \subseteq known
        /\ rec[l].target < nextId
        /\ rec[l].pc = "pass" =>
              /\ rec[l].left \subseteq rec[l].cand
              /\ \A p \in rec[l].cand \ rec[l].left :
                    ~(lord[p] = l /\ state[p] \in Recoverable)

\* The log is never behind the table, so that a restart brings back the states
\* that tenants were shown last.
ReplayState == up => \A p \in known : state[p] = walState[p]

\* The part of the inductive invariant that is about the scheduler's state.
Scheduler == /\ Ids /\ Down /\ Recoveries
             /\ ReplayState /\ RestartingTimed /\ NoForgottenProcess

Inv == TypeOK /\ Scheduler /\ KnownEverywhere

(* Types. *)

LEMMA InitType == Init => TypeOK
<1> SUFFICES ASSUME Init PROVE TypeOK OBVIOUS
<1>1. NoRecovery \in Recovery BY DEF NoRecovery, Recovery, Lord
<1>2. rec \in [LordIds -> Recovery] BY <1>1 DEF Init
<1>3. toLord \in [LordIds -> Seq(Event)] /\ inflight \in [LordIds -> Seq(Message)]
  BY DEF Init
<1>4. outbox \in [Hosts -> Seq(Message)] BY DEF Init
<1>5. lord \in [Procs -> Lord] /\ walLord \in [Procs -> Lord] /\ conn \in [Hosts -> Lord]
  BY DEF Init, Lord
<1> QED BY <1>2, <1>3, <1>4, <1>5 DEF Init, TypeOK, State

\* UpdateState keeps the types of what it assigns and logs.
LEMMA UpdateStatesType ==
    ASSUME TypeOK, NEW P, NEW st \in State, NEW l \in Lord, UpdateStates(P, st, l)
    PROVE  /\ state' \in [Procs -> State]
           /\ walState' \in [Procs -> State]
           /\ walLord' \in [Procs -> Lord]
  BY DEF UpdateStates, AppendState, TypeOK

LEMMA SendType ==
    ASSUME TypeOK, NEW l \in LordIds, NEW k \in {"spawn", "kill"}, NEW p \in Procs,
           Send(l, k, p)
    PROVE  toLord' \in [LordIds -> Seq(Event)]
<1>1. [kind |-> k, proc |-> p] \in Event BY DEF Event
<1>2. Append(toLord[l], [kind |-> k, proc |-> p]) \in Seq(Event) BY <1>1 DEF TypeOK
<1> QED BY <1>2 DEF Send, TypeOK

LEMMA ReportType ==
    ASSUME TypeOK, NEW h \in Hosts, NEW k \in {"started", "exit", "signal"},
           NEW p \in Procs, Report(h, k, p)
    PROVE  outbox' \in [Hosts -> Seq(Message)]
<1>1. [kind |-> k, proc |-> p] \in Message BY DEF Message
<1>2. Append(outbox[h], [kind |-> k, proc |-> p]) \in Seq(Message) BY <1>1 DEF TypeOK
<1> QED BY <1>2 DEF Report, TypeOK

LEMMA TenantType ==
    ASSUME TypeOK, NEW p \in Procs, NEW l \in LordIds, Spawn(p, l) \/ Kill(p)
    PROVE  TypeOK'
<1> USE DEF table, wal, registry, agents
<1>1. CASE Spawn(p, l)
  <2>1. toLord' \in [LordIds -> Seq(Event)] BY <1>1, SendType DEF Spawn, TypeOK
  <2>2. /\ lord' \in [Procs -> Lord] /\ walLord' \in [Procs -> Lord]
        /\ state' \in [Procs -> State] /\ walState' \in [Procs -> State]
    BY <1>1 DEF Spawn, TypeOK, Lord, State
  <2> QED BY <1>1, <2>1, <2>2 DEF Spawn, TypeOK
<1>2. CASE Kill(p)
  <2>1. lord[p] \in LordIds BY <1>2 DEF Kill, CanSend, TypeOK
  <2>2. toLord' \in [LordIds -> Seq(Event)] BY <1>2, <2>1, SendType DEF Kill
  <2> QED BY <1>2, <2>2 DEF Kill, TypeOK
<1> QED BY <1>1, <1>2

LEMMA StateAfterType ==
    ASSUME NEW k \in {"started", "exit", "signal"}
    PROVE  StateAfter(k) \in {"RUNNING", "EXITED", "STOPPED"} /\ StateAfter(k) \in State
<1>1. CASE k = "started" BY <1>1 DEF StateAfter, State
<1>2. CASE k = "exit" BY <1>2 DEF StateAfter, State
<1>3. CASE k = "signal" BY <1>3 DEF StateAfter, State
<1> QED BY <1>1, <1>2, <1>3

LEMMA StreamType ==
    ASSUME TypeOK, NEW l \in LordIds, RecvCmd(l) \/ SessionEnd(l) \/ SendTimeout(l)
    PROVE  TypeOK'
<1> USE DEF table, wal, registry, agents
<1>1. CASE RecvCmd(l)
  <2> DEFINE m == Head(inflight[l])
  <2>1. /\ inflight[l] \in Seq(Message) /\ inflight[l] # <<>>
        /\ inflight' = [inflight EXCEPT ![l] = Tail(@)]
    BY <1>1 DEF RecvCmd, TypeOK
  <2>2. m \in Message /\ Tail(inflight[l]) \in Seq(Message) BY <2>1
  <2>3. inflight' \in [LordIds -> Seq(Message)] BY <2>1, <2>2 DEF TypeOK
  <2>4. StateAfter(m.kind) \in State
    <3>1. m.kind \in {"started", "exit", "signal"} BY <2>2 DEF Message
    <3> QED BY <3>1, StateAfterType
  <2>5. (IF m.kind = "started" THEN l ELSE NoLord) \in Lord BY DEF Lord
  <2>6. /\ state' \in [Procs -> State] /\ walState' \in [Procs -> State]
        /\ walLord' \in [Procs -> Lord]
    BY <1>1, <2>4, <2>5, UpdateStatesType DEF RecvCmd
  <2>7. lord' \in [Procs -> Lord] BY <1>1 DEF RecvCmd, TypeOK, Lord
  <2> QED BY <1>1, <2>3, <2>6, <2>7 DEF RecvCmd, TypeOK
<1>2. CASE SessionEnd(l)
  <2>1. rec' \in [LordIds -> Recovery]
    <3>1. rec[l] \in Recovery BY DEF TypeOK
    <3>2. [rec[l] EXCEPT !.pc = "list"] \in Recovery BY <3>1 DEF Recovery
    <3> QED BY <1>2, <3>2 DEF SessionEnd, TypeOK
  <2>2. /\ toLord' \in [LordIds -> Seq(Event)]
        /\ inflight' \in [LordIds -> Seq(Message)]
        /\ conn' \in [Hosts -> Lord]
    BY <1>2 DEF SessionEnd, Hangup, TypeOK, Lord
  <2> QED BY <1>2, <2>1, <2>2 DEF SessionEnd, TypeOK
<1>3. CASE SendTimeout(l)
  <2> DEFINE q == toLord[l]
             r == SubSeq(q, 3, Len(q))
  <2>1. q \in Seq(Event) /\ Len(q) >= 2 BY <1>3 DEF SendTimeout, TypeOK
  <2>2. q[1] \in Event /\ q[2] \in Event BY <2>1, ElementOfSeq
  <2>3. <<q[2], q[1]>> \in Seq(Event) BY <2>2
  <2>4. r \in Seq(Event)
    <3>1. \A i \in 3..Len(q) : q[i] \in Event BY <2>1, ElementOfSeq
    <3> QED BY <2>1, <3>1, SubSeqProperties, LenProperties
  <2>5. <<q[2], q[1]>> \o r \in Seq(Event) BY <2>3, <2>4, ConcatProperties
  <2>6. toLord' \in [LordIds -> Seq(Event)] BY <1>3, <2>5 DEF SendTimeout, TypeOK
  <2> QED BY <1>3, <2>6 DEF SendTimeout, TypeOK
<1> QED BY <1>1, <1>2, <1>3

LEMMA RespawnType ==
    ASSUME TypeOK, NEW p \in Procs, NEW t \in Lord, NEW nil \in BOOLEAN,
           Respawn(p, t, nil)
    PROVE  /\ UNCHANGED <<known, walKnown>>
           /\ state' \in [Procs -> State] /\ walState' \in [Procs -> State]
           /\ lord' \in [Procs -> Lord] /\ walLord' \in [Procs -> Lord]
           /\ restarts' \in [Procs -> Nat] /\ timers' \in [Procs -> Nat]
           /\ toLord' \in [LordIds -> Seq(Event)]
<1> USE DEF table, wal
<1>1. UNCHANGED <<known, walKnown>> BY DEF Respawn
<1>2. /\ state' \in [Procs -> State] /\ walState' \in [Procs -> State]
      /\ walLord' \in [Procs -> Lord]
  BY UpdateStatesType DEF Respawn, State, Lord, TypeOK
<1>3. lord' \in [Procs -> Lord] BY DEF Respawn, Lord, TypeOK
<1>4. restarts' \in [Procs -> Nat] /\ timers' \in [Procs -> Nat]
  <2>1. restarts \in [Procs -> Nat] /\ timers \in [Procs -> Nat] BY DEF TypeOK
  <2>2. restarts' \in {restarts, [restarts EXCEPT ![p] = @ + 1]} BY DEF Respawn
  <2>3. timers' \in {timers, [timers EXCEPT ![p] = @ + 1]} BY DEF Respawn
  <2> QED BY <2>1, <2>2, <2>3
<1>5. toLord' \in [LordIds -> Seq(Event)]
  <2>1. CanSend(t) => t \in LordIds BY DEF CanSend, TypeOK
  <2>2. CASE UNCHANGED toLord BY <2>2 DEF TypeOK
  <2>3. CASE ~UNCHANGED toLord BY <2>1, <2>3, SendType DEF Respawn
  <2> QED BY <2>2, <2>3
<1> QED BY <1>1, <1>2, <1>3, <1>4, <1>5

LEMMA RecoverType ==
    ASSUME TypeOK, NEW l \in LordIds,
           \/ RecoverList(l) \/ RecoverPick(l) \/ RecoverExhausted(l) \/ RecoverSweep(l)
           \/ \E p \in Procs : RecoverRespawn(l, p)
    PROVE  TypeOK'
<1> USE DEF table, wal, registry, agents, streams
<1>1. rec[l] \in Recovery /\ sessions \subseteq LordIds BY DEF TypeOK
<1>2. CASE RecoverList(l)
  <2>1. Candidates(l) \subseteq Procs BY DEF Candidates, TypeOK
  <2>2. rec' \in [LordIds -> Recovery]
    BY <1>1, <1>2, <2>1 DEF RecoverList, Recovery, TypeOK
  <2> QED BY <1>2, <2>2 DEF RecoverList, TypeOK
<1>3. CASE RecoverPick(l)
  <2>1. CASE rec' = [rec EXCEPT ![l].attempt = @ + 1]
    <3>1. [rec[l] EXCEPT !.attempt = @ + 1] \in Recovery BY <1>1 DEF Recovery
    <3>2. rec' \in [LordIds -> Recovery] BY <2>1, <3>1 DEF TypeOK
    <3> QED BY <1>3, <3>2 DEF RecoverPick, TypeOK
  <2>2. ASSUME NEW t \in sessions,
               rec' = [rec EXCEPT ![l] =
                          [pc |-> "pass", cand |-> @.cand, left |-> @.cand, target |-> t,
                           ok |-> FALSE, attempt |-> @.attempt + 1]]
        PROVE  TypeOK'
    <3> DEFINE r == [pc |-> "pass", cand |-> rec[l].cand, left |-> rec[l].cand,
                     target |-> t, ok |-> FALSE, attempt |-> rec[l].attempt + 1]
    <3>1. r \in Recovery BY <1>1 DEF Recovery, Lord
    <3>2. rec' = [rec EXCEPT ![l] = r] BY <2>2
    <3>3. rec' \in [LordIds -> Recovery] BY <3>1, <3>2 DEF TypeOK
    <3> QED BY <1>3, <3>3 DEF RecoverPick, TypeOK
  <2> QED BY <1>3, <2>1, <2>2 DEF RecoverPick
<1>4. CASE RecoverExhausted(l)
  <2>1. rec' \in [LordIds -> Recovery]
    BY <1>1, <1>4 DEF RecoverExhausted, Recovery, TypeOK
  <2> QED BY <1>4, <2>1 DEF RecoverExhausted, TypeOK
<1>5. CASE RecoverSweep(l)
  <2>1. rec' \in [LordIds -> Recovery]
    BY <1>1, <1>5 DEF RecoverSweep, Recovery, Lord, TypeOK
  <2>2. /\ state' \in [Procs -> State] /\ walState' \in [Procs -> State]
        /\ walLord' \in [Procs -> Lord]
    BY <1>5, UpdateStatesType DEF RecoverSweep, State, Lord
  <2> QED BY <1>5, <2>1, <2>2 DEF RecoverSweep, TypeOK
<1>6. ASSUME NEW p \in Procs, RecoverRespawn(l, p) PROVE TypeOK'
  <2>1. PICK nil \in BOOLEAN :
           /\ Respawn(p, rec[l].target, nil)
           /\ LET ok == rec[l].ok \/ nil
                  last == rec[l].left = {p}
              IN rec' = [rec EXCEPT ![l].left = @ \ {p}, ![l].ok = ok,
                                    ![l].pc = IF ~last THEN "pass"
                                              ELSE IF ok THEN "sweep" ELSE "pick"]
    BY <1>6 DEF RecoverRespawn
  <2>2. rec' \in [LordIds -> Recovery] BY <1>1, <2>1 DEF Recovery, TypeOK
  <2>3. rec[l].target \in Lord BY <1>1 DEF Recovery
  <2>4. /\ UNCHANGED <<known, walKnown>>
        /\ state' \in [Procs -> State] /\ walState' \in [Procs -> State]
        /\ lord' \in [Procs -> Lord] /\ walLord' \in [Procs -> Lord]
        /\ restarts' \in [Procs -> Nat] /\ timers' \in [Procs -> Nat]
        /\ toLord' \in [LordIds -> Seq(Event)]
    BY <2>1, <2>3, RespawnType
  <2> QED BY <1>6, <2>2, <2>4 DEF RecoverRespawn, TypeOK
<1> QED BY <1>2, <1>3, <1>4, <1>5, <1>6

LEMMA OtherType ==
    ASSUME TypeOK,
           \/ \E p \in Procs, t \in LordIds : Migrate(p, t)
           \/ \E p \in Procs : AckTimeout(p)
           \/ Crash \/ Restart
    PROVE  TypeOK'
<1> USE DEF table, wal, registry, agents, streams
<1>1. ASSUME NEW p \in Procs, NEW t \in LordIds, Migrate(p, t) PROVE TypeOK'
  <2>1. PICK nil \in BOOLEAN : Respawn(p, t, nil) BY <1>1 DEF Migrate
  <2>2. t \in Lord BY DEF Lord
  <2>3. /\ UNCHANGED <<known, walKnown>>
        /\ state' \in [Procs -> State] /\ walState' \in [Procs -> State]
        /\ lord' \in [Procs -> Lord] /\ walLord' \in [Procs -> Lord]
        /\ restarts' \in [Procs -> Nat] /\ timers' \in [Procs -> Nat]
        /\ toLord' \in [LordIds -> Seq(Event)]
    BY <2>1, <2>2, RespawnType
  <2> QED BY <1>1, <2>3 DEF Migrate, TypeOK
<1>2. ASSUME NEW p \in Procs, AckTimeout(p) PROVE TypeOK'
  <2>1. /\ state' \in [Procs -> State] /\ walState' \in [Procs -> State]
        /\ walLord' \in [Procs -> Lord]
    BY <1>2, UpdateStatesType DEF AckTimeout, State, Lord
  <2>2. timers' \in [Procs -> Nat] BY <1>2 DEF AckTimeout, TypeOK
  <2> QED BY <1>2, <2>1, <2>2 DEF AckTimeout, TypeOK
<1>3. CASE Crash
  <2>1. NoRecovery \in Recovery BY DEF NoRecovery, Recovery, Lord
  <2>2. rec' \in [LordIds -> Recovery] BY <1>3, <2>1 DEF Crash
  <2>3. /\ toLord' \in [LordIds -> Seq(Event)]
        /\ inflight' \in [LordIds -> Seq(Message)]
        /\ conn' \in [Hosts -> Lord]
    BY <1>3 DEF Crash, Hangup, TypeOK, Lord
  <2>4. state' \in [Procs -> State] /\ lord' \in [Procs -> Lord]
    BY <1>3 DEF Crash, State, Lord
  <2>5. /\ up' \in BOOLEAN /\ crashes' \in Nat /\ known' \in SUBSET Procs
        /\ restarts' \in [Procs -> Nat] /\ timers' \in [Procs -> Nat]
        /\ registered' \in SUBSET LordIds /\ sessions' \in SUBSET LordIds
    <3>1. /\ up' = FALSE /\ crashes' = crashes + 1 /\ known' = {}
          /\ restarts' = [p \in Procs |-> 0] /\ timers' = [p \in Procs |-> 0]
          /\ registered' = {} /\ sessions' = {}
      BY <1>3, Zenon DEF Crash
    <3>2. crashes \in Nat /\ registered \in SUBSET LordIds BY DEF TypeOK
    <3>3. up' \in BOOLEAN BY <3>1
    <3>4. crashes' \in Nat BY <3>1, <3>2
    <3>5. restarts' \in [Procs -> Nat] BY <3>1
    <3>6. timers' \in [Procs -> Nat] BY <3>1
    <3>7. /\ known' \in SUBSET Procs /\ registered' \in SUBSET LordIds
          /\ sessions' \in SUBSET LordIds
      BY <3>1
    <3> QED BY <3>3, <3>4, <3>5, <3>6, <3>7
  <2>6. UNCHANGED <<wal, nextId, host, copies, tracked, outbox>> BY <1>3 DEF Crash
  <2> QED BY <2>2, <2>3, <2>4, <2>5, <2>6 DEF TypeOK
<1>4. CASE Restart BY <1>4 DEF Restart, TypeOK
<1> QED BY <1>1, <1>2, <1>3, <1>4

LEMMA EndType ==
    ASSUME TypeOK, NEW h \in Hosts, NEW p \in Procs, NEW k \in {"exit", "signal"},
           copies[h][p] > 0, End(h, p, k)
    PROVE  /\ copies' \in [Hosts -> [Procs -> Nat]]
           /\ tracked' \in [Hosts -> SUBSET Procs]
           /\ outbox' \in [Hosts -> Seq(Message)]
<1>1. [copies[h] EXCEPT ![p] = @ - 1] \in [Procs -> Nat] BY DEF TypeOK
<1>2. copies' \in [Hosts -> [Procs -> Nat]] BY <1>1 DEF End, TypeOK
<1>3. tracked' \in [Hosts -> SUBSET Procs] BY DEF End, TypeOK
<1> QED BY <1>2, <1>3, ReportType DEF End

\* An agent that has an event is on a stream, and takes the stream's first.
LEMMA NextEventType ==
    ASSUME TypeOK, NEW h \in Hosts, NEW p \in Procs, NEW k, NextEvent(h, k, p)
    PROVE  toLord' \in [LordIds -> Seq(Event)] /\ conn[h] \in LordIds
<1>1. conn[h] \in LordIds BY DEF NextEvent, TypeOK, Lord
<1>2. toLord[conn[h]] \in Seq(Event) /\ toLord[conn[h]] # <<>>
  BY <1>1 DEF NextEvent, TypeOK
<1>3. Tail(toLord[conn[h]]) \in Seq(Event) BY <1>2
<1> QED BY <1>1, <1>3 DEF NextEvent, TypeOK

LEMMA AgentType ==
    ASSUME TypeOK, NEW h \in Hosts,
           \/ Connect(h) \/ LoseReport(h) \/ LordSend(h) \/ LordDisconnect(h) \/ LordCrash(h)
           \/ \E p \in Procs : HandleSpawn(h, p) \/ HandleKill(h, p) \/ ProcessExit(h, p)
    PROVE  TypeOK'
<1> USE DEF table, wal, registry, agents, streams
<1>1. outbox[h] \in Seq(Message) BY DEF TypeOK
<1>2. CASE Connect(h)
  <2>1. lord' \in [Procs -> Lord] BY <1>2 DEF Connect, FindByHostname, UpdateLordForHostname, TypeOK, Lord
  <2>2. /\ nextId' \in Nat \ {0} /\ host' \in [LordIds -> Hosts \cup {NoHost}]
        /\ registered' \in SUBSET LordIds /\ sessions' \in SUBSET LordIds
        /\ conn' \in [Hosts -> Lord]
    BY <1>2 DEF Connect, FindByHostname, UpdateLordForHostname, TypeOK, Lord
  <2> QED BY <1>2, <2>1, <2>2 DEF Connect, FindByHostname, UpdateLordForHostname, TypeOK
<1>3. CASE LoseReport(h)
  <2>1. Tail(outbox[h]) \in Seq(Message) BY <1>1, <1>3 DEF LoseReport
  <2>2. outbox' \in [Hosts -> Seq(Message)] BY <1>3, <2>1 DEF LoseReport, TypeOK
  <2> QED BY <1>3, <2>2 DEF LoseReport, TypeOK
<1>4. CASE LordSend(h)
  <2>1. conn[h] \in LordIds BY <1>4 DEF LordSend, TypeOK, Lord
  <2>2. outbox[h] # <<>> /\ inflight[conn[h]] \in Seq(Message)
    BY <1>4, <2>1 DEF LordSend, TypeOK
  <2>3. /\ Tail(outbox[h]) \in Seq(Message)
        /\ Append(inflight[conn[h]], Head(outbox[h])) \in Seq(Message)
    BY <1>1, <2>2
  <2>4. outbox' \in [Hosts -> Seq(Message)] /\ inflight' \in [LordIds -> Seq(Message)]
    BY <1>4, <2>3 DEF LordSend, TypeOK
  <2> QED BY <1>4, <2>4 DEF LordSend, TypeOK
<1>5. CASE LordDisconnect(h) BY <1>5 DEF LordDisconnect, TypeOK, Lord
<1>6. CASE LordCrash(h)
  <2>1. /\ conn' \in [Hosts -> Lord] /\ copies' \in [Hosts -> [Procs -> Nat]]
        /\ tracked' \in [Hosts -> SUBSET Procs] /\ outbox' \in [Hosts -> Seq(Message)]
    BY <1>6 DEF LordCrash, TypeOK, Lord
  <2> QED BY <1>6, <2>1 DEF LordCrash, TypeOK
<1>7. ASSUME NEW p \in Procs, HandleSpawn(h, p) PROVE TypeOK'
  <2>1. toLord' \in [LordIds -> Seq(Event)] BY <1>7, NextEventType DEF HandleSpawn
  <2>2. outbox' \in [Hosts -> Seq(Message)]
    <3>1. CASE UNCHANGED outbox BY <3>1 DEF TypeOK
    <3> QED BY <1>7, <3>1, ReportType DEF HandleSpawn
  <2>3. /\ copies' \in [Hosts -> [Procs -> Nat]]
        /\ tracked' \in [Hosts -> SUBSET Procs]
    <3>1. [copies[h] EXCEPT ![p] = @ + 1] \in [Procs -> Nat] BY DEF TypeOK
    <3>2. CASE UNCHANGED <<copies, tracked>> BY <3>2 DEF TypeOK
    <3>3. CASE /\ copies' = [copies EXCEPT ![h][p] = @ + 1]
               /\ tracked' = [tracked EXCEPT ![h] = @ \cup {p}]
      BY <3>1, <3>3 DEF TypeOK
    <3> QED BY <1>7, <3>2, <3>3 DEF HandleSpawn
  <2> QED BY <1>7, <2>1, <2>2, <2>3 DEF HandleSpawn, TypeOK
<1>8. ASSUME NEW p \in Procs, HandleKill(h, p) PROVE TypeOK'
  <2>1. toLord' \in [LordIds -> Seq(Event)] BY <1>8, NextEventType DEF HandleKill
  <2>2. /\ copies' \in [Hosts -> [Procs -> Nat]]
        /\ tracked' \in [Hosts -> SUBSET Procs]
        /\ outbox' \in [Hosts -> Seq(Message)]
    <3>1. CASE UNCHANGED <<copies, tracked, outbox>> BY <3>1 DEF TypeOK
    <3>2. CASE copies[h][p] > 0 /\ End(h, p, "signal") BY <3>2, EndType
    <3> QED BY <1>8, <3>1, <3>2 DEF HandleKill
  <2> QED BY <1>8, <2>1, <2>2 DEF HandleKill, TypeOK
<1>9. ASSUME NEW p \in Procs, ProcessExit(h, p) PROVE TypeOK'
  <2>1. /\ copies' \in [Hosts -> [Procs -> Nat]]
        /\ tracked' \in [Hosts -> SUBSET Procs]
        /\ outbox' \in [Hosts -> Seq(Message)]
    BY <1>9, EndType DEF ProcessExit
  <2> QED BY <1>9, <2>1 DEF ProcessExit, TypeOK
<1> QED BY <1>2, <1>3, <1>4, <1>5, <1>6, <1>7, <1>8, <1>9

LEMMA NextType == TypeOK /\ [Next]_vars => TypeOK'
<1> SUFFICES ASSUME TypeOK, [Next]_vars PROVE TypeOK' OBVIOUS
<1>1. CASE UNCHANGED vars
  BY <1>1 DEF vars, table, wal, registry, streams, agents, TypeOK
<1>2. ASSUME NEW p \in Procs, NEW l \in LordIds,
             Spawn(p, l) \/ Migrate(p, l) \/ RecoverRespawn(l, p)
      PROVE  TypeOK'
  BY <1>2, TenantType, OtherType, RecoverType
<1>3. ASSUME NEW p \in Procs, Kill(p) \/ AckTimeout(p) PROVE TypeOK'
  <2>1. CASE AckTimeout(p) BY <2>1, OtherType
  <2>2. CASE Kill(p)
    <3>1. lord[p] \in LordIds BY <2>2 DEF Kill, CanSend, TypeOK
    <3> QED BY <2>2, <3>1, TenantType
  <2> QED BY <1>3, <2>1, <2>2
<1>4. ASSUME NEW l \in LordIds,
             \/ RecvCmd(l) \/ SessionEnd(l) \/ SendTimeout(l)
             \/ RecoverList(l) \/ RecoverPick(l) \/ RecoverExhausted(l) \/ RecoverSweep(l)
      PROVE  TypeOK'
  BY <1>4, StreamType, RecoverType
<1>5. ASSUME NEW h \in Hosts,
             \/ Connect(h) \/ LoseReport(h) \/ LordSend(h)
             \/ LordDisconnect(h) \/ LordCrash(h)
             \/ \E p \in Procs : HandleSpawn(h, p) \/ HandleKill(h, p) \/ ProcessExit(h, p)
      PROVE  TypeOK'
  BY <1>5, AgentType
<1>6. CASE Crash \/ Restart BY <1>6, OtherType
<1> QED BY <1>1, <1>2, <1>3, <1>4, <1>5, <1>6 DEF Next

(* What the steps do to the table, as the invariants need it. *)

\* Steps of lords and of the network, and Kill, touch no state of a process.
Quiet == UNCHANGED <<up, table, wal, registry, timers, rec>>

LEMMA QuietSteps ==
    ASSUME \/ UNCHANGED vars
           \/ \E p \in Procs : Kill(p)
           \/ \E l \in LordIds : SendTimeout(l)
           \/ \E h \in Hosts :
                 \/ LoseReport(h) \/ LordSend(h) \/ LordDisconnect(h) \/ LordCrash(h)
                 \/ \E p \in Procs : HandleSpawn(h, p) \/ HandleKill(h, p) \/ ProcessExit(h, p)
    PROVE  Quiet
<1> USE DEF Quiet
<1>1. CASE UNCHANGED vars BY <1>1 DEF vars
<1>2. ASSUME NEW p \in Procs, Kill(p) PROVE Quiet BY <1>2 DEF Kill
<1>3. ASSUME NEW l \in LordIds, SendTimeout(l) PROVE Quiet BY <1>3 DEF SendTimeout
<1>4. ASSUME NEW h \in Hosts, LoseReport(h) \/ LordSend(h) \/ LordDisconnect(h) \/ LordCrash(h)
      PROVE  Quiet
  BY <1>4 DEF LoseReport, LordSend, LordDisconnect, LordCrash
<1>5. ASSUME NEW h \in Hosts, NEW p \in Procs,
             HandleSpawn(h, p) \/ HandleKill(h, p) \/ ProcessExit(h, p)
      PROVE  Quiet
  BY <1>5 DEF HandleSpawn, HandleKill, ProcessExit
<1> QED BY <1>1, <1>2, <1>3, <1>4, <1>5

\* A respawned process is not up: it is final, or RESTARTING with a timer.
LEMMA RespawnEffect ==
    ASSUME TypeOK, NEW p \in Procs, NEW t \in Lord, NEW nil \in BOOLEAN,
           Respawn(p, t, nil)
    PROVE  /\ UNCHANGED <<known, walKnown, walLord>>
           /\ \A q \in Procs \ {p} : /\ state'[q] = state[q]
                                     /\ lord'[q] = lord[q]
                                     /\ timers'[q] = timers[q]
           /\ state'[p] \in Final \cup {"RESTARTING"}
           /\ state'[p] = "RESTARTING" => timers'[p] > 0
           /\ lord'[p] \in {lord[p], t}
           /\ \A q \in Procs : state[q] = walState[q] => state'[q] = walState'[q]
<1> USE DEF table, wal
<1>1. CASE state[p] \in Final /\ UNCHANGED <<table, wal, timers, toLord>>
  BY <1>1 DEF Final
<1>2. CASE /\ UpdateStates({p}, "STOPPED", NoLord)
           /\ UNCHANGED <<known, walKnown, lord, restarts, timers, toLord>>
  BY <1>2 DEF UpdateStates, AppendState, TypeOK, Final
<1>3. CASE /\ lord' = [lord EXCEPT ![p] = t]
           /\ UpdateStates({p}, "RESTARTING", NoLord)
           /\ timers' = [timers EXCEPT ![p] = @ + 1]
           /\ UNCHANGED <<known, walKnown>>
  BY <1>3 DEF UpdateStates, AppendState, TypeOK, Final
<1>4. CASE /\ lord' = [lord EXCEPT ![p] = t]
           /\ UpdateStates({p}, "STOPPED", NoLord)
           /\ UNCHANGED <<timers, known, walKnown>>
  BY <1>4 DEF UpdateStates, AppendState, TypeOK, Final
<1> QED BY <1>1, <1>2, <1>3, <1>4 DEF Respawn

\* A report ends a process, or has it RUNNING on the lord that sent it.
LEMMA RecvEffect ==
    ASSUME TypeOK, NEW l \in LordIds, RecvCmd(l)
    PROVE  /\ l \in sessions
           /\ UNCHANGED <<up, known, walKnown, registry, timers, rec>>
           /\ \A p \in Procs :
                 /\ \/ state'[p] = state[p] /\ lord'[p] = lord[p]
                    \/ state'[p] = "RUNNING" /\ lord'[p] = l
                    \/ state'[p] \in Final /\ lord'[p] = lord[p]
                 /\ walLord'[p] \in {walLord[p], l}
                 /\ state[p] = walState[p] => state'[p] = walState'[p]
<1> DEFINE m == Head(inflight[l])
<1>1. m.kind \in {"started", "exit", "signal"}
  <2>1. inflight[l] \in Seq(Message) /\ inflight[l] # <<>> BY DEF RecvCmd, TypeOK
  <2>2. m \in Message BY <2>1
  <2> QED BY <2>2 DEF Message
<1>2. /\ UpdateStates({m.proc} \cap known, StateAfter(m.kind),
                      IF m.kind = "started" THEN l ELSE NoLord)
      /\ lord' = IF m.kind = "started" /\ m.proc \in known
                 THEN [lord EXCEPT ![m.proc] = l] ELSE lord
      /\ l \in sessions
      /\ UNCHANGED <<up, known, walKnown, registry, timers, rec>>
  BY DEF RecvCmd
<1> HIDE DEF m
<1>3. CASE m.kind = "started"
  <2>1. StateAfter(m.kind) = "RUNNING" BY <1>3 DEF StateAfter
  <2> QED BY <1>2, <1>3, <2>1 DEF UpdateStates, AppendState, TypeOK
<1>4. CASE m.kind # "started"
  <2>1. StateAfter(m.kind) \in Final
    <3>1. CASE m.kind = "exit" BY <3>1 DEF StateAfter, Final
    <3>2. CASE m.kind = "signal" BY <3>2 DEF StateAfter, Final
    <3> QED BY <1>1, <1>4, <3>1, <3>2
  <2> QED BY <1>2, <1>4, <2>1 DEF UpdateStates, AppendState, TypeOK
<1> QED BY <1>3, <1>4

(* The scheduler's part of the invariant, action by action. *)

LEMMA QuietScheduler ==
    ASSUME TypeOK, Scheduler, Quiet
    PROVE  Scheduler'
<1> USE DEF Quiet, table, wal, registry
<1>1. Ids' BY DEF Scheduler, Ids
<1>2. Down' BY DEF Scheduler, Down
<1>3. Recoveries' BY DEF Scheduler, Recoveries
<1>4. ReplayState' BY DEF Scheduler, ReplayState
<1>5. RestartingTimed' BY DEF Scheduler, RestartingTimed
<1>6. NoForgottenProcess' BY DEF Scheduler, NoForgottenProcess
<1> QED BY <1>1, <1>2, <1>3, <1>4, <1>5, <1>6 DEF Scheduler

LEMMA SpawnScheduler ==
    ASSUME Inv, NEW p \in Procs, NEW l \in LordIds, Spawn(p, l)
    PROVE  Scheduler'
<1>1. /\ up /\ p \notin known /\ l \in sessions
      /\ known' = known \cup {p}
      /\ lord' = [lord EXCEPT ![p] = l] /\ walLord' = [walLord EXCEPT ![p] = l]
      /\ UNCHANGED <<up, registered, sessions, nextId, timers, rec>>
  BY DEF Spawn, Inv, KnownEverywhere, registry
<1>2. \E st \in {"READY", "STOPPED"} : /\ state' = [state EXCEPT ![p] = st]
                                      /\ walState' = [walState EXCEPT ![p] = st]
  BY DEF Spawn
<1>3. Ids' BY <1>1 DEF Inv, TypeOK, Scheduler, Ids
<1>4. Down' BY <1>1 DEF Inv, Scheduler, Down
<1>5. Recoveries' BY <1>1, <1>2 DEF Inv, TypeOK, Scheduler, Recoveries, Recoverable
<1>6. ReplayState' BY <1>1, <1>2 DEF Inv, TypeOK, Scheduler, ReplayState
<1>7. RestartingTimed' BY <1>1, <1>2 DEF Inv, TypeOK, Scheduler, RestartingTimed
<1>8. NoForgottenProcess'
  BY <1>1, <1>2 DEF Inv, TypeOK, Scheduler, NoForgottenProcess, Recoverable
<1> QED BY <1>3, <1>4, <1>5, <1>6, <1>7, <1>8 DEF Scheduler

\* The re-bind moves entries to an id that was never given out, and only from
\* an id that is registered.
LEMMA ConnectScheduler ==
    ASSUME Inv, NEW h \in Hosts, Connect(h)
    PROVE  Scheduler'
<1>1. /\ up /\ nextId \in LordIds /\ nextId' = nextId + 1
      /\ registered' = registered \cup {nextId}
      /\ sessions' = sessions \cup {nextId}
      /\ UNCHANGED <<up, known, state, walKnown, walState, walLord, timers, rec>>
  BY DEF Connect, FindByHostname, UpdateLordForHostname, wal
<1>2. PICK old \in {l \in registered : host[l] = h} \cup {nextId} :
         lord' = [p \in Procs |-> IF lord[p] = old THEN nextId ELSE lord[p]]
  BY DEF Connect, FindByHostname, UpdateLordForHostname
<1>3. nextId \notin registered /\ nextId \in Nat BY DEF Inv, TypeOK, Scheduler, Ids
<1>4. \A p \in Procs : \/ lord'[p] = nextId /\ lord[p] \in registered
                       \/ lord'[p] = lord[p] /\ lord[p] # nextId
  BY <1>2, <1>3 DEF Inv, TypeOK, Scheduler, Ids, Lord
<1>5. Ids'
  <2>1. \A l \in registered : l \in Int /\ l < nextId
    BY ClusterAssumption DEF Inv, TypeOK, Scheduler, Ids, LordIds, ClusterAssumption
  <2>4. \A l \in registered' : l < nextId' BY ONLY <1>1, <1>3, <2>1, SMT
  <2>2. sessions' \subseteq registered' BY <1>1 DEF Inv, Scheduler, Ids
  <2>3. \A p \in Procs : lord'[p] < nextId' /\ walLord'[p] < nextId'
    <3>1. \A p \in Procs : lord[p] \in Int /\ walLord[p] \in Int
      BY ClusterAssumption DEF Inv, TypeOK, Lord, LordIds, NoLord, ClusterAssumption
    <3>2. \A p \in Procs : lord[p] < nextId /\ walLord[p] < nextId
      BY DEF Inv, Scheduler, Ids
    <3> QED BY <1>1, <1>3, <1>4, <3>1, <3>2, SMT
  <2> QED BY <2>2, <2>3, <2>4 DEF Ids
<1>6. Down' BY <1>1 DEF Down
<1>7. Recoveries'
  <2> SUFFICES ASSUME NEW l \in LordIds
               PROVE  /\ rec[l].pc # "off" => l \in registered' \ sessions'
                      /\ rec[l].cand \subseteq known
                      /\ rec[l].target < nextId'
                      /\ rec[l].pc = "pass" =>
                            /\ rec[l].left \subseteq rec[l].cand
                            /\ \A p \in rec[l].cand \ rec[l].left :
                                  ~(lord'[p] = l /\ state[p] \in Recoverable)
    BY <1>1 DEF Recoveries
  <2>1. rec[l].pc # "off" => l # nextId BY <1>3 DEF Inv, Scheduler, Recoveries
  <2>2. known \subseteq Procs BY DEF Inv, TypeOK
  <2>3. rec[l].target \in Lord BY DEF Inv, TypeOK, Recovery
  <2>4. rec[l].target < nextId' BY <1>1, <1>3, <2>3, ClusterAssumption
    DEF Inv, Scheduler, Recoveries, Lord, LordIds, NoLord, ClusterAssumption
  <2> QED BY <1>1, <1>4, <2>1, <2>2, <2>4 DEF Inv, Scheduler, Recoveries
<1>8. ReplayState' BY <1>1 DEF Inv, Scheduler, ReplayState
<1>9. RestartingTimed' BY <1>1, <1>4 DEF Inv, Scheduler, RestartingTimed
<1>10. NoForgottenProcess'
  <2>1. known \subseteq Procs BY DEF Inv, TypeOK
  <2> QED BY <1>1, <1>4, <2>1 DEF Inv, Scheduler, NoForgottenProcess
<1> QED BY <1>5, <1>6, <1>7, <1>8, <1>9, <1>10 DEF Scheduler

LEMMA RecvScheduler ==
    ASSUME Inv, NEW l \in LordIds, RecvCmd(l)
    PROVE  Scheduler'
<1>1. TypeOK BY DEF Inv
<1>2. /\ l \in sessions
      /\ UNCHANGED <<up, known, walKnown, registry, timers, rec>>
      /\ \A p \in Procs :
            /\ \/ state'[p] = state[p] /\ lord'[p] = lord[p]
               \/ state'[p] = "RUNNING" /\ lord'[p] = l
               \/ state'[p] \in Final /\ lord'[p] = lord[p]
            /\ walLord'[p] \in {walLord[p], l}
            /\ state[p] = walState[p] => state'[p] = walState'[p]
  BY <1>1, RecvEffect
<1>3. known \subseteq Procs /\ l \in registered BY <1>2 DEF Inv, TypeOK, Scheduler, Ids
<1> USE DEF registry
<1>4. Ids' BY <1>2, <1>3 DEF Inv, Scheduler, Ids
<1>5. Down' BY <1>2 DEF Inv, Scheduler, Down
<1>6. Recoveries'
  BY <1>2, <1>3 DEF Inv, Scheduler, Recoveries, Recoverable, Final
<1>7. ReplayState' BY <1>2, <1>3 DEF Inv, Scheduler, ReplayState
<1>8. RestartingTimed' BY <1>2 DEF Inv, Scheduler, RestartingTimed, Final
<1>9. NoForgottenProcess'
  BY <1>2, <1>3 DEF Inv, Scheduler, NoForgottenProcess, Recoverable, Final
<1> QED BY <1>4, <1>5, <1>6, <1>7, <1>8, <1>9 DEF Scheduler

LEMMA SessionEndScheduler ==
    ASSUME Inv, NEW l \in LordIds, SessionEnd(l)
    PROVE  Scheduler'
<1>1. /\ l \in sessions /\ sessions' = sessions \ {l}
      /\ rec' = [rec EXCEPT ![l].pc = "list"]
      /\ UNCHANGED <<up, table, wal, nextId, registered, timers>>
  BY DEF SessionEnd
<1>2. rec \in [LordIds -> Recovery] /\ sessions \subseteq registered
  BY DEF Inv, TypeOK, Scheduler, Ids
<1>3. \A k \in LordIds : /\ rec'[k].cand = rec[k].cand
                         /\ k # l => rec'[k] = rec[k]
                         /\ rec'[l].pc = "list"
  BY <1>1, <1>2 DEF Recovery
<1> USE DEF table, wal
<1>4. Ids' BY <1>1 DEF Inv, Scheduler, Ids
<1>5. Down' BY <1>1 DEF Inv, Scheduler, Down
<1>6. Recoveries' BY <1>1, <1>2, <1>3 DEF Inv, Scheduler, Recoveries
<1>7. ReplayState' BY <1>1 DEF Inv, Scheduler, ReplayState
<1>8. RestartingTimed' BY <1>1 DEF Inv, Scheduler, RestartingTimed
<1>9. NoForgottenProcess'
  <2>1. registered \subseteq LordIds BY DEF Inv, TypeOK
  <2>2. NoForgottenProcess BY DEF Inv, Scheduler
  <2> QED BY <1>1, <1>3, <2>1, <2>2 DEF NoForgottenProcess
<1> QED BY <1>4, <1>5, <1>6, <1>7, <1>8, <1>9 DEF Scheduler

LEMMA RecoverListScheduler ==
    ASSUME Inv, NEW l \in LordIds, RecoverList(l)
    PROVE  Scheduler'
<1>1. /\ rec[l].pc = "list"
      /\ rec' = [rec EXCEPT ![l].pc = IF Candidates(l) = {} THEN "done" ELSE "pick",
                            ![l].cand = Candidates(l)]
      /\ UNCHANGED <<up, table, wal, registry, timers>>
  BY DEF RecoverList
<1>2. rec \in [LordIds -> Recovery] /\ registered \subseteq LordIds BY DEF Inv, TypeOK
<1>3. \A k \in LordIds : k # l => rec'[k] = rec[k] BY <1>1, <1>2
<1>4. /\ rec'[l].cand = Candidates(l) /\ rec'[l].target = rec[l].target
      /\ rec'[l].pc = IF Candidates(l) = {} THEN "done" ELSE "pick"
  BY <1>1, <1>2 DEF Recovery
<1> USE DEF table, wal, registry
<1>5. Ids' BY <1>1 DEF Inv, Scheduler, Ids
<1>6. Down' BY <1>1 DEF Inv, Scheduler, Down
<1>7. Recoveries'
  <2>1. Candidates(l) \subseteq known BY DEF Candidates
  <2>2. rec'[l].pc \in {"done", "pick"} BY <1>4
  <2> QED BY <1>1, <1>3, <1>4, <2>1, <2>2 DEF Inv, Scheduler, Recoveries
<1>8. ReplayState' BY <1>1 DEF Inv, Scheduler, ReplayState
<1>9. RestartingTimed' BY <1>1 DEF Inv, Scheduler, RestartingTimed
<1>10. NoForgottenProcess'
  <2>1. NoForgottenProcess BY DEF Inv, Scheduler
  <2> QED BY <1>1, <1>2, <1>3, <1>4, <2>1 DEF NoForgottenProcess, Candidates
<1> QED BY <1>5, <1>6, <1>7, <1>8, <1>9, <1>10 DEF Scheduler

\* An attempt starts a pass over all candidates, or ends without one.
LEMMA RecoverPickScheduler ==
    ASSUME Inv, NEW l \in LordIds, RecoverPick(l) \/ RecoverExhausted(l)
    PROVE  Scheduler'
<1>1. rec[l].pc = "pick" /\ UNCHANGED <<up, table, wal, registry, timers>>
  BY DEF RecoverPick, RecoverExhausted
<1>2. rec \in [LordIds -> Recovery] /\ registered \subseteq LordIds BY DEF Inv, TypeOK
<1>3. /\ \A k \in LordIds : k # l => rec'[k] = rec[k]
      /\ rec'[l].cand = rec[l].cand
      /\ rec'[l].target \in {rec[l].target} \cup sessions
      /\ \/ rec'[l].pc = "pass" /\ rec'[l].left = rec'[l].cand
         \/ rec'[l].pc = "pick"
         \/ rec'[l].pc = "sweep" /\ ~rec'[l].ok
  <2>1. ASSUME NEW t \in sessions,
               rec' = [rec EXCEPT ![l] =
                          [pc |-> "pass", cand |-> @.cand, left |-> @.cand, target |-> t,
                           ok |-> FALSE, attempt |-> @.attempt + 1]]
        PROVE  <1>3!1 /\ <1>3!2 /\ <1>3!3
               /\ rec'[l].pc = "pass" /\ rec'[l].left = rec'[l].cand
    BY <1>2, <2>1
  <2>2. ASSUME rec' = [rec EXCEPT ![l].attempt = @ + 1]
        PROVE  <1>3!1 /\ <1>3!2 /\ <1>3!3 /\ rec'[l].pc = "pick"
    BY <1>1, <1>2, <2>2 DEF Recovery
  <2>3. ASSUME rec' = [rec EXCEPT ![l].pc = "sweep", ![l].ok = FALSE]
        PROVE  <1>3!1 /\ <1>3!2 /\ <1>3!3
               /\ rec'[l].pc = "sweep" /\ ~rec'[l].ok
    BY <1>2, <2>3 DEF Recovery
  <2> QED BY <2>1, <2>2, <2>3 DEF RecoverPick, RecoverExhausted
<1> USE DEF table, wal, registry
<1>4. Ids' BY <1>1 DEF Inv, Scheduler, Ids
<1>5. Down' BY <1>1 DEF Inv, Scheduler, Down
<1>6. Recoveries'
  <2>1. rec'[l].target < nextId BY <1>3 DEF Inv, Scheduler, Ids, Recoveries
  <2> QED BY <1>1, <1>3, <2>1 DEF Inv, Scheduler, Recoveries
<1>7. ReplayState' BY <1>1 DEF Inv, Scheduler, ReplayState
<1>8. RestartingTimed' BY <1>1 DEF Inv, Scheduler, RestartingTimed
<1>9. NoForgottenProcess'
  <2>1. NoForgottenProcess BY DEF Inv, Scheduler
  <2> QED BY <1>1, <1>2, <1>3, <2>1 DEF NoForgottenProcess
<1> QED BY <1>4, <1>5, <1>6, <1>7, <1>8, <1>9 DEF Scheduler

\* The process the pass turns to is not up afterwards, so that at the end of
\* the pass no candidate is still up on the dead lord.
LEMMA RecoverRespawnScheduler ==
    ASSUME Inv, NEW l \in LordIds, NEW p \in Procs, RecoverRespawn(l, p)
    PROVE  Scheduler'
<1>1. /\ rec[l].pc = "pass" /\ p \in rec[l].left
      /\ UNCHANGED <<up, registry>>
  BY DEF RecoverRespawn
<1>2. PICK nil \in BOOLEAN :
         /\ Respawn(p, rec[l].target, nil)
         /\ LET ok == rec[l].ok \/ nil
                last == rec[l].left = {p}
            IN rec' = [rec EXCEPT ![l].left = @ \ {p}, ![l].ok = ok,
                                  ![l].pc = IF ~last THEN "pass"
                                            ELSE IF ok THEN "sweep" ELSE "pick"]
  BY DEF RecoverRespawn
<1>3. /\ rec \in [LordIds -> Recovery] /\ registered \subseteq LordIds
      /\ known \subseteq Procs
      /\ TypeOK
  BY DEF Inv, TypeOK
<1>4. rec[l].target \in Lord BY <1>3 DEF Recovery
<1>5. /\ UNCHANGED <<known, walKnown, walLord>>
      /\ \A q \in Procs \ {p} : /\ state'[q] = state[q]
                                /\ lord'[q] = lord[q]
                                /\ timers'[q] = timers[q]
      /\ state'[p] \in Final \cup {"RESTARTING"}
      /\ state'[p] = "RESTARTING" => timers'[p] > 0
      /\ lord'[p] \in {lord[p], rec[l].target}
      /\ \A q \in Procs : state[q] = walState[q] => state'[q] = walState'[q]
  BY <1>2, <1>3, <1>4, RespawnEffect
<1>6. /\ \A k \in LordIds : k # l => rec'[k] = rec[k]
      /\ rec'[l].cand = rec[l].cand /\ rec'[l].target = rec[l].target
      /\ rec'[l].left = rec[l].left \ {p}
      /\ rec'[l].pc = "pass" \/ rec[l].left = {p}
      /\ rec'[l].pc \in {"pass", "pick", "sweep"}
  BY <1>2, <1>3 DEF Recovery
<1> USE DEF registry
<1>7. Ids' BY <1>1, <1>5 DEF Inv, Scheduler, Ids, Recoveries
<1>8. Down' BY <1>1, <1>5 DEF Inv, Scheduler, Down
<1>9. Recoveries'
  BY <1>1, <1>3, <1>5, <1>6 DEF Inv, Scheduler, Recoveries, Recoverable, Final
<1>10. ReplayState' BY <1>1, <1>3, <1>5 DEF Inv, Scheduler, ReplayState
<1>11. RestartingTimed' BY <1>1, <1>5 DEF Inv, Scheduler, RestartingTimed
<1>12. NoForgottenProcess'
  <2> SUFFICES ASSUME NEW q \in known, state'[q] \in Recoverable,
                      lord'[q] \in registered \ sessions
               PROVE  \/ rec'[lord'[q]].pc = "list"
                      \/ /\ q \in rec'[lord'[q]].cand
                         /\ rec'[lord'[q]].pc \in {"pick", "pass"} \/ ~rec'[lord'[q]].ok
    BY <1>1, <1>5 DEF NoForgottenProcess
  <2>1. q # p BY <1>5 DEF Recoverable, Final
  <2>2. state'[q] = state[q] /\ lord'[q] = lord[q] BY <1>3, <1>5, <2>1
  <2>3. \/ rec[lord[q]].pc = "list"
        \/ /\ q \in rec[lord[q]].cand
           /\ rec[lord[q]].pc \in {"pick", "pass"} \/ ~rec[lord[q]].ok
    BY <2>2 DEF Inv, Scheduler, NoForgottenProcess
  <2>4. CASE lord[q] # l BY <1>3, <1>6, <2>2, <2>3, <2>4
  <2>5. CASE lord[q] = l
    <3>1. q \in rec[l].cand BY <1>1, <2>3, <2>5
    <3>2. q \in rec[l].left BY <1>1, <2>2, <2>5, <3>1 DEF Inv, Scheduler, Recoveries
    <3>3. rec'[l].pc = "pass" BY <1>6, <2>1, <3>2
    <3> QED BY <1>6, <2>2, <2>5, <3>1, <3>3
  <2> QED BY <2>4, <2>5
<1> QED BY <1>7, <1>8, <1>9, <1>10, <1>11, <1>12 DEF Scheduler

\* A set of processes is stopped, by a sweep or an ack timer; timers of others
\* are left alone.
LEMMA StoppedScheduler ==
    ASSUME Inv, NEW P, UpdateStates(P, "STOPPED", NoLord),
           UNCHANGED <<up, known, lord, registry>>,
           \A q \in Procs \ P : timers'[q] = timers[q],
           \A k \in LordIds :
              /\ rec'[k].cand = rec[k].cand /\ rec'[k].target < nextId
              /\ \/ rec'[k] = rec[k]
                 \/ rec[k].pc = "sweep" /\ rec'[k].pc = "done" /\ rec'[k].ok = rec[k].ok
    PROVE  Scheduler'
<1>1. \A q \in Procs : \/ state'[q] = state[q] /\ timers'[q] = timers[q]
                       \/ state'[q] = "STOPPED"
  BY DEF UpdateStates, AppendState, Inv, TypeOK
<1>2. /\ \A q \in Procs : state[q] = walState[q] => state'[q] = walState'[q]
      /\ \A q \in Procs : walLord'[q] = walLord[q]
  BY DEF UpdateStates, AppendState, Inv, TypeOK
<1>3. known \subseteq Procs /\ registered \subseteq LordIds BY DEF Inv, TypeOK
<1> USE DEF registry
<1>4. Ids' BY <1>2 DEF Inv, Scheduler, Ids
<1>5. Down' BY DEF Inv, Scheduler, Down
<1>6. Recoveries'
  BY <1>1, <1>3 DEF Inv, Scheduler, Recoveries, Recoverable
<1>7. ReplayState' BY <1>2, <1>3 DEF Inv, Scheduler, ReplayState
<1>8. RestartingTimed' BY <1>1 DEF Inv, Scheduler, RestartingTimed
<1>9. NoForgottenProcess'
  <2>1. NoForgottenProcess BY DEF Inv, Scheduler
  <2> QED BY <1>1, <1>3, <2>1 DEF NoForgottenProcess, Recoverable
<1> QED BY <1>4, <1>5, <1>6, <1>7, <1>8, <1>9 DEF Scheduler

LEMMA SweepScheduler ==
    ASSUME Inv, NEW l \in LordIds, RecoverSweep(l)
    PROVE  Scheduler'
<1>1. rec \in [LordIds -> Recovery] BY DEF Inv, TypeOK
<1>2. rec[l].pc = "sweep" /\ rec' = [rec EXCEPT ![l].pc = "done", ![l].target = NoLord]
  BY DEF RecoverSweep
<1>3. NoLord < nextId BY DEF Inv, TypeOK, NoLord
<1>4. \A k \in LordIds :
         /\ rec'[k].cand = rec[k].cand /\ rec'[k].target < nextId
         /\ \/ rec'[k] = rec[k]
            \/ rec[k].pc = "sweep" /\ rec'[k].pc = "done" /\ rec'[k].ok = rec[k].ok
  BY <1>1, <1>2, <1>3 DEF Recovery, Inv, Scheduler, Recoveries
<1> QED BY <1>4, StoppedScheduler DEF RecoverSweep

LEMMA AckTimeoutScheduler ==
    ASSUME Inv, NEW p \in Procs, AckTimeout(p)
    PROVE  Scheduler'
<1> DEFINE P == {p} \cap {q \in Procs : state[q] = "RESTARTING"}
<1>1. /\ UpdateStates(P, "STOPPED", NoLord)
      /\ UNCHANGED <<up, known, walKnown, lord, registry, rec>>
      /\ timers' = [timers EXCEPT ![p] = @ - 1]
  BY DEF AckTimeout
<1>2. CASE state[p] = "RESTARTING"
  <2>1. \A q \in Procs \ P : timers'[q] = timers[q] BY <1>1, <1>2 DEF Inv, TypeOK
  <2> QED BY <1>1, <2>1, StoppedScheduler DEF Inv, Scheduler, Recoveries
<1>3. CASE state[p] # "RESTARTING"
  <2>1. P = {} BY <1>3
  <2>2. state' = state /\ walState' = walState /\ walLord' = walLord
    BY <1>1, <2>1 DEF UpdateStates, AppendState, Inv, TypeOK
  <2>3. \A q \in Procs : state[q] = "RESTARTING" => timers'[q] = timers[q]
    BY <1>1, <1>3 DEF Inv, TypeOK
  <2> USE DEF registry
  <2>4. Ids' BY <1>1, <2>2 DEF Inv, Scheduler, Ids
  <2>5. Down' BY <1>1 DEF Inv, Scheduler, Down
  <2>6. Recoveries' BY <1>1, <2>2 DEF Inv, Scheduler, Recoveries
  <2>7. ReplayState' BY <1>1, <2>2 DEF Inv, Scheduler, ReplayState
  <2>8. RestartingTimed' BY <1>1, <2>2, <2>3 DEF Inv, Scheduler, RestartingTimed
  <2>9. NoForgottenProcess' BY <1>1, <2>2 DEF Inv, Scheduler, NoForgottenProcess
  <2> QED BY <2>4, <2>5, <2>6, <2>7, <2>8, <2>9 DEF Scheduler
<1> QED BY <1>2, <1>3

LEMMA MigrateScheduler ==
    ASSUME Inv, NEW p \in Procs, NEW t \in LordIds, Migrate(p, t)
    PROVE  Scheduler'
<1>1. t \in registered /\ UNCHANGED <<up, registry, rec>> BY DEF Migrate
<1>2. known \subseteq Procs /\ TypeOK BY DEF Inv, TypeOK
<1>3. /\ UNCHANGED <<known, walKnown, walLord>>
      /\ \A q \in Procs \ {p} : /\ state'[q] = state[q]
                                /\ lord'[q] = lord[q]
                                /\ timers'[q] = timers[q]
      /\ state'[p] \in Final \cup {"RESTARTING"}
      /\ state'[p] = "RESTARTING" => timers'[p] > 0
      /\ lord'[p] \in {lord[p], t}
      /\ \A q \in Procs : state[q] = walState[q] => state'[q] = walState'[q]
  <2>1. PICK nil \in BOOLEAN : Respawn(p, t, nil) BY DEF Migrate
  <2>2. t \in Lord BY DEF Lord
  <2> QED BY <1>2, <2>1, <2>2, RespawnEffect
<1> USE DEF registry
<1>4. Ids' BY <1>1, <1>3 DEF Inv, Scheduler, Ids
<1>5. Down' BY <1>1, <1>3 DEF Inv, Scheduler, Down
<1>6. Recoveries'
  BY <1>1, <1>2, <1>3 DEF Inv, Scheduler, Recoveries, Recoverable, Final
<1>7. ReplayState' BY <1>1, <1>2, <1>3 DEF Inv, Scheduler, ReplayState
<1>8. RestartingTimed' BY <1>1, <1>3 DEF Inv, Scheduler, RestartingTimed
<1>9. NoForgottenProcess'
  BY <1>1, <1>2, <1>3 DEF Inv, Scheduler, NoForgottenProcess, Recoverable, Final
<1> QED BY <1>4, <1>5, <1>6, <1>7, <1>8, <1>9 DEF Scheduler

\* After a crash, and after the replay, no lord is registered.
LEMMA CrashScheduler ==
    ASSUME Inv, Crash \/ Restart
    PROVE  Scheduler'
<1>1. CASE Crash
  <2>1. /\ up' = FALSE /\ known' = {} /\ registered' = {} /\ sessions' = {}
        /\ lord' = [p \in Procs |-> NoLord]
        /\ rec' = [l \in LordIds |-> NoRecovery]
        /\ UNCHANGED <<walLord, nextId>>
    BY <1>1 DEF Crash, wal
  <2>2. NoLord < nextId BY DEF Inv, TypeOK, NoLord
  <2>3. Ids' BY <2>1, <2>2 DEF Inv, Scheduler, Ids
  <2>4. Recoveries' BY <2>1, <2>2 DEF Recoveries, NoRecovery
  <2> QED BY <2>1, <2>3, <2>4
      DEF Scheduler, Down, ReplayState, RestartingTimed, NoForgottenProcess
<1>2. CASE Restart
  <2>1. /\ ~up /\ up' = TRUE
        /\ known' = walKnown /\ state' = walState /\ lord' = walLord
        /\ UNCHANGED <<walState, walLord, nextId, registered, sessions, rec>>
    BY <1>2 DEF Restart, wal, registry
  <2>2. registered = {} /\ sessions = {} /\ known = {}
    BY <2>1 DEF Inv, Scheduler, Ids, Down
  <2>3. Ids' BY <2>1, <2>2 DEF Inv, Scheduler, Ids
  <2>4. Recoveries' BY <2>1, <2>2 DEF Inv, Scheduler, Recoveries
  <2> QED BY <2>1, <2>2, <2>3, <2>4
      DEF Scheduler, Down, ReplayState, RestartingTimed, NoForgottenProcess
<1> QED BY <1>1, <1>2

(* What is known everywhere.  A queue is about processes of K if it is a       *)
(* sequence over the elements that are.                                        *)

About(T, K) == {e \in T : e.proc \in K}

LEMMA AboutSeq ==
    ASSUME NEW T, NEW K, NEW s \in Seq(T)
    PROVE  s \in Seq(About(T, K)) <=> \A i \in DOMAIN s : s[i].proc \in K
<1>1. DOMAIN s = 1..Len(s) /\ Len(s) \in Nat /\ \A i \in 1..Len(s) : s[i] \in T
  BY ElementOfSeq
<1>2. ASSUME s \in Seq(About(T, K)), NEW i \in DOMAIN s PROVE s[i].proc \in K
  <2>1. s[i] \in About(T, K) BY <1>1, <1>2, ElementOfSeq
  <2> QED BY <2>1 DEF About
<1>3. ASSUME \A i \in DOMAIN s : s[i].proc \in K PROVE s \in Seq(About(T, K))
  <2>1. \A i \in 1..Len(s) : s[i] \in About(T, K) BY <1>1, <1>3 DEF About
  <2>2. s = [i \in 1..Len(s) |-> s[i]] BY <1>1
  <2> QED BY <1>1, <2>1, <2>2
<1> QED BY <1>2, <1>3

LEMMA AppendAbout ==
    ASSUME NEW T, NEW s \in Seq(T), NEW e \in T, NEW K, e.proc \in K,
           \A i \in DOMAIN s : s[i].proc \in K
    PROVE  \A i \in DOMAIN Append(s, e) : Append(s, e)[i].proc \in K
<1>1. s \in Seq(About(T, K)) /\ e \in About(T, K) BY AboutSeq DEF About
<1>2. Append(s, e) \in Seq(About(T, K)) /\ Append(s, e) \in Seq(T) BY <1>1
<1> QED BY <1>2, AboutSeq

LEMMA TailAbout ==
    ASSUME NEW T, NEW s \in Seq(T), s # <<>>, NEW K,
           \A i \in DOMAIN s : s[i].proc \in K
    PROVE  /\ Head(s).proc \in K
           /\ \A i \in DOMAIN Tail(s) : Tail(s)[i].proc \in K
<1>1. s \in Seq(About(T, K)) BY AboutSeq
<1>2. /\ Head(s) \in About(T, K) /\ Tail(s) \in Seq(T)
      /\ Tail(s) \in Seq(About(T, K))
  BY <1>1, HeadTailProperties
<1> QED BY <1>2, AboutSeq DEF About

LEMMA SwapAbout ==
    ASSUME NEW T, NEW s \in Seq(T), Len(s) >= 2, NEW K,
           \A i \in DOMAIN s : s[i].proc \in K
    PROVE  LET r == <<s[2], s[1]>> \o SubSeq(s, 3, Len(s))
           IN  \A i \in DOMAIN r : r[i].proc \in K
<1> DEFINE r == <<s[2], s[1]>> \o SubSeq(s, 3, Len(s))
<1>1. s \in Seq(About(T, K)) /\ About(T, K) \subseteq T BY AboutSeq DEF About
<1>2. \A i \in 1..Len(s) : s[i] \in About(T, K) BY <1>1, ElementOfSeq
<1>3. <<s[2], s[1]>> \in Seq(About(T, K))
  <2>1. s[1] \in About(T, K) /\ s[2] \in About(T, K) BY <1>2, LenProperties
  <2> QED BY <2>1
<1>4. SubSeq(s, 3, Len(s)) \in Seq(About(T, K))
  <2>1. Len(s) \in Int BY LenProperties
  <2>2. \A i \in 3..Len(s) : s[i] \in About(T, K) BY <1>2, <2>1
  <2> QED BY <2>1, <2>2, SubSeqProperties
<1>5. r \in Seq(About(T, K)) BY <1>3, <1>4, ConcatProperties
<1> HIDE DEF r
<1>6. r \in Seq(T)
  <2>1. DOMAIN r = 1..Len(r) /\ \A i \in 1..Len(r) : r[i] \in About(T, K)
    BY <1>5, ElementOfSeq
  <2>2. r = [i \in 1..Len(r) |-> r[i]] /\ Len(r) \in Nat BY <1>5
  <2> QED BY <1>1, <2>1, <2>2
<1> QED BY <1>5, <1>6, AboutSeq DEF r

\* Steps that touch neither queues, nor copies, nor the keys of the table.
LEMMA UntouchedKnown ==
    ASSUME KnownEverywhere, UNCHANGED <<up, known, walKnown, streams, copies, outbox>>
    PROVE  KnownEverywhere'
  BY DEF KnownEverywhere, streams

\* An event is sent to a lord about a process that the log has.
LEMMA SendKnown ==
    ASSUME TypeOK, KnownEverywhere, NEW p \in Procs, p \in walKnown',
           walKnown \subseteq walKnown', up' => known' = walKnown',
           UNCHANGED <<inflight, copies, outbox>>,
           \/ UNCHANGED toLord
           \/ \E l \in LordIds, k \in {"spawn", "kill"} : Send(l, k, p)
    PROVE  KnownEverywhere'
<1>1. \A j \in LordIds : \A i \in DOMAIN toLord'[j] : toLord'[j][i].proc \in walKnown'
  <2>1. CASE UNCHANGED toLord BY <2>1 DEF KnownEverywhere
  <2>2. ASSUME NEW l \in LordIds, NEW k \in {"spawn", "kill"}, Send(l, k, p)
        PROVE  \A j \in LordIds : \A i \in DOMAIN toLord'[j] :
                  toLord'[j][i].proc \in walKnown'
    <3> DEFINE e == [kind |-> k, proc |-> p]
    <3>1. e \in Event /\ e.proc \in walKnown' BY DEF Event
    <3>2. /\ toLord[l] \in Seq(Event)
          /\ \A i \in DOMAIN toLord[l] : toLord[l][i].proc \in walKnown'
      BY DEF TypeOK, KnownEverywhere
    <3> HIDE DEF e
    <3>3. \A i \in DOMAIN Append(toLord[l], e) : Append(toLord[l], e)[i].proc \in walKnown'
      BY <3>1, <3>2, AppendAbout
    <3>4. toLord' = [toLord EXCEPT ![l] = Append(@, e)] BY <2>2 DEF Send, e
    <3> QED BY <3>3, <3>4 DEF TypeOK, KnownEverywhere
  <2> QED BY <2>1, <2>2
<1> QED BY <1>1 DEF KnownEverywhere

\* A respawn sends nothing, or the spawn of its process.
LEMMA RespawnSends ==
    ASSUME TypeOK, NEW p \in Procs, NEW t, NEW nil \in BOOLEAN, Respawn(p, t, nil)
    PROVE  /\ UNCHANGED <<known, walKnown>>
           /\ \/ UNCHANGED toLord
              \/ \E l \in LordIds, k \in {"spawn", "kill"} : Send(l, k, p)
<1>1. UNCHANGED <<known, walKnown>> BY DEF Respawn, table, wal
<1>2. UNCHANGED toLord \/ (CanSend(t) /\ Send(t, "spawn", p)) BY DEF Respawn
<1>3. CanSend(t) => t \in LordIds BY DEF CanSend, TypeOK
<1> QED BY <1>1, <1>2, <1>3

LEMMA SenderKnown ==
    ASSUME Inv, NEW p \in Procs,
           \/ Kill(p)
           \/ \E l \in LordIds : Spawn(p, l) \/ Migrate(p, l) \/ RecoverRespawn(l, p)
    PROVE  KnownEverywhere'
<1> USE DEF table, wal, agents
<1>1. TypeOK /\ KnownEverywhere /\ Down BY DEF Inv, Scheduler
<1>2. CASE Kill(p)
  <2>1. lord[p] \in LordIds BY <1>1, <1>2 DEF Kill, CanSend, TypeOK
  <2>2. p \in walKnown' /\ known' = walKnown' BY <1>1, <1>2 DEF Kill, KnownEverywhere
  <2> QED BY <1>1, <1>2, <2>1, <2>2, SendKnown DEF Kill
<1>3. ASSUME NEW l \in LordIds, Spawn(p, l) PROVE KnownEverywhere'
  <2>1. p \in walKnown' /\ known' = walKnown' /\ walKnown \subseteq walKnown'
    BY <1>1, <1>3 DEF Spawn, KnownEverywhere
  <2>2. UNCHANGED toLord \/ Send(l, "spawn", p) BY <1>3 DEF Spawn
  <2> QED BY <1>1, <1>3, <2>1, <2>2, SendKnown DEF Spawn
<1>4. ASSUME NEW l \in LordIds, Migrate(p, l) PROVE KnownEverywhere'
  <2>1. p \in known /\ up BY <1>1, <1>4 DEF Migrate, Down
  <2>2. PICK nil \in BOOLEAN : Respawn(p, l, nil) BY <1>4 DEF Migrate
  <2>3. p \in walKnown' /\ known' = walKnown' /\ walKnown' = walKnown
    BY <1>1, <2>1, <2>2, RespawnSends DEF KnownEverywhere
  <2>4. UNCHANGED toLord \/ \E k \in LordIds, e \in {"spawn", "kill"} : Send(k, e, p)
    BY <1>1, <2>2, RespawnSends
  <2>5. UNCHANGED <<inflight, copies, outbox>> BY <1>4 DEF Migrate
  <2> QED BY <1>1, <2>3, <2>4, <2>5, SendKnown
<1>5. ASSUME NEW l \in LordIds, RecoverRespawn(l, p) PROVE KnownEverywhere'
  <2>1. p \in known /\ up
    <3>1. rec[l].pc = "pass" /\ p \in rec[l].left BY <1>5 DEF RecoverRespawn
    <3> QED BY <1>1, <3>1 DEF Inv, Scheduler, Recoveries, Down
  <2>2. PICK nil \in BOOLEAN : Respawn(p, rec[l].target, nil) BY <1>5 DEF RecoverRespawn
  <2>3. p \in walKnown' /\ known' = walKnown' /\ walKnown' = walKnown
    BY <1>1, <2>1, <2>2, RespawnSends DEF KnownEverywhere
  <2>4. UNCHANGED toLord \/ \E k \in LordIds, e \in {"spawn", "kill"} : Send(k, e, p)
    BY <1>1, <2>2, RespawnSends
  <2>5. UNCHANGED <<inflight, copies, outbox>> BY <1>5 DEF RecoverRespawn
  <2> QED BY <1>1, <2>3, <2>4, <2>5, SendKnown
<1> QED BY <1>2, <1>3, <1>4, <1>5

LEMMA ReportKnown ==
    ASSUME TypeOK, KnownEverywhere, NEW h \in Hosts, NEW p \in Procs, p \in walKnown,
           NEW k \in {"started", "exit", "signal"}, Report(h, k, p)
    PROVE  \A j \in Hosts : \A i \in DOMAIN outbox'[j] : outbox'[j][i].proc \in walKnown
<1> DEFINE e == [kind |-> k, proc |-> p]
<1>1. e \in Message /\ e.proc \in walKnown BY DEF Message
<1>2. /\ outbox[h] \in Seq(Message)
      /\ \A i \in DOMAIN outbox[h] : outbox[h][i].proc \in walKnown
  BY DEF TypeOK, KnownEverywhere
<1> HIDE DEF e
<1>3. \A i \in DOMAIN Append(outbox[h], e) : Append(outbox[h], e)[i].proc \in walKnown
  BY <1>1, <1>2, AppendAbout
<1>4. outbox' = [outbox EXCEPT ![h] = Append(@, e)] BY DEF Report, e
<1> QED BY <1>3, <1>4 DEF TypeOK, KnownEverywhere

\* The next event of an agent is about a process that the log has.
LEMMA NextEventKnown ==
    ASSUME TypeOK, KnownEverywhere, NEW h \in Hosts, NEW p \in Procs, NEW k,
           NextEvent(h, k, p)
    PROVE  /\ p \in walKnown
           /\ \A j \in LordIds : \A i \in DOMAIN toLord'[j] : toLord'[j][i].proc \in walKnown
<1>1. conn[h] \in LordIds /\ toLord[conn[h]] # <<>> BY NextEventType DEF NextEvent
<1>2. /\ toLord[conn[h]] \in Seq(Event)
      /\ \A i \in DOMAIN toLord[conn[h]] : toLord[conn[h]][i].proc \in walKnown
  BY <1>1 DEF TypeOK, KnownEverywhere
<1>3. /\ Head(toLord[conn[h]]).proc \in walKnown
      /\ \A i \in DOMAIN Tail(toLord[conn[h]]) : Tail(toLord[conn[h]])[i].proc \in walKnown
  BY <1>1, <1>2, TailAbout
<1>4. /\ Head(toLord[conn[h]]) = [kind |-> k, proc |-> p]
      /\ toLord' = [toLord EXCEPT ![conn[h]] = Tail(@)]
  BY DEF NextEvent
<1>5. p \in walKnown BY <1>3, <1>4
<1> QED BY <1>1, <1>3, <1>4, <1>5 DEF TypeOK, KnownEverywhere

LEMMA AgentKnown ==
    ASSUME Inv, NEW h \in Hosts, NEW p \in Procs,
           HandleSpawn(h, p) \/ HandleKill(h, p) \/ ProcessExit(h, p)
    PROVE  KnownEverywhere'
<1> USE DEF table, wal, streams
<1>1. TypeOK /\ KnownEverywhere BY DEF Inv
<1>2. UNCHANGED <<up, known, walKnown, inflight>>
  BY DEF HandleSpawn, HandleKill, ProcessExit
<1>3. ASSUME p \in walKnown,
             copies' \in [Hosts -> [Procs -> Nat]],
             \A j \in Hosts, q \in Procs \ {p} : copies'[j][q] = copies[j][q],
             \A j \in LordIds : \A i \in DOMAIN toLord'[j] : toLord'[j][i].proc \in walKnown,
             \A j \in Hosts : \A i \in DOMAIN outbox'[j] : outbox'[j][i].proc \in walKnown
      PROVE  KnownEverywhere'
  <2>1. \A j \in Hosts : \A q \in Procs : copies'[j][q] > 0 => q \in walKnown
    BY <1>1, <1>3 DEF KnownEverywhere
  <2> QED BY <1>1, <1>2, <1>3, <2>1 DEF KnownEverywhere
<1>4. UNCHANGED outbox => \A j \in Hosts : \A i \in DOMAIN outbox'[j] :
                             outbox'[j][i].proc \in walKnown
  BY <1>1 DEF KnownEverywhere
<1>5. CASE HandleSpawn(h, p)
  <2>1. NextEvent(h, "spawn", p) BY <1>5 DEF HandleSpawn
  <2>2. p \in walKnown BY <1>1, <2>1, NextEventKnown
  <2>3. \A j \in Hosts : \A i \in DOMAIN outbox'[j] : outbox'[j][i].proc \in walKnown
    BY <1>1, <1>4, <1>5, <2>2, ReportKnown DEF HandleSpawn
  <2>4. copies' \in {copies, [copies EXCEPT ![h][p] = @ + 1]} BY <1>5 DEF HandleSpawn
  <2>5. /\ copies' \in [Hosts -> [Procs -> Nat]]
        /\ \A j \in Hosts, q \in Procs \ {p} : copies'[j][q] = copies[j][q]
    <3>1. copies \in [Hosts -> [Procs -> Nat]] BY <1>1 DEF TypeOK
    <3>2. CASE copies' = copies BY <3>1, <3>2
    <3>3. CASE copies' = [copies EXCEPT ![h][p] = @ + 1]
      <4>1. [copies[h] EXCEPT ![p] = @ + 1] \in [Procs -> Nat] BY <3>1, <3>3
      <4> QED BY <3>1, <3>3, <4>1
    <3> QED BY <2>4, <3>2, <3>3
  <2> QED BY <1>1, <1>3, <2>1, <2>2, <2>3, <2>5, NextEventKnown
<1>6. CASE HandleKill(h, p)
  <2>1. NextEvent(h, "kill", p) BY <1>6 DEF HandleKill
  <2>2. p \in walKnown BY <1>1, <2>1, NextEventKnown
  <2>3. \A j \in Hosts : \A i \in DOMAIN outbox'[j] : outbox'[j][i].proc \in walKnown
    BY <1>1, <1>4, <1>6, <2>2, ReportKnown DEF HandleKill, End
  <2>4. \/ UNCHANGED copies
        \/ copies[h][p] > 0 /\ copies' = [copies EXCEPT ![h][p] = @ - 1]
    BY <1>6 DEF HandleKill, End
  <2>5. /\ copies' \in [Hosts -> [Procs -> Nat]]
        /\ \A j \in Hosts, q \in Procs \ {p} : copies'[j][q] = copies[j][q]
    <3>1. copies \in [Hosts -> [Procs -> Nat]] BY <1>1 DEF TypeOK
    <3>2. CASE copies' = copies BY <3>1, <3>2
    <3>3. CASE copies[h][p] > 0 /\ copies' = [copies EXCEPT ![h][p] = @ - 1]
      <4>1. [copies[h] EXCEPT ![p] = @ - 1] \in [Procs -> Nat] BY <3>1, <3>3
      <4> QED BY <3>1, <3>3, <4>1
    <3> QED BY <2>4, <3>2, <3>3
  <2> QED BY <1>1, <1>3, <2>1, <2>2, <2>3, <2>5, NextEventKnown
<1>7. CASE ProcessExit(h, p)
  <2>1. copies[h][p] > 0 /\ End(h, p, "exit") /\ UNCHANGED toLord
    BY <1>7 DEF ProcessExit
  <2>2. p \in walKnown BY <1>1, <2>1 DEF KnownEverywhere
  <2>3. \A j \in Hosts : \A i \in DOMAIN outbox'[j] : outbox'[j][i].proc \in walKnown
    BY <1>1, <2>1, <2>2, ReportKnown DEF End
  <2>4. copies' = [copies EXCEPT ![h][p] = @ - 1] BY <2>1 DEF End
  <2>5. /\ copies' \in [Hosts -> [Procs -> Nat]]
        /\ \A j \in Hosts, q \in Procs \ {p} : copies'[j][q] = copies[j][q]
    BY <1>1, <2>1, <2>4 DEF TypeOK
  <2>6. \A j \in LordIds : \A i \in DOMAIN toLord'[j] : toLord'[j][i].proc \in walKnown
    BY <1>1, <2>1 DEF KnownEverywhere
  <2> QED BY <1>3, <2>2, <2>3, <2>5, <2>6
<1> QED BY <1>5, <1>6, <1>7

\* Reports move, are lost, or are applied; events are reordered or dropped.
LEMMA StreamKnown ==
    ASSUME Inv, NEW l \in LordIds, RecvCmd(l) \/ SessionEnd(l) \/ SendTimeout(l)
    PROVE  KnownEverywhere'
<1> USE DEF table, wal, agents
<1>1. TypeOK /\ KnownEverywhere BY DEF Inv
<1>2. CASE RecvCmd(l)
  <2>1. /\ inflight[l] # <<>> /\ inflight' = [inflight EXCEPT ![l] = Tail(@)]
        /\ UNCHANGED <<up, known, walKnown, toLord, copies, outbox>>
    BY <1>2 DEF RecvCmd
  <2>2. \A i \in DOMAIN Tail(inflight[l]) : Tail(inflight[l])[i].proc \in walKnown
    BY <1>1, <2>1, TailAbout DEF TypeOK, KnownEverywhere
  <2> QED BY <1>1, <2>1, <2>2 DEF TypeOK, KnownEverywhere
<1>3. CASE SessionEnd(l)
  <2>1. /\ UNCHANGED <<up, known, walKnown, copies, outbox>>
        /\ \A j \in LordIds : /\ toLord'[j] \in {<<>>, toLord[j]}
                              /\ inflight'[j] \in {<<>>, inflight[j]}
    BY <1>3 DEF SessionEnd, Hangup
  <2>2. DOMAIN <<>> = {} OBVIOUS
  <2> QED BY <1>1, <2>1, <2>2 DEF KnownEverywhere
<1>4. CASE SendTimeout(l)
  <2> DEFINE r == <<toLord[l][2], toLord[l][1]>> \o SubSeq(toLord[l], 3, Len(toLord[l]))
  <2>1. /\ Len(toLord[l]) >= 2 /\ toLord' = [toLord EXCEPT ![l] = r]
        /\ UNCHANGED <<up, known, walKnown, inflight, copies, outbox>>
    BY <1>4 DEF SendTimeout
  <2>2. \A i \in DOMAIN r : r[i].proc \in walKnown
    BY <1>1, <2>1, SwapAbout DEF TypeOK, KnownEverywhere
  <2> HIDE DEF r
  <2> QED BY <1>1, <2>1, <2>2 DEF TypeOK, KnownEverywhere
<1> QED BY <1>2, <1>3, <1>4

LEMMA OutboxKnown ==
    ASSUME Inv, NEW h \in Hosts, LoseReport(h) \/ LordSend(h) \/ LordCrash(h)
    PROVE  KnownEverywhere'
<1> USE DEF table, wal, streams
<1>1. /\ TypeOK /\ KnownEverywhere
      /\ outbox[h] \in Seq(Message)
      /\ \A i \in DOMAIN outbox[h] : outbox[h][i].proc \in walKnown
  BY DEF Inv, TypeOK, KnownEverywhere
<1>2. UNCHANGED <<up, known, walKnown, toLord>> BY DEF LoseReport, LordSend, LordCrash
<1>3. CASE LoseReport(h)
  <2>1. outbox[h] # <<>> /\ outbox' = [outbox EXCEPT ![h] = Tail(@)]
        /\ UNCHANGED <<inflight, copies>>
    BY <1>3 DEF LoseReport
  <2>2. \A i \in DOMAIN Tail(outbox[h]) : Tail(outbox[h])[i].proc \in walKnown
    BY <1>1, <2>1, TailAbout
  <2> QED BY <1>1, <1>2, <2>1, <2>2 DEF TypeOK, KnownEverywhere
<1>4. CASE LordSend(h)
  <2> DEFINE c == conn[h]
             e == Head(outbox[h])
  <2>1. /\ outbox[h] # <<>> /\ outbox' = [outbox EXCEPT ![h] = Tail(@)]
        /\ inflight' = [inflight EXCEPT ![c] = Append(@, e)]
        /\ UNCHANGED copies /\ c # NoLord
    BY <1>4 DEF LordSend
  <2>2. c \in LordIds BY <1>1, <2>1 DEF TypeOK, Lord
  <2>3. /\ e.proc \in walKnown
        /\ \A i \in DOMAIN Tail(outbox[h]) : Tail(outbox[h])[i].proc \in walKnown
    BY <1>1, <2>1, TailAbout
  <2>4. e \in Message BY <1>1, <2>1
  <2>5. /\ inflight[c] \in Seq(Message)
        /\ \A i \in DOMAIN inflight[c] : inflight[c][i].proc \in walKnown
    BY <1>1, <2>2 DEF TypeOK, KnownEverywhere
  <2> HIDE DEF c, e
  <2>6. \A i \in DOMAIN Append(inflight[c], e) : Append(inflight[c], e)[i].proc \in walKnown
    BY <2>3, <2>4, <2>5, AppendAbout
  <2> QED BY <1>1, <1>2, <2>1, <2>2, <2>3, <2>6 DEF TypeOK, KnownEverywhere
<1>5. CASE LordCrash(h)
  <2>1. /\ copies' = [copies EXCEPT ![h] = [p \in Procs |-> 0]]
        /\ outbox' = [outbox EXCEPT ![h] = <<>>]
        /\ UNCHANGED inflight
    BY <1>5 DEF LordCrash
  <2>2. DOMAIN <<>> = {} OBVIOUS
  <2> QED BY <1>1, <1>2, <2>1, <2>2 DEF TypeOK, KnownEverywhere
<1> QED BY <1>3, <1>4, <1>5

LEMMA CrashKnown ==
    ASSUME Inv, Crash \/ Restart
    PROVE  KnownEverywhere'
<1>1. KnownEverywhere BY DEF Inv
<1>2. CASE Crash
  <2>1. /\ up' = FALSE /\ UNCHANGED <<walKnown, copies, outbox>>
        /\ \A j \in LordIds : toLord'[j] = <<>> /\ inflight'[j] = <<>>
    BY <1>2 DEF Crash, Hangup, wal
  <2>2. DOMAIN <<>> = {} OBVIOUS
  <2> QED BY <1>1, <2>1, <2>2 DEF KnownEverywhere
<1>3. CASE Restart BY <1>1, <1>3 DEF Restart, KnownEverywhere, wal, streams, agents
<1> QED BY <1>2, <1>3

(* The theorems. *)

LEMMA InitInv == Init => Inv
<1> SUFFICES ASSUME Init PROVE Inv OBVIOUS
<1>1. TypeOK BY InitType
<1>2. Ids BY DEF Init, Ids, NoLord
<1>3. Down BY DEF Init, Down
<1>4. Recoveries BY DEF Init, Recoveries, NoRecovery, NoLord
<1>5. ReplayState /\ RestartingTimed /\ NoForgottenProcess
  BY DEF Init, ReplayState, RestartingTimed, NoForgottenProcess
<1>6. KnownEverywhere
  <2>1. DOMAIN <<>> = {} OBVIOUS
  <2> QED BY <2>1 DEF Init, KnownEverywhere
<1> QED BY <1>1, <1>2, <1>3, <1>4, <1>5, <1>6 DEF Inv, Scheduler

LEMMA NextInv == Inv /\ [Next]_vars => Inv'
<1> SUFFICES ASSUME Inv, [Next]_vars PROVE Scheduler' /\ KnownEverywhere'
  BY NextType DEF Inv
<1>1. TypeOK /\ Scheduler /\ KnownEverywhere BY DEF Inv
<1> DEFINE Goal == Scheduler' /\ KnownEverywhere'
<1>2. CASE UNCHANGED vars
  <2>1. Scheduler' BY <1>1, <1>2, QuietSteps, QuietScheduler
  <2>2. KnownEverywhere'
    BY <1>1, <1>2, UntouchedKnown DEF vars, table, wal, streams, agents
  <2> QED BY <2>1, <2>2
<1>3. ASSUME NEW p \in Procs, NEW l \in LordIds,
             Spawn(p, l) \/ Migrate(p, l) \/ RecoverRespawn(l, p)
      PROVE  Goal
  BY <1>3, SpawnScheduler, MigrateScheduler, RecoverRespawnScheduler, SenderKnown
<1>4. ASSUME NEW p \in Procs, Kill(p) PROVE Goal
  BY <1>1, <1>4, QuietSteps, QuietScheduler, SenderKnown
<1>5. ASSUME NEW p \in Procs, AckTimeout(p) PROVE Goal
  <2>1. KnownEverywhere'
    BY <1>1, <1>5, UntouchedKnown DEF AckTimeout, table, wal, streams, agents
  <2> QED BY <1>5, <2>1, AckTimeoutScheduler
<1>6. ASSUME NEW l \in LordIds, RecvCmd(l) \/ SessionEnd(l) PROVE Goal
  BY <1>6, RecvScheduler, SessionEndScheduler, StreamKnown
<1>7. ASSUME NEW l \in LordIds, SendTimeout(l) PROVE Goal
  BY <1>1, <1>7, QuietSteps, QuietScheduler, StreamKnown
<1>8. ASSUME NEW l \in LordIds,
             RecoverList(l) \/ RecoverPick(l) \/ RecoverExhausted(l) \/ RecoverSweep(l)
      PROVE  Goal
  <2>1. KnownEverywhere'
    BY <1>1, <1>8, UntouchedKnown
    DEF RecoverList, RecoverPick, RecoverExhausted, RecoverSweep, table, wal, agents
  <2> QED BY <1>8, <2>1, RecoverListScheduler, RecoverPickScheduler, SweepScheduler
<1>9. ASSUME NEW h \in Hosts, Connect(h) PROVE Goal
  <2>1. KnownEverywhere' BY <1>1, <1>9, UntouchedKnown DEF Connect, FindByHostname, UpdateLordForHostname, wal
  <2> QED BY <1>9, <2>1, ConnectScheduler
<1>10. ASSUME NEW h \in Hosts, LoseReport(h) \/ LordSend(h) \/ LordCrash(h) PROVE Goal
  BY <1>1, <1>10, QuietSteps, QuietScheduler, OutboxKnown
<1>11. ASSUME NEW h \in Hosts, LordDisconnect(h) PROVE Goal
  <2>1. KnownEverywhere' BY <1>1, <1>11, UntouchedKnown DEF LordDisconnect, table, wal
  <2> QED BY <1>1, <1>11, <2>1, QuietSteps, QuietScheduler
<1>12. ASSUME NEW h \in Hosts, NEW p \in Procs,
              HandleSpawn(h, p) \/ HandleKill(h, p) \/ ProcessExit(h, p)
       PROVE  Goal
  BY <1>1, <1>12, QuietSteps, QuietScheduler, AgentKnown
<1>13. CASE Crash \/ Restart BY <1>13, CrashScheduler, CrashKnown
<1> QED
  BY <1>2, <1>3, <1>4, <1>5, <1>6, <1>7, <1>8, <1>9, <1>10, <1>11, <1>12, <1>13 DEF Next

LEMMA Invariance == Spec => []Inv
<1> QED BY InitInv, NextInv, PTL DEF Spec

\* Every handler keeps the types of the table, the log, the registry, the
\* streams and the agents.
THEOREM ClusterTypeOK == Spec => []TypeOK
<1>1. Inv => TypeOK BY DEF Inv
<1> QED BY Invariance, <1>1, PTL

\* Spawn logs a process before it sends it: in no run, with any number of
\* crashes, does a lord run, or a queue carry, a process unknown to the log.
THEOREM ClusterKnownEverywhere == Spec => []KnownEverywhere
<1>1. Inv => KnownEverywhere BY DEF Inv
<1> QED BY Invariance, <1>1, PTL

\* However recoveries, migrations, re-binds and timers interleave, a process
\* waiting for the ack of a respawn has a timer armed.
THEOREM ClusterRestartingTimed == Spec => []RestartingTimed
<1>1. Inv => RestartingTimed BY DEF Inv, Scheduler
<1> QED BY Invariance, <1>1, PTL

\* The recovery of a lord takes care of every process that is still up on it,
\* whatever re-binds and late reports do in the meantime.
THEOREM ClusterNoForgottenProcess == Spec => []NoForgottenProcess
<1>1. Inv => NoForgottenProcess BY DEF Inv, Scheduler
<1> QED BY Invariance, <1>1, PTL

(* The refinement. It maps a process to its state in the table, or in the log *)
(* while the scheduler is down; the parts of Inv that make it work are        *)
(* ReplayState and known = walKnown for Crash and Restart, and that nothing   *)
(* but Restart changes the table of a scheduler that is down.                 *)

LifeInv ==
    /\ ~up => \A p \in Procs : state[p] = "NEW"
    /\ \A p \in walKnown : walState[p] # "NEW"

LEMMA KnownNotNew == ASSUME Inv, LifeInv, up PROVE \A p \in known : state[p] # "NEW"
BY DEF Inv, LifeInv, KnownEverywhere, Scheduler, ReplayState

\* Steps that keep the table and the log, or make the one from the other.
LEMMA SameLife ==
    ASSUME Inv, Quiet \/ Crash \/ Restart
    PROVE  UNCHANGED Shown
<1> USE DEF Shown
<1>1. CASE Quiet
  BY <1>1 DEF Quiet, table, wal
<1>2. CASE Crash
  <2>1. up /\ ~up' /\ known = walKnown /\ UNCHANGED <<walKnown, walState>>
    BY <1>2 DEF Crash, Inv, KnownEverywhere, wal
  <2>2. \A p \in known : state[p] = walState[p]
    BY <2>1 DEF Inv, Scheduler, ReplayState
  <2> QED  BY <2>1, <2>2
<1>3. CASE Restart
  BY <1>3 DEF Restart, wal
<1> QED  BY <1>1, <1>2, <1>3

\* A step of a scheduler that is up, which keeps known, shows its new states.
LEMMA ShownUp == ASSUME up, up' PROVE Shown' = [p \in Procs |-> IF p \in known' THEN state'[p] ELSE "NEW"]
BY DEF Shown

LEMMA ShownBefore == ASSUME up PROVE Shown = [p \in Procs |-> IF p \in known THEN state[p] ELSE "NEW"]
BY DEF Shown

LEMMA SpawnLife ==
    ASSUME Inv, NEW p \in Procs, NEW l \in LordIds, Spawn(p, l)
    PROVE  Life!Create(p)
<1>1. /\ up /\ up' /\ known = walKnown /\ p \notin known /\ known' = known \cup {p}
      /\ \E st \in {"READY", "STOPPED"} : state' = [state EXCEPT ![p] = st]
  BY DEF Spawn, Inv, KnownEverywhere
<1>2. PICK st \in {"READY", "STOPPED"} : state' = [state EXCEPT ![p] = st]
  BY <1>1
<1>3. Shown[p] = "NEW"
  BY <1>1, ShownBefore
<1>4. Shown' = [Shown EXCEPT ![p] = st]
  BY <1>1, <1>2, ShownBefore, ShownUp DEF Inv, TypeOK
<1> QED  BY <1>3, <1>4 DEF Life!Create

LEMMA RecvLife ==
    ASSUME Inv, LifeInv, NEW l \in LordIds, RecvCmd(l)
    PROVE  UNCHANGED Shown \/ \E p \in Procs : Life!Report(p)
<1> DEFINE m == Head(inflight[l])
<1>1. m.kind \in {"started", "exit", "signal"} /\ m.proc \in Procs
  <2>1. inflight[l] \in Seq(Message) /\ inflight[l] # <<>> BY DEF RecvCmd, Inv, TypeOK
  <2>2. m \in Message BY <2>1
  <2> QED BY <2>2 DEF Message
<1>2. /\ state' = [p \in Procs |-> IF p \in {m.proc} \cap known THEN StateAfter(m.kind) ELSE state[p]]
      /\ l \in sessions
      /\ UNCHANGED <<up, known>>
  BY DEF RecvCmd, UpdateStates
<1>3. up /\ up'
  BY <1>2 DEF Inv, Scheduler, Ids, Down
<1> HIDE DEF m
<1>4. StateAfter(m.kind) \in {"RUNNING", "EXITED", "STOPPED"}
  BY <1>1 DEF StateAfter
<1>5. CASE m.proc \notin known
  BY <1>2, <1>3, <1>5, ShownBefore, ShownUp
<1>6. CASE m.proc \in known
  <2>1. Shown' = [Shown EXCEPT ![m.proc] = StateAfter(m.kind)]
    BY <1>1, <1>2, <1>3, <1>6, ShownBefore, ShownUp
  <2>2. Shown[m.proc] = state[m.proc]
    BY <1>1, <1>3, <1>6, ShownBefore
  <2>3. state[m.proc] # "NEW"
    BY <1>3, <1>6, KnownNotNew
  <2> QED  BY <1>1, <1>4, <2>1, <2>2, <2>3 DEF Life!Report
<1> QED  BY <1>5, <1>6

LEMMA RespawnLife ==
    ASSUME Inv, LifeInv, UNCHANGED up, NEW p \in known, NEW t \in Lord, NEW nil \in BOOLEAN,
           Respawn(p, t, nil)
    PROVE  UNCHANGED Shown \/ Life!Respawn(p)
<1>1. up /\ up' /\ p \in Procs
  BY DEF Inv, Scheduler, Down, TypeOK
<1>2. CASE UNCHANGED table
  BY <1>1, <1>2, ShownBefore, ShownUp DEF table
<1>3. ASSUME NEW st \in {"RESTARTING", "STOPPED"}, state[p] \notin Final,
             state' = [q \in Procs |-> IF q \in {p} THEN st ELSE state[q]], UNCHANGED known
      PROVE  Life!Respawn(p)
  <2>1. Shown' = [Shown EXCEPT ![p] = st]
    BY <1>1, <1>3, ShownBefore, ShownUp
  <2>2. Shown[p] = state[p]
    BY <1>1, ShownBefore
  <2>3. state[p] # "NEW"
    BY <1>1, KnownNotNew
  <2> QED  BY <1>3, <2>1, <2>2, <2>3 DEF Life!Respawn, Life!Final, Final
<1> QED  BY <1>2, <1>3 DEF Respawn, UpdateStates

LEMMA GiveUpLife ==
    ASSUME Inv, UNCHANGED <<up, known>>, NEW P \in SUBSET Procs, \A p \in P : state[p] = "RESTARTING",
           state' = [p \in Procs |-> IF p \in P THEN "STOPPED" ELSE state[p]],
           up
    PROVE  \E Q \in SUBSET Procs : Life!GiveUp(Q)
<1> DEFINE Q == P \cap known
<1>1. \A p \in Q : Shown[p] = "RESTARTING"
  BY ShownBefore DEF Inv, TypeOK
<1>2. Shown' = [p \in Procs |-> IF p \in Q THEN "STOPPED" ELSE Shown[p]]
  BY ShownBefore, ShownUp
<1>3. Q \in SUBSET Procs
  OBVIOUS
<1> HIDE DEF Q
<1> QED  BY <1>1, <1>2, <1>3 DEF Life!GiveUp

\* UpdateState sets no entry to NEW.
LEMMA UpdateLifeInv ==
    ASSUME TypeOK, LifeInv, up, UNCHANGED <<up, walKnown>>,
           NEW P, NEW st \in State \ {"NEW"}, NEW l, UpdateStates(P, st, l)
    PROVE  LifeInv'
BY DEF LifeInv, TypeOK, UpdateStates, AppendState

LEMMA RespawnLifeInv ==
    ASSUME TypeOK, LifeInv, up, UNCHANGED up, NEW p \in Procs, NEW t, NEW nil, Respawn(p, t, nil)
    PROVE  LifeInv'
<1>1. CASE UNCHANGED <<table, wal>>
  BY <1>1 DEF LifeInv, table, wal
<1>2. ASSUME NEW st \in {"RESTARTING", "STOPPED"}, UpdateStates({p}, st, NoLord),
             UNCHANGED walKnown
      PROVE  LifeInv'
  BY <1>2, UpdateLifeInv DEF State
<1> QED  BY <1>1, <1>2 DEF Respawn

\* An action that keeps the table and the log.
LEMMA KeptLife == ASSUME LifeInv, UNCHANGED <<up, known, state, walKnown, walState>>
                  PROVE  LifeInv' /\ UNCHANGED Shown
BY DEF LifeInv, Shown

LEMMA NextLife == ASSUME Inv, LifeInv, [Next]_vars PROVE LifeInv' /\ [Life!Next]_Shown
<1> DEFINE Goal == LifeInv' /\ [Life!Next]_Shown
<1>0. TypeOK
  BY DEF Inv
<1>1. ASSUME Quiet PROVE Goal
  BY <1>1, KeptLife DEF Quiet, table, wal
<1>2. ASSUME NEW p \in Procs, NEW l \in LordIds, Spawn(p, l) PROVE Goal
  <2>1. LifeInv'
    BY <1>2 DEF Spawn, LifeInv, Inv, TypeOK
  <2> QED  BY <1>2, <2>1, SpawnLife DEF Life!Next
<1>3. ASSUME NEW p \in Procs, NEW l \in LordIds, Migrate(p, l) PROVE Goal
  <2>1. p \in known /\ UNCHANGED up
    BY <1>3 DEF Migrate
  <2>2. up
    BY <2>1 DEF Inv, Scheduler, Down
  <2>3. PICK nil \in BOOLEAN : Respawn(p, l, nil)
    BY <1>3 DEF Migrate
  <2>4. l \in Lord
    BY DEF Lord
  <2>5. LifeInv'
    BY <1>0, <2>1, <2>2, <2>3, RespawnLifeInv
  <2> QED  BY <2>1, <2>3, <2>4, <2>5, RespawnLife DEF Life!Next
<1>4. ASSUME NEW p \in Procs, NEW l \in LordIds, RecoverRespawn(l, p) PROVE Goal
  <2>1. p \in known /\ UNCHANGED up
    BY <1>4 DEF RecoverRespawn, Inv, Scheduler, Recoveries
  <2>2. up
    BY <2>1 DEF Inv, Scheduler, Down
  <2>3. PICK nil \in BOOLEAN : Respawn(p, rec[l].target, nil)
    BY <1>4 DEF RecoverRespawn
  <2>4. rec[l].target \in Lord
    BY DEF Inv, TypeOK, Recovery
  <2>5. LifeInv'
    BY <1>0, <2>1, <2>2, <2>3, RespawnLifeInv
  <2> QED  BY <2>1, <2>3, <2>4, <2>5, RespawnLife DEF Life!Next
<1>5. ASSUME NEW p \in Procs, AckTimeout(p) PROVE Goal
  <2> DEFINE P == {p} \cap {q \in Procs : state[q] = "RESTARTING"}
  <2>1. UpdateStates(P, "STOPPED", NoLord) /\ UNCHANGED <<up, known, walKnown>>
    BY <1>5 DEF AckTimeout
  <2>2. CASE up
    <3>1. LifeInv'
      BY <1>0, <2>1, <2>2, UpdateLifeInv DEF State
    <3> QED  BY <2>1, <2>2, <3>1, GiveUpLife DEF UpdateStates, Life!Next
  <2>3. CASE ~up
    <3>1. P = {}
      BY <2>3 DEF LifeInv
    <3>2. UNCHANGED <<state, walState>>
      BY <1>0, <2>1, <3>1 DEF UpdateStates, AppendState, TypeOK
    <3> QED  BY <2>1, <3>2, KeptLife
  <2> QED  BY <2>2, <2>3
<1>6. ASSUME NEW l \in LordIds, RecvCmd(l) PROVE Goal
  <2>1. up /\ UNCHANGED <<up, walKnown>>
    BY <1>6 DEF RecvCmd, Inv, Scheduler, Ids, Down
  <2>2. Head(inflight[l]).kind \in {"started", "exit", "signal"}
    <3>1. inflight[l] \in Seq(Message) /\ inflight[l] # <<>> BY <1>6 DEF RecvCmd, Inv, TypeOK
    <3>2. Head(inflight[l]) \in Message BY <3>1
    <3> QED BY <3>2 DEF Message
  <2>3. StateAfter(Head(inflight[l]).kind) \in State \ {"NEW"}
    BY <2>2 DEF StateAfter, State
  <2>4. LifeInv'
    BY <1>0, <1>6, <2>1, <2>3, UpdateLifeInv DEF RecvCmd
  <2> QED  BY <1>6, <2>4, RecvLife DEF Life!Next
<1>7. ASSUME NEW l \in LordIds,
             SessionEnd(l) \/ RecoverList(l) \/ RecoverPick(l) \/ RecoverExhausted(l)
      PROVE  Goal
  BY <1>7, KeptLife DEF SessionEnd, RecoverList, RecoverPick, RecoverExhausted, table, wal
<1>8. ASSUME NEW l \in LordIds, RecoverSweep(l) PROVE Goal
  <2> DEFINE P == {p \in rec[l].cand : state[p] = "RESTARTING"}
  <2>1. UpdateStates(P, "STOPPED", NoLord) /\ UNCHANGED <<up, known, walKnown>>
    BY <1>8 DEF RecoverSweep
  <2>2. up
    BY <1>8 DEF RecoverSweep, Inv, Scheduler, Recoveries, Down
  <2>3. P \in SUBSET Procs
    BY DEF Inv, Scheduler, Recoveries, TypeOK
  <2>4. LifeInv'
    BY <1>0, <2>1, <2>2, UpdateLifeInv DEF State
  <2> QED  BY <2>1, <2>2, <2>3, <2>4, GiveUpLife DEF UpdateStates, Life!Next
<1>9. ASSUME NEW h \in Hosts, Connect(h) PROVE Goal
  BY <1>9, KeptLife DEF Connect, wal
<1>10. CASE Crash \/ Restart
  <2>1. LifeInv'
    BY <1>10 DEF Crash, Restart, LifeInv, wal
  <2> QED  BY <1>10, <2>1, SameLife
<1> QED
  BY <1>1, <1>2, <1>3, <1>4, <1>5, <1>6, <1>7, <1>8, <1>9, <1>10, QuietSteps DEF Next

\* Cluster implements ProcessLife: tenants are shown no life but one that
\* ProcessLife allows, through any crashes (wal.go:127) and recoveries
\* (recovery.go:182).
THEOREM ClusterProcessLives == Spec => ProcessLives
<1>1. Init => Life!Init
  BY DEF Init, Life!Init, Shown
<1>2. Init => LifeInv
  BY DEF Init, LifeInv
<1>3. Inv /\ LifeInv /\ [Next]_vars => LifeInv' /\ [Life!Next]_Shown
  BY NextLife
<1> QED  BY <1>1, <1>2, <1>3, Invariance, PTL DEF Spec, ProcessLives, Life!Spec

-----------------------------------------------------------------------------
(* Action properties: what only a lord's report, or a tenant, can undo. *)

\* handleStarted or handleProcessExit takes a report on p.
Reported(p) == \E l \in LordIds : RecvCmd(l) /\ Head(inflight[l]).proc = p

Moved(p) == \E t \in LordIds : Migrate(p, t)

\* No recovery, sweep, timer, reconnect or restart of the scheduler changes
\* what tenants are shown of an ended process: only a lord's report does
\* (recovery.go:182, :241).
EndedStays == [][\A p \in Procs : Shown[p] \in Final => Shown'[p] = Shown[p] \/ Reported(p)]_vars

\* A process that the replay has bound to a lord id of an earlier incarnation.
Orphan(p) == up /\ p \in known /\ lord[p] \notin registered

\* Such a process cannot be killed, and its entry stays as it is for good, be
\* it RUNNING or RESTARTING and however its lord reconnects: neither the re-bind
\* of Connect nor a recovery finds it, and its ack timer is gone (wal.go:177,
\* connect.go:118, recovery.go:241).  Only a lord's report or a Migrate helps.
OrphansStay ==
    [][\A p \in Procs : Orphan(p) =>
          /\ ~Kill(p)
          /\ \/ Orphan(p)' /\ lord'[p] = lord[p] /\ state'[p] = state[p]
             \/ Reported(p) \/ Moved(p) \/ Crash]_vars

\* Recoveries move processes of registered lords only, and to such lords, and
\* ack timers are about such lords.
Followed ==
    /\ \A l \in LordIds :
          /\ \A p \in rec[l].cand : lord[p] \in registered
          /\ rec[l].pc = "pass" => rec[l].target \in registered
    /\ \A p \in Procs : timers[p] > 0 => lord[p] \in registered

\* The steps that change no lord of a process and no part of the registry that
\* Followed speaks of.
LEMMA FollowedKept ==
    ASSUME Inv, Followed, registered \subseteq registered',
           \A p \in Procs : lord'[p] = lord[p] \/ lord'[p] \in registered',
           \A l \in LordIds :
              /\ rec'[l].cand \subseteq rec[l].cand \cup {p \in known : lord'[p] \in registered'}
              /\ rec'[l].pc = "pass" => \/ rec[l].pc = "pass" /\ rec'[l].target = rec[l].target
                                        \/ rec'[l].target \in registered',
           \A p \in Procs : timers'[p] = timers[p] \/ lord'[p] \in registered'
    PROVE  Followed'
<1>1. \A l \in LordIds : rec[l].cand \subseteq Procs
  BY DEF Inv, TypeOK, Recovery
<1> QED  BY <1>1 DEF Followed

\* What a report changes, of the process it is about.
LEMMA RecvOthers ==
    ASSUME NEW l \in LordIds, RecvCmd(l), NEW p \in Procs, Head(inflight[l]).proc # p, TypeOK
    PROVE  state'[p] = state[p] /\ lord'[p] = lord[p]
BY DEF RecvCmd, UpdateStates, TypeOK

\* A reconnect re-binds from an id of this incarnation.
LEMMA ConnectBinds ==
    ASSUME Inv, NEW h \in Hosts, Connect(h)
    PROVE  /\ registered' = registered \cup {nextId}
           /\ \A p \in Procs : \/ lord'[p] = nextId /\ lord[p] \in registered
                               \/ lord'[p] = lord[p] /\ lord[p] # nextId
<1>1. PICK old \in {l \in registered : host[l] = h} \cup {nextId} :
         lord' = [p \in Procs |-> IF lord[p] = old THEN nextId ELSE lord[p]]
  BY DEF Connect, FindByHostname, UpdateLordForHostname
<1>2. nextId \in Nat /\ \A p \in Procs : lord[p] < nextId
  BY DEF Inv, TypeOK, Scheduler, Ids
<1>3. \A p \in Procs : lord[p] # nextId
  BY <1>2
<1>4. registered' = registered \cup {nextId}
  BY DEF Connect
<1> QED  BY <1>1, <1>3, <1>4

\* A respawn that arms a timer binds the process to its target.
LEMMA RespawnTimer ==
    ASSUME TypeOK, NEW p \in Procs, NEW t, NEW nil, Respawn(p, t, nil)
    PROVE  timers'[p] = timers[p] \/ lord'[p] = t
BY DEF Respawn, TypeOK

LEMMA FollowedStep == ASSUME Inv, Followed, [Next]_vars PROVE Followed'
<1>0. TypeOK /\ sessions \subseteq registered /\ rec \in [LordIds -> Recovery]
      /\ \A l \in LordIds : rec[l].cand \subseteq known
  BY DEF Inv, TypeOK, Scheduler, Ids, Recoveries
<1>1. ASSUME Quiet PROVE Followed'
  BY <1>1 DEF Quiet, Followed, table, registry
<1>2. ASSUME NEW p \in Procs, NEW l \in LordIds, Spawn(p, l) PROVE Followed'
  <2>1. /\ lord' = [lord EXCEPT ![p] = l] /\ l \in registered
        /\ UNCHANGED <<registered, rec, timers>>
    BY <1>0, <1>2 DEF Spawn, registry
  <2>2. \A q \in Procs : lord'[q] = lord[q] \/ lord'[q] \in registered'
    BY <1>0, <2>1 DEF TypeOK
  <2> QED  BY <2>1, <2>2, FollowedKept
<1>3. ASSUME NEW p \in Procs, NEW l \in LordIds, Migrate(p, l) PROVE Followed'
  <2>1. PICK nil \in BOOLEAN : Respawn(p, l, nil)
    BY <1>3 DEF Migrate
  <2>2. l \in Lord /\ l \in registered /\ UNCHANGED <<registered, rec>>
    BY <1>3 DEF Migrate, Lord, registry
  <2>3. /\ lord'[p] \in {lord[p], l} /\ (timers'[p] = timers[p] \/ lord'[p] = l)
        /\ \A q \in Procs \ {p} : lord'[q] = lord[q] /\ timers'[q] = timers[q]
    BY <1>0, <2>1, <2>2, RespawnEffect, RespawnTimer
  <2>4. \A q \in Procs : /\ lord'[q] = lord[q] \/ lord'[q] \in registered'
                         /\ timers'[q] = timers[q] \/ lord'[q] \in registered'
    BY <2>2, <2>3
  <2> QED  BY <2>2, <2>4, FollowedKept
<1>4. ASSUME NEW p \in Procs, NEW l \in LordIds, RecoverRespawn(l, p) PROVE Followed'
  <2>1. PICK nil \in BOOLEAN :
           /\ Respawn(p, rec[l].target, nil)
           /\ LET ok == rec[l].ok \/ nil
                  last == rec[l].left = {p}
              IN rec' = [rec EXCEPT ![l].left = @ \ {p}, ![l].ok = ok,
                                    ![l].pc = IF ~last THEN "pass"
                                              ELSE IF ok THEN "sweep" ELSE "pick"]
    BY <1>4 DEF RecoverRespawn
  <2>2. rec[l].pc = "pass" /\ UNCHANGED registered
    BY <1>4 DEF RecoverRespawn, registry
  <2>3. rec[l].target \in Lord /\ rec[l].target \in registered
    BY <1>0, <2>2 DEF Followed, Recovery
  <2>4. /\ lord'[p] \in {lord[p], rec[l].target}
        /\ timers'[p] = timers[p] \/ lord'[p] = rec[l].target
        /\ \A q \in Procs \ {p} : lord'[q] = lord[q] /\ timers'[q] = timers[q]
    BY <1>0, <2>1, <2>3, RespawnEffect, RespawnTimer
  <2>5. \A q \in Procs : /\ lord'[q] = lord[q] \/ lord'[q] \in registered'
                         /\ timers'[q] = timers[q] \/ lord'[q] \in registered'
    BY <2>2, <2>3, <2>4
  <2>6. \A k \in LordIds : rec'[k].cand = rec[k].cand /\ rec'[k].target = rec[k].target
                           /\ (k # l => rec'[k] = rec[k])
    BY <1>0, <2>1 DEF Recovery
  <2> QED  BY <2>2, <2>5, <2>6, FollowedKept
<1>5. ASSUME NEW p \in Procs, AckTimeout(p) PROVE Followed'
  <2>1. /\ timers[p] > 0 /\ timers' = [timers EXCEPT ![p] = @ - 1]
        /\ UNCHANGED <<lord, registered, rec>>
    BY <1>5 DEF AckTimeout, registry
  <2>2. \A q \in Procs : timers'[q] = timers[q] \/ lord'[q] \in registered'
    BY <1>0, <2>1 DEF Followed, TypeOK
  <2> QED  BY <2>1, <2>2, FollowedKept
<1>6. ASSUME NEW l \in LordIds, RecvCmd(l) PROVE Followed'
  <2>1. /\ l \in sessions /\ UNCHANGED <<registered, rec, timers>>
        /\ \A p \in Procs : lord'[p] = lord[p] \/ lord'[p] = l
    BY <1>0, <1>6, RecvEffect DEF registry
  <2> QED  BY <1>0, <2>1, FollowedKept
<1>7. ASSUME NEW l \in LordIds, SessionEnd(l) PROVE Followed'
  <2>1. /\ rec' = [rec EXCEPT ![l].pc = "list"]
        /\ UNCHANGED <<lord, registered, timers>>
    BY <1>7 DEF SessionEnd, table
  <2>2. \A k \in LordIds : rec'[k].cand = rec[k].cand /\ rec'[k].target = rec[k].target
                           /\ (rec'[k].pc = "pass" => rec[k].pc = "pass")
    BY <1>0, <2>1 DEF Recovery
  <2> QED  BY <2>1, <2>2 DEF Followed
<1>8. ASSUME NEW l \in LordIds, RecoverList(l) PROVE Followed'
  <2>1. /\ rec' = [rec EXCEPT ![l].pc = IF Candidates(l) = {} THEN "done" ELSE "pick",
                              ![l].cand = Candidates(l)]
        /\ rec[l].pc = "list"
        /\ UNCHANGED <<lord, registered, timers>>
    BY <1>8 DEF RecoverList, table, registry
  <2>2. l \in registered
    BY <2>1 DEF Inv, Scheduler, Recoveries
  <2>3. \A k \in LordIds : k # l => rec'[k] = rec[k]
    BY <1>0, <2>1
  <2>4. rec'[l].cand = Candidates(l) /\ rec'[l].pc # "pass"
    BY <1>0, <2>1 DEF Recovery
  <2>5. \A p \in rec'[l].cand : lord'[p] \in registered'
    BY <2>1, <2>2, <2>4 DEF Candidates
  <2>6. ASSUME NEW k \in LordIds, k # l
        PROVE  /\ \A p \in rec'[k].cand : lord'[p] \in registered'
               /\ rec'[k].pc = "pass" => rec'[k].target \in registered'
    <3>1. rec'[k] = rec[k] /\ lord' = lord /\ registered' = registered
      BY <2>1, <2>3, <2>6
    <3>2. /\ \A p \in rec[k].cand : lord[p] \in registered
          /\ rec[k].pc = "pass" => rec[k].target \in registered
      BY DEF Followed
    <3> QED  BY <3>1, <3>2
  <2>7. \A p \in Procs : timers'[p] > 0 => lord'[p] \in registered'
    BY <2>1 DEF Followed
  <2> QED  BY <2>4, <2>5, <2>6, <2>7 DEF Followed
<1>9. ASSUME NEW l \in LordIds, RecoverPick(l) PROVE Followed'
  <2>0. rec[l].pc = "pick" /\ UNCHANGED <<lord, registered, timers>>
    BY <1>9 DEF RecoverPick, table, registry
  <2>1. ASSUME NEW t \in sessions,
               rec' = [rec EXCEPT ![l] =
                          [pc |-> "pass", cand |-> @.cand, left |-> @.cand, target |-> t,
                           ok |-> FALSE, attempt |-> @.attempt + 1]]
        PROVE  Followed'
    <3>1. \A k \in LordIds : k # l => rec'[k] = rec[k]
      BY <1>0, <2>1
    <3>2. rec'[l].cand = rec[l].cand /\ rec'[l].target = t
      BY <1>0, <2>1
    <3> QED  BY <1>0, <2>0, <3>1, <3>2 DEF Followed
  <2>2. ASSUME rec' = [rec EXCEPT ![l].attempt = @ + 1] PROVE Followed'
    <3>1. \A k \in LordIds : rec'[k].cand = rec[k].cand /\ rec'[k].target = rec[k].target
                             /\ rec'[k].pc = rec[k].pc
      BY <1>0, <2>2 DEF Recovery
    <3> QED  BY <2>0, <3>1 DEF Followed
  <2> QED  BY <1>9, <2>1, <2>2 DEF RecoverPick
<1>10. ASSUME NEW l \in LordIds, RecoverExhausted(l) \/ RecoverSweep(l) PROVE Followed'
  <2>1. /\ \/ rec' = [rec EXCEPT ![l].pc = "sweep", ![l].ok = FALSE]
           \/ rec' = [rec EXCEPT ![l].pc = "done", ![l].target = NoLord]
        /\ UNCHANGED <<lord, registered, timers>>
    BY <1>10 DEF RecoverExhausted, RecoverSweep, table, registry
  <2>2. /\ \A k \in LordIds : k # l => rec'[k] = rec[k]
        /\ rec'[l].cand = rec[l].cand /\ rec'[l].pc # "pass"
    BY <1>0, <2>1 DEF Recovery
  <2> QED  BY <2>1, <2>2 DEF Followed
<1>11. ASSUME NEW h \in Hosts, Connect(h) PROVE Followed'
  <2>1. UNCHANGED <<rec, timers>>
    BY <1>11 DEF Connect
  <2> QED  BY <1>11, <2>1, ConnectBinds, FollowedKept
<1>12. CASE Crash
  BY <1>12 DEF Crash, Followed, NoRecovery
<1>13. CASE Restart
  <2>1. registered = {} /\ known = {} /\ UNCHANGED <<registered, rec, timers>>
    BY <1>13 DEF Restart, registry, Inv, Scheduler, Down
  <2>2. \A l \in LordIds : rec[l].cand = {}
    BY <1>0, <2>1
  <2> QED  BY <2>1, <2>2 DEF Followed
<1> QED
  BY <1>1, <1>2, <1>3, <1>4, <1>5, <1>6, <1>7, <1>8, <1>9, <1>10, <1>11, <1>12, <1>13,
     QuietSteps DEF Next

LEMMA OrphanStep ==
    ASSUME Inv, Followed, [Next]_vars, NEW p \in Procs, Orphan(p)
    PROVE  \/ Orphan(p)' /\ lord'[p] = lord[p] /\ state'[p] = state[p]
           \/ Reported(p) \/ Moved(p) \/ Crash
<1> DEFINE Goal == \/ Orphan(p)' /\ lord'[p] = lord[p] /\ state'[p] = state[p]
                   \/ Reported(p) \/ Moved(p) \/ Crash
<1>0. /\ TypeOK /\ up /\ p \in known /\ lord[p] \notin registered /\ known = walKnown
  BY DEF Orphan, Inv, KnownEverywhere
<1>1. ASSUME UNCHANGED <<up, registered>>, known \subseteq known', lord'[p] = lord[p],
             state'[p] = state[p]
      PROVE  Goal
  BY <1>0, <1>1 DEF Orphan
<1>2. ASSUME Quiet PROVE Goal
  BY <1>1, <1>2 DEF Quiet, table, registry
<1>3. ASSUME NEW q \in Procs, NEW l \in LordIds, Spawn(q, l) PROVE Goal
  <2>1. /\ q # p /\ lord' = [lord EXCEPT ![q] = l]
        /\ \E st \in State : state' = [state EXCEPT ![q] = st]
    BY <1>0, <1>3 DEF Spawn, State
  <2>2. lord'[p] = lord[p] /\ state'[p] = state[p]
    BY <1>0, <2>1 DEF TypeOK
  <2> QED  BY <1>1, <1>3, <2>2 DEF Spawn, registry
<1>4. ASSUME NEW q \in Procs, NEW l \in LordIds, Migrate(q, l) PROVE Goal
  <2>1. CASE q = p
    BY <1>4, <2>1 DEF Moved
  <2>2. CASE q # p
    <3>1. PICK nil \in BOOLEAN : Respawn(q, l, nil)
      BY <1>4 DEF Migrate
    <3>2. lord'[p] = lord[p] /\ state'[p] = state[p] /\ UNCHANGED known
      BY <1>0, <2>2, <3>1, RespawnEffect DEF Lord
    <3> QED  BY <1>1, <1>4, <3>2 DEF Migrate, registry
  <2> QED  BY <2>1, <2>2
<1>5. ASSUME NEW q \in Procs, NEW l \in LordIds, RecoverRespawn(l, q) PROVE Goal
  <2>1. q \in rec[l].cand
    BY <1>5 DEF RecoverRespawn, Inv, Scheduler, Recoveries
  <2>2. q # p
    BY <1>0, <2>1 DEF Followed
  <2>3. PICK nil \in BOOLEAN : Respawn(q, rec[l].target, nil)
    BY <1>5 DEF RecoverRespawn
  <2>4. rec[l].target \in Lord
    BY <1>0 DEF TypeOK, Recovery
  <2>5. lord'[p] = lord[p] /\ state'[p] = state[p] /\ UNCHANGED known
    BY <1>0, <2>2, <2>3, <2>4, RespawnEffect
  <2> QED  BY <1>1, <1>5, <2>5 DEF RecoverRespawn, registry
<1>6. ASSUME NEW q \in Procs, AckTimeout(q) PROVE Goal
  <2>1. q # p
    BY <1>0, <1>6 DEF AckTimeout, Followed
  <2>2. state'[p] = state[p]
    BY <1>0, <1>6, <2>1 DEF AckTimeout, UpdateStates, TypeOK
  <2> QED  BY <1>1, <1>6, <2>2 DEF AckTimeout, registry
<1>7. ASSUME NEW l \in LordIds, RecvCmd(l) PROVE Goal
  <2>1. CASE Head(inflight[l]).proc = p
    BY <1>7, <2>1 DEF Reported
  <2>2. CASE Head(inflight[l]).proc # p
    <3>1. lord'[p] = lord[p] /\ state'[p] = state[p]
      BY <1>0, <1>7, <2>2, RecvOthers
    <3> QED  BY <1>1, <1>7, <3>1 DEF RecvCmd, registry
  <2> QED  BY <2>1, <2>2
<1>8. ASSUME NEW l \in LordIds, \/ SessionEnd(l) \/ RecoverList(l) \/ RecoverPick(l)
                                \/ RecoverExhausted(l)
      PROVE  Goal
  BY <1>1, <1>8 DEF SessionEnd, RecoverList, RecoverPick, RecoverExhausted, table, registry
<1>9. ASSUME NEW l \in LordIds, RecoverSweep(l) PROVE Goal
  <2>1. p \notin rec[l].cand
    BY <1>0 DEF Followed
  <2>2. state'[p] = state[p]
    BY <1>0, <1>9, <2>1 DEF RecoverSweep, UpdateStates, TypeOK
  <2> QED  BY <1>1, <1>9, <2>2 DEF RecoverSweep, registry
<1>10. ASSUME NEW h \in Hosts, Connect(h) PROVE Goal
  <2>1. lord'[p] = lord[p] /\ lord[p] # nextId /\ registered' = registered \cup {nextId}
    BY <1>0, <1>10, ConnectBinds
  <2> QED  BY <1>0, <1>10, <2>1 DEF Connect, Orphan
<1>11. CASE Restart
  BY <1>0, <1>11 DEF Restart
<1> QED
  BY <1>2, <1>3, <1>4, <1>5, <1>6, <1>7, <1>8, <1>9, <1>10, <1>11, QuietSteps DEF Next

\* A process that a restart of the scheduler brings back on a lord id of an
\* earlier incarnation can neither be killed nor ended by a timer until a lord
\* reports it or it is migrated, although its lord may be connected again
\* (wal.go:177, recovery.go:241).
THEOREM ClusterOrphansStay == Spec => OrphansStay
<1>1. Init => Followed
  BY DEF Init, Followed, NoRecovery
<1>2. Inv /\ Followed /\ [Next]_vars => Followed'
  BY FollowedStep
<1>3. ASSUME Inv, Followed, [Next]_vars
      PROVE  \A p \in Procs : Orphan(p) =>
                /\ ~Kill(p)
                /\ \/ Orphan(p)' /\ lord'[p] = lord[p] /\ state'[p] = state[p]
                   \/ Reported(p) \/ Moved(p) \/ Crash
  <2>1. \A p \in Procs : Orphan(p) => ~Kill(p)
    <3>1. sessions \subseteq registered
      BY <1>3 DEF Inv, Scheduler, Ids
    <3> QED  BY <3>1 DEF Orphan, Kill, CanSend
  <2> QED  BY <1>3, <2>1, OrphanStep
<1> QED  BY <1>1, <1>2, <1>3, Invariance, PTL DEF Spec, OrphansStay

LEMMA EndedStep ==
    ASSUME Inv, LifeInv, [Next]_vars, NEW p \in Procs, Shown[p] \in Final
    PROVE  Shown'[p] = Shown[p] \/ Reported(p)
<1> DEFINE Goal == Shown'[p] = Shown[p] \/ Reported(p)
<1>0. Shown[p] \notin {"NEW", "RESTARTING"} /\ Shown[p] \notin {"READY", "RUNNING"}
  BY DEF Final
<1>1. CASE Quiet \/ Crash \/ Restart
  BY <1>1, SameLife
<1>2. ASSUME NEW q \in Procs, NEW l \in LordIds, Spawn(q, l) PROVE Goal
  <2>1. Life!Create(q)
    BY <1>2, SpawnLife
  <2>2. q # p
    BY <1>0, <2>1 DEF Life!Create
  <2> QED  BY <2>1, <2>2 DEF Life!Create
<1>3. ASSUME NEW q \in Procs, Life!Respawn(q) PROVE Goal
  BY <1>3 DEF Life!Respawn, Life!Final, Final
<1>4. ASSUME NEW q \in Procs, NEW l \in LordIds, Migrate(q, l) PROVE Goal
  <2>1. q \in known /\ UNCHANGED up /\ l \in Lord
    BY <1>4 DEF Migrate, Lord
  <2>2. PICK nil \in BOOLEAN : Respawn(q, l, nil)
    BY <1>4 DEF Migrate
  <2> QED  BY <1>3, <2>1, <2>2, RespawnLife
<1>5. ASSUME NEW q \in Procs, NEW l \in LordIds, RecoverRespawn(l, q) PROVE Goal
  <2>1. q \in known /\ UNCHANGED up
    BY <1>5 DEF RecoverRespawn, Inv, Scheduler, Recoveries
  <2>2. PICK nil \in BOOLEAN : Respawn(q, rec[l].target, nil)
    BY <1>5 DEF RecoverRespawn
  <2>3. rec[l].target \in Lord
    BY DEF Inv, TypeOK, Recovery
  <2> QED  BY <1>3, <2>1, <2>2, <2>3, RespawnLife
<1>6. ASSUME NEW P \in SUBSET Procs, \A q \in P : state[q] = "RESTARTING",
             state' = [q \in Procs |-> IF q \in P THEN "STOPPED" ELSE state[q]],
             UNCHANGED <<up, known>>, up
      PROVE  Goal
  <2>1. PICK Q \in SUBSET Procs : Life!GiveUp(Q)
    BY <1>6, GiveUpLife
  <2> QED  BY <1>0, <2>1 DEF Life!GiveUp
<1>7. ASSUME NEW q \in Procs, AckTimeout(q) PROVE Goal
  <2> DEFINE P == {q} \cap {r \in Procs : state[r] = "RESTARTING"}
  <2>1. UpdateStates(P, "STOPPED", NoLord) /\ UNCHANGED <<up, known, walKnown>>
    BY <1>7 DEF AckTimeout
  <2>2. CASE up
    BY <1>6, <2>1, <2>2 DEF UpdateStates
  <2>3. CASE ~up
    <3>1. P = {}
      BY <2>3 DEF LifeInv
    <3>2. UNCHANGED <<state, walState>>
      BY <2>1, <3>1 DEF UpdateStates, AppendState, Inv, TypeOK
    <3> QED  BY <2>1, <3>2, KeptLife
  <2> QED  BY <2>2, <2>3
<1>8. ASSUME NEW l \in LordIds, RecoverSweep(l) PROVE Goal
  <2> DEFINE P == {q \in rec[l].cand : state[q] = "RESTARTING"}
  <2>1. UpdateStates(P, "STOPPED", NoLord) /\ UNCHANGED <<up, known>>
    BY <1>8 DEF RecoverSweep
  <2>2. up /\ P \in SUBSET Procs
    BY <1>8 DEF RecoverSweep, Inv, Scheduler, Recoveries, Down, TypeOK
  <2> QED  BY <1>6, <2>1, <2>2 DEF UpdateStates
<1>9. ASSUME NEW l \in LordIds, RecvCmd(l) PROVE Goal
  <2>1. CASE Head(inflight[l]).proc = p
    BY <1>9, <2>1 DEF Reported
  <2>2. CASE Head(inflight[l]).proc # p
    <3>1. up /\ UNCHANGED <<up, known>>
      BY <1>9 DEF RecvCmd, Inv, Scheduler, Ids, Down
    <3>2. state'[p] = state[p]
      BY <1>9, <2>2, RecvOthers DEF Inv
    <3> QED  BY <3>1, <3>2, ShownBefore, ShownUp
  <2> QED  BY <2>1, <2>2
<1>10. ASSUME NEW l \in LordIds,
              SessionEnd(l) \/ RecoverList(l) \/ RecoverPick(l) \/ RecoverExhausted(l)
       PROVE  Goal
  BY <1>10, KeptLife DEF SessionEnd, RecoverList, RecoverPick, RecoverExhausted, table, wal
<1>11. ASSUME NEW h \in Hosts, Connect(h) PROVE Goal
  BY <1>11, KeptLife DEF Connect, wal
<1> QED
  BY <1>1, <1>2, <1>4, <1>5, <1>7, <1>8, <1>9, <1>10, <1>11, QuietSteps DEF Next

\* An ended process stays as tenants were shown it, over crashes, restarts and
\* recoveries, until a lord reports otherwise.
THEOREM ClusterEndedStays == Spec => EndedStays
<1>1. Init => LifeInv
  BY DEF Init, LifeInv
<1>2. Inv /\ LifeInv /\ [Next]_vars => LifeInv'
  BY NextLife
<1>3. ASSUME Inv, LifeInv, [Next]_vars
      PROVE  \A p \in Procs : Shown[p] \in Final => Shown'[p] = Shown[p] \/ Reported(p)
  BY <1>3, EndedStep
<1> QED  BY <1>1, <1>2, <1>3, Invariance, PTL DEF Spec, EndedStays
=============================================================================
