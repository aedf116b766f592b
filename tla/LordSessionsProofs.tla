------------------------- MODULE LordSessionsProofs -------------------------
(***************************************************************************)
(* Proofs about module LordSessions, for any lords, capacity, time to live *)
(* and period.                                                             *)
(***************************************************************************)
EXTENDS LordSessions, SequenceTheorems, TLAPS

USE DEF vars, links, registry, shutdown

\* What is left when an event is taken out of the outbox.
LEMMA Removed ==
    ASSUME NEW S, NEW s \in Seq(S), NEW i \in 1..Len(s)
    PROVE  /\ RemoveAt(s, i) \in Seq(S)
           /\ Len(RemoveAt(s, i)) = Len(s) - 1
           /\ \A j \in 1..Len(s) - 1 : RemoveAt(s, i)[j] = IF j < i THEN s[j] ELSE s[j + 1]
<1> DEFINE a == SubSeq(s, 1, i - 1)
           b == SubSeq(s, i + 1, Len(s))
<1>1. a \in Seq(S) /\ Len(a) = i - 1 /\ \A j \in 1..i - 1 : a[j] = s[j]
  OBVIOUS
<1>2. /\ b \in Seq(S)
      /\ Len(b) = Len(s) - i
      /\ \A j \in 1..Len(s) - i : b[j] = s[j + i]
  OBVIOUS
<1> HIDE DEF a, b
<1>3. a \o b \in Seq(S) /\ Len(a \o b) = Len(s) - 1
  <2>1. a \o b \in Seq(S) /\ Len(a \o b) = Len(a) + Len(b)
    BY <1>1, <1>2, ConcatProperties
  <2>2. Len(s) \in Nat
    OBVIOUS
  <2> QED  BY <1>1, <1>2, <2>1, <2>2
<1>4. \A j \in 1..Len(s) - 1 : (a \o b)[j] = IF j < i THEN s[j] ELSE s[j + 1]
  <2> TAKE j \in 1..Len(s) - 1
  <2>1. Len(a) + Len(b) = Len(s) - 1 /\ Len(s) \in Nat
    BY <1>1, <1>2
  <2>2. (a \o b)[j] = IF j <= Len(a) THEN a[j] ELSE b[j - Len(a)]
    BY <1>1, <1>2, <2>1
  <2>3. CASE j < i
    BY <1>1, <2>2, <2>3
  <2>4. CASE ~(j < i)
    <3>1. j - (i - 1) \in 1..Len(s) - i
      BY <2>4, <2>1
    <3>2. b[j - (i - 1)] = s[j - (i - 1) + i]
      BY <3>1, <1>2
    <3>3. j - (i - 1) + i = j + 1
      BY <2>1
    <3> QED  BY <1>1, <2>2, <2>4, <3>2, <3>3
  <2> QED  BY <2>3, <2>4
<1> QED  BY <1>3, <1>4 DEF RemoveAt, a, b

-----------------------------------------------------------------------------
(* Types. *)

TypeLinks ==
    /\ step \in [Lords -> {"off", "session", "registered", "open", "ended", "deleted", "closed"}]
    /\ sessions \in SUBSET Lords
    /\ ear \in [Lords -> {"ack", "events", "drain", "deaf"}]

TypeOutbox == outbox \in [Lords -> Seq(Event)] /\ \A l \in Lords : Len(outbox[l]) <= Cap

TypeRegistry ==
    /\ healthy \in SUBSET Lords
    /\ shown \in SUBSET Lords
    /\ drained \in SUBSET Lords
    /\ age \in [Lords -> 0..MaxAge]
    /\ since \in 0..Period

TypeCalls == placing \in Lords \cup {None} /\ stopping \in BOOLEAN /\ toAsk \in SUBSET Lords

LEMMA TypeParts == TypeOK <=> TypeLinks /\ TypeOutbox /\ TypeRegistry /\ TypeCalls
BY DEF TypeOK, TypeLinks, TypeOutbox, TypeRegistry, TypeCalls

LEMMA AgeRange == MaxAge \in Nat /\ 0 \in 0..MaxAge /\ \A a \in 0..MaxAge : a < MaxAge => a + 1 \in 0..MaxAge
BY SessionAssumption DEF MaxAge

LEMMA InitType == Init => TypeOK
<1> SUFFICES ASSUME Init PROVE TypeOK
  OBVIOUS
<1>1. TypeLinks /\ TypeCalls
  BY DEF Init, TypeLinks, TypeCalls
<1>2. <<>> \in Seq(Event) /\ Len(<<>>) = 0
  OBVIOUS
<1>3. TypeOutbox
  BY <1>2, SessionAssumption DEF Init, TypeOutbox
<1>4. TypeRegistry
  BY AgeRange, SessionAssumption DEF Init, TypeRegistry
<1> QED  BY <1>1, <1>3, <1>4, TypeParts

LEMMA PutType ==
    ASSUME TypeOutbox, NEW l \in Lords, NEW e \in Event, PutOrDrop(l, e)
    PROVE  TypeOutbox'
<1>1. CASE UNCHANGED outbox
  BY <1>1 DEF TypeOutbox
<1>2. CASE Put(l, e)
  <2>1. outbox[l] \in Seq(Event) /\ Len(outbox[l]) < Cap
    BY <1>2, SessionAssumption DEF TypeOutbox, Put, Full
  <2>2. Append(outbox[l], e) \in Seq(Event) /\ Len(Append(outbox[l], e)) <= Cap
    BY <2>1, SessionAssumption, AppendProperties
  <2> HIDE DEF Event
  <2> QED  BY <1>2, <2>2 DEF TypeOutbox, Put
<1> QED  BY <1>1, <1>2 DEF PutOrDrop

LEMMA SendLoopType == ASSUME TypeOutbox, NEW l \in Lords, SendLoop(l) PROVE TypeOutbox'
<1>1. PICK i \in 1..Len(outbox[l]) : outbox' = [outbox EXCEPT ![l] = RemoveAt(@, i)]
  BY DEF SendLoop
<1>2. outbox[l] \in Seq(Event) /\ Len(outbox[l]) <= Cap
  BY DEF TypeOutbox
<1>3. RemoveAt(outbox[l], i) \in Seq(Event) /\ Len(RemoveAt(outbox[l], i)) <= Cap
  BY <1>2, Removed, SessionAssumption
<1> QED  BY <1>1, <1>3 DEF TypeOutbox

LEMMA NextOutbox == ASSUME TypeOutbox, TypeCalls, [Next]_vars PROVE TypeOutbox'
<1>1. ASSUME NEW l \in Lords,
             \/ Connect(l) \/ Register(l) \/ EndStream(l) \/ DeleteSession(l)
             \/ MarkUnhealthy(l) \/ Pick(l)
      PROVE  TypeOutbox'
  BY <1>1 DEF TypeOutbox, Connect, Register, EndStream, DeleteSession, MarkUnhealthy, Pick
<1>2. ASSUME NEW l \in Lords, Acknowledge(l) \/ LazyDeath(l) \/ AskToDrain(l) PROVE TypeOutbox'
  BY <1>2, PutType DEF Acknowledge, LazyDeath, AskToDrain, Event, PutOrDrop
<1>3. ASSUME NEW l \in Lords, NEW named \in Lords, Heartbeat(l, named) PROVE TypeOutbox'
  BY <1>3, PutType DEF Heartbeat, Event
<1>4. CASE SendSpawn
  BY <1>4, PutType DEF SendSpawn, Event, TypeCalls
<1>5. CASE Tick \/ SweepHeartbeats \/ Shutdown \/ UNCHANGED vars
  BY <1>5 DEF TypeOutbox, Tick, SweepHeartbeats, Shutdown
<1> QED  BY <1>1, <1>2, <1>3, <1>4, <1>5, SendLoopType DEF Next

LEMMA NextLinks == ASSUME TypeOutbox, TypeLinks, [Next]_vars PROVE TypeLinks'
<1>1. ASSUME NEW l \in Lords,
             \/ Connect(l) \/ Register(l) \/ Acknowledge(l) \/ EndStream(l) \/ DeleteSession(l)
             \/ MarkUnhealthy(l) \/ Pick(l) \/ LazyDeath(l) \/ AskToDrain(l)
      PROVE  TypeLinks'
  BY <1>1 DEF TypeLinks, Connect, Register, Acknowledge, EndStream, DeleteSession, MarkUnhealthy,
              Pick, LazyDeath, AskToDrain, Goto
<1>2. ASSUME NEW l \in Lords, SendLoop(l) PROVE TypeLinks'
  <2>1. PICK e : ear' = [ear EXCEPT ![l] = Heard(@, e)]
    BY <1>2 DEF SendLoop
  <2>2. Heard(ear[l], e) \in {"ack", "events", "drain", "deaf"}
    BY DEF Heard, TypeLinks
  <2> QED  BY <1>2, <2>1, <2>2 DEF TypeLinks, SendLoop
<1>3. ASSUME NEW l \in Lords, NEW named \in Lords, Heartbeat(l, named) PROVE TypeLinks'
  BY <1>3 DEF TypeLinks, Heartbeat
<1>4. CASE SendSpawn \/ Tick \/ SweepHeartbeats \/ Shutdown \/ UNCHANGED vars
  BY <1>4 DEF TypeLinks, SendSpawn, Tick, SweepHeartbeats, Shutdown
<1> QED  BY <1>1, <1>2, <1>3, <1>4 DEF Next

LEMMA NextRegistry == ASSUME TypeRegistry, [Next]_vars PROVE TypeRegistry'
<1>1. ASSUME NEW l \in Lords,
             \/ Connect(l) \/ Acknowledge(l) \/ EndStream(l) \/ DeleteSession(l) \/ SendLoop(l)
             \/ Pick(l) \/ LazyDeath(l) \/ AskToDrain(l)
      PROVE  TypeRegistry'
  BY <1>1 DEF TypeRegistry, Connect, Acknowledge, EndStream, DeleteSession, SendLoop, Pick,
              LazyDeath, AskToDrain
<1>2. ASSUME NEW l \in Lords, Register(l) \/ MarkUnhealthy(l) PROVE TypeRegistry'
  BY <1>2, AgeRange DEF TypeRegistry, Register, MarkUnhealthy
<1>3. ASSUME NEW l \in Lords, NEW named \in Lords, Heartbeat(l, named) PROVE TypeRegistry'
  BY <1>3, AgeRange DEF TypeRegistry, Heartbeat, UpdateStats
<1>4. CASE Tick
  BY <1>4, AgeRange, SessionAssumption DEF TypeRegistry, Tick
<1>5. CASE SweepHeartbeats
  BY <1>5, AgeRange, SessionAssumption DEF TypeRegistry, SweepHeartbeats, Overdue
<1>6. CASE SendSpawn \/ Shutdown \/ UNCHANGED vars
  BY <1>6 DEF TypeRegistry, SendSpawn, Shutdown
<1> QED  BY <1>1, <1>2, <1>3, <1>4, <1>5, <1>6 DEF Next

LEMMA NextCalls == ASSUME TypeLinks, TypeCalls, [Next]_vars PROVE TypeCalls'
<1>1. ASSUME NEW l \in Lords,
             \/ Connect(l) \/ Register(l) \/ Acknowledge(l) \/ EndStream(l) \/ DeleteSession(l)
             \/ MarkUnhealthy(l) \/ SendLoop(l) \/ LazyDeath(l)
      PROVE  TypeCalls'
  BY <1>1 DEF TypeCalls, Connect, Register, Acknowledge, EndStream, DeleteSession, MarkUnhealthy,
              SendLoop, LazyDeath
<1>2. ASSUME NEW l \in Lords, Pick(l) \/ AskToDrain(l) PROVE TypeCalls'
  BY <1>2 DEF TypeCalls, Pick, AskToDrain
<1>3. ASSUME NEW l \in Lords, NEW named \in Lords, Heartbeat(l, named) PROVE TypeCalls'
  BY <1>3 DEF TypeCalls, Heartbeat
<1>4. CASE SendSpawn \/ Shutdown
  BY <1>4 DEF TypeCalls, TypeLinks, SendSpawn, Shutdown
<1>5. CASE Tick \/ SweepHeartbeats \/ UNCHANGED vars
  BY <1>5 DEF TypeCalls, Tick, SweepHeartbeats
<1> QED  BY <1>1, <1>2, <1>3, <1>4, <1>5 DEF Next

LEMMA NextType == ASSUME TypeOK, [Next]_vars PROVE TypeOK'
<1>1. TypeLinks' /\ TypeOutbox' /\ TypeRegistry' /\ TypeCalls'
  BY TypeParts, NextLinks, NextOutbox, NextRegistry, NextCalls
<1> QED  BY <1>1 DEF TypeOK, TypeLinks, TypeOutbox, TypeRegistry, TypeCalls

-----------------------------------------------------------------------------
(* HealthyHasSession needs to know at which steps of Connect a lord has a    *)
(* session, and at which it may be healthy.                                  *)

Connected == {"session", "registered", "open", "ended"}

SessionSteps == \A l \in Lords : l \in sessions <=> step[l] \in Connected

HealthySteps == \A l \in healthy : step[l] \in {"registered", "open", "ended", "deleted"}

LEMMA NextSteps ==
    ASSUME TypeOK, SessionSteps, HealthySteps, [Next]_vars
    PROVE  SessionSteps' /\ HealthySteps'
<1> USE DEF SessionSteps, HealthySteps, Connected
<1>1. ASSUME NEW l \in Lords,
             \/ Connect(l) \/ Register(l) \/ Acknowledge(l) \/ EndStream(l) \/ DeleteSession(l)
             \/ MarkUnhealthy(l)
      PROVE  SessionSteps' /\ HealthySteps'
  BY <1>1 DEF TypeOK, Connect, Register, Acknowledge, EndStream, DeleteSession, MarkUnhealthy, Goto
<1>2. ASSUME NEW l \in Lords, SendLoop(l) \/ LazyDeath(l) \/ Pick(l) \/ AskToDrain(l)
      PROVE  SessionSteps' /\ HealthySteps'
  BY <1>2 DEF SendLoop, LazyDeath, Pick, AskToDrain
<1>3. ASSUME NEW l \in Lords, NEW named \in Lords, Heartbeat(l, named)
      PROVE  SessionSteps' /\ HealthySteps'
  BY <1>3 DEF Heartbeat, UpdateStats
<1>4. CASE Tick \/ SweepHeartbeats \/ SendSpawn \/ Shutdown \/ UNCHANGED vars
  BY <1>4 DEF Tick, SweepHeartbeats, SendSpawn, Shutdown
<1> QED  BY <1>1, <1>2, <1>3, <1>4 DEF Next

\* Only lords that placement takes for healthy are shown as such.
ShownIsHealthy == shown \subseteq healthy

LEMMA NextShown == ASSUME ShownIsHealthy, [Next]_vars PROVE ShownIsHealthy'
<1> USE DEF ShownIsHealthy
<1>1. ASSUME NEW l \in Lords,
             \/ Connect(l) \/ Register(l) \/ Acknowledge(l) \/ EndStream(l) \/ DeleteSession(l)
             \/ MarkUnhealthy(l) \/ SendLoop(l) \/ LazyDeath(l) \/ Pick(l) \/ AskToDrain(l)
      PROVE  ShownIsHealthy'
  BY <1>1 DEF Connect, Register, Acknowledge, EndStream, DeleteSession, MarkUnhealthy, SendLoop,
              LazyDeath, Pick, AskToDrain
<1>2. ASSUME NEW l \in Lords, NEW named \in Lords, Heartbeat(l, named) PROVE ShownIsHealthy'
  BY <1>2 DEF Heartbeat, UpdateStats
<1>3. CASE Tick \/ SweepHeartbeats \/ SendSpawn \/ Shutdown \/ UNCHANGED vars
  BY <1>3 DEF Tick, SweepHeartbeats, SendSpawn, Shutdown
<1> QED  BY <1>1, <1>2, <1>3 DEF Next

-----------------------------------------------------------------------------
(* A healthy lord was within its time to live when the last sweep was made:  *)
(* since then its age and the time since the sweep have grown together.      *)

AgeBound == \A l \in healthy : age[l] <= TTL + since

LEMMA NextAge == ASSUME TypeOK, AgeBound, [Next]_vars PROVE AgeBound'
<1> USE DEF AgeBound
<1>0. TTL \in Nat /\ since \in Nat /\ Period \in Nat /\ \A l \in Lords : age[l] \in Nat
  BY SessionAssumption, AgeRange DEF TypeOK
<1>1. ASSUME NEW l \in Lords,
             \/ Connect(l) \/ Acknowledge(l) \/ EndStream(l) \/ DeleteSession(l) \/ SendLoop(l)
             \/ LazyDeath(l) \/ Pick(l) \/ AskToDrain(l)
      PROVE  AgeBound'
  BY <1>1 DEF Connect, Acknowledge, EndStream, DeleteSession, SendLoop, LazyDeath, Pick, AskToDrain
<1>2. ASSUME NEW l \in Lords, Register(l) \/ MarkUnhealthy(l) PROVE AgeBound'
  BY <1>0, <1>2 DEF TypeOK, Register, MarkUnhealthy
<1>3. ASSUME NEW l \in Lords, NEW named \in Lords, Heartbeat(l, named) PROVE AgeBound'
  BY <1>0, <1>3 DEF TypeOK, Heartbeat, UpdateStats
<1>4. CASE Tick
  BY <1>0, <1>4 DEF TypeOK, Tick
<1>5. CASE SweepHeartbeats
  BY <1>0, <1>5 DEF TypeOK, SweepHeartbeats, Overdue
<1>6. CASE SendSpawn \/ Shutdown \/ UNCHANGED vars
  BY <1>6 DEF SendSpawn, Shutdown
<1> QED  BY <1>1, <1>2, <1>3, <1>4, <1>5, <1>6 DEF Next

-----------------------------------------------------------------------------
IInv == TypeOK /\ SessionSteps /\ HealthySteps /\ ShownIsHealthy /\ AgeBound

\* The conjunction of the parts above is inductive.
THEOREM Invariance == Spec => []IInv
<1>1. Init => IInv
  <2> SUFFICES ASSUME Init PROVE IInv
    OBVIOUS
  <2>1. SessionSteps /\ HealthySteps /\ ShownIsHealthy /\ AgeBound
    BY DEF Init, SessionSteps, Connected, HealthySteps, ShownIsHealthy, AgeBound
  <2> QED  BY <2>1, InitType DEF IInv
<1>2. IInv /\ [Next]_vars => IInv'
  BY NextType, NextSteps, NextShown, NextAge DEF IInv
<1> QED  BY <1>1, <1>2, PTL DEF Spec

\* The variables keep their types: the outboxes stay within their capacity.
THEOREM TypeCorrect == Spec => []TypeOK
BY Invariance, PTL DEF IInv

\* A lord that can be picked, or is shown as healthy, has a session, or is just
\* being marked unhealthy (connect.go:153).
THEOREM HealthyLordsAreConnected == Spec => []HealthyHasSession
<1>1. IInv => HealthyHasSession
  BY DEF IInv, TypeOK, SessionSteps, Connected, HealthySteps, ShownIsHealthy, HealthyHasSession
<1> QED  BY <1>1, Invariance, PTL

\* Silence of more than TTL and a sweep period makes a lord unhealthy
\* (placement.go:269).
THEOREM StaleLordsAreSwept == Spec => []StaleIsSwept
<1>1. IInv => StaleIsSwept
  <2> SUFFICES ASSUME IInv, NEW l \in healthy PROVE age[l] <= TTL + Period
    BY DEF StaleIsSwept
  <2>1. TTL \in Nat /\ Period \in Nat /\ since \in 0..Period /\ age[l] \in Nat
    BY SessionAssumption, AgeRange DEF IInv, TypeOK
  <2>2. age[l] <= TTL + since
    BY DEF IInv, AgeBound
  <2> QED  BY <2>1, <2>2
<1> QED  BY <1>1, Invariance, PTL
=============================================================================
