-------------------------- MODULE StdinRelayProofs --------------------------
(***************************************************************************)
(* Proofs about module StdinRelay, for any lords, calls and capacity.      *)
(***************************************************************************)
EXTENDS StdinRelay, SequenceTheorems, TLAPS

USE DEF vars, calls, history

\* What is left when an event is taken out of the outbox.
LEMMA Removed ==
    ASSUME NEW S, NEW s \in Seq(S), NEW i \in 1..Len(s)
    PROVE  /\ RemoveAt(s, i) \in Seq(S)
           /\ Len(RemoveAt(s, i)) = Len(s) - 1
           /\ \A j \in 1..Len(s) - 1 : RemoveAt(s, i)[j] = IF j < i THEN s[j] ELSE s[j + 1]
<1> DEFINE a == SubSeq(s, 1, i - 1)
           b == SubSeq(s, i + 1, Len(s))
<1>1. a \in Seq(S) /\ Len(a) = i - 1 /\ \A j \in 1..i - 1 : a[j] = s[j]
  OBVIOUS
<1>2. /\ b \in Seq(S)
      /\ Len(b) = Len(s) - i
      /\ \A j \in 1..Len(s) - i : b[j] = s[j + i]
  OBVIOUS
<1> HIDE DEF a, b
<1>3. a \o b \in Seq(S) /\ Len(a \o b) = Len(s) - 1
  <2>1. a \o b \in Seq(S) /\ Len(a \o b) = Len(a) + Len(b)
    BY <1>1, <1>2, ConcatProperties
  <2>2. Len(s) \in Nat
    OBVIOUS
  <2> QED  BY <1>1, <1>2, <2>1, <2>2
<1>4. \A j \in 1..Len(s) - 1 : (a \o b)[j] = IF j < i THEN s[j] ELSE s[j + 1]
  <2> TAKE j \in 1..Len(s) - 1
  <2>1. Len(a) + Len(b) = Len(s) - 1 /\ Len(s) \in Nat
    BY <1>1, <1>2
  <2>2. (a \o b)[j] = IF j <= Len(a) THEN a[j] ELSE b[j - Len(a)]
    BY <1>1, <1>2, <2>1
  <2>3. CASE j < i
    BY <1>1, <2>2, <2>3
  <2>4. CASE ~(j < i)
    <3>1. j - (i - 1) \in 1..Len(s) - i
      BY <2>4, <2>1
    <3>2. b[j - (i - 1)] = s[j - (i - 1) + i]
      BY <3>1, <1>2
    <3>3. j - (i - 1) + i = j + 1
      BY <2>1
    <3> QED  BY <1>1, <2>2, <2>4, <3>2, <3>3
  <2> QED  BY <2>3, <2>4
<1> QED  BY <1>3, <1>4 DEF RemoveAt, a, b

-----------------------------------------------------------------------------
LEMMA InitType == Init => TypeOK
<1> SUFFICES ASSUME Init PROVE TypeOK
  OBVIOUS
<1>1. <<>> \in Seq(Calls) /\ Len(<<>>) = 0
  OBVIOUS
<1> QED  BY <1>1, RelayAssumption DEF Init, TypeOK

LEMMA StreamType ==
    ASSUME TypeOK, NEW l \in Lords, Connect(l) \/ Disconnect(l) \/ Bind(l)
    PROVE  TypeOK'
BY DEF TypeOK, Connect, Disconnect, Bind

LEMMA SendLoopType == ASSUME TypeOK, NEW l \in Lords, SendLoop(l) PROVE TypeOK'
<1>1. PICK i \in 1..Len(outbox[l]) :
         /\ outbox' = [outbox EXCEPT ![l] = RemoveAt(@, i)]
         /\ acks' = acks \cup {outbox[l][i]}
  BY DEF SendLoop
<1>2. outbox[l] \in Seq(Calls) /\ Len(outbox[l]) <= Cap
  BY DEF TypeOK
<1>3. RemoveAt(outbox[l], i) \in Seq(Calls) /\ Len(RemoveAt(outbox[l], i)) <= Cap
  BY <1>2, Removed, RelayAssumption
<1>4. outbox' \in [Lords -> Seq(Calls)] /\ \A m \in Lords : Len(outbox'[m]) <= Cap
  BY <1>1, <1>3 DEF TypeOK
<1>5. outbox[l][i] \in Calls
  BY <1>2
<1> QED  BY <1>1, <1>4, <1>5 DEF TypeOK, SendLoop

LEMMA AckType == ASSUME TypeOK, NEW c \in Calls, DeliverAck(c) \/ LoseAck(c) PROVE TypeOK'
BY DEF TypeOK, DeliverAck, LoseAck

LEMMA SendStdinType == ASSUME TypeOK, NEW c \in Calls, SendStdin(c), to[c] \in Lords PROVE TypeOK'
<1>1. outbox' \in [Lords -> Seq(Calls)] /\ \A m \in Lords : Len(outbox'[m]) <= Cap
  BY RelayAssumption DEF TypeOK, SendStdin
<1> QED  BY <1>1 DEF TypeOK, SendStdin

LEMMA CallType ==
    ASSUME TypeOK, NEW c \in Calls,
           Begin(c) \/ LookUp(c) \/ Answered(c) \/ GiveUpSend(c) \/ GiveUpWait(c)
    PROVE  TypeOK'
<1>1. CASE Begin(c)
  BY <1>1 DEF TypeOK, Begin
<1>2. CASE LookUp(c)
  BY <1>2 DEF TypeOK, LookUp, Return
<1>3. CASE Answered(c) \/ GiveUpSend(c)
  BY <1>3 DEF TypeOK, Answered, GiveUpSend, Return
<1>4. CASE GiveUpWait(c)
  BY <1>4 DEF TypeOK, GiveUpWait, Return
<1> QED  BY <1>1, <1>2, <1>3, <1>4

-----------------------------------------------------------------------------
(* The call knows a session that has been looked up. *)

Addressed == \A c \in Calls : Active(c) => to[c] \in Lords

LEMMA NextAddressed == ASSUME TypeOK, Addressed, [Next]_vars PROVE Addressed'
<1>1. CASE UNCHANGED vars
  BY <1>1 DEF Addressed, Active
<1>2. ASSUME NEW l \in Lords, Connect(l) \/ Disconnect(l) \/ Bind(l) \/ SendLoop(l)
      PROVE  Addressed'
  BY <1>2 DEF Addressed, Active, Connect, Disconnect, Bind, SendLoop
<1>3. ASSUME NEW c \in Calls, Begin(c) PROVE Addressed'
  BY <1>3 DEF Addressed, Active, Begin, TypeOK
<1>4. ASSUME NEW c \in Calls, WriteStdin(c) PROVE Addressed'
  BY <1>4 DEF Addressed, Active, WriteStdin, LookUp, SendStdin, Answered, GiveUpSend,
              GiveUpWait, Return, TypeOK
<1>5. ASSUME NEW c \in Calls, DeliverAck(c) \/ LoseAck(c) PROVE Addressed'
  BY <1>5 DEF Addressed, Active, DeliverAck, LoseAck
<1> QED  BY <1>1, <1>2, <1>3, <1>4, <1>5 DEF Next

LEMMA NextType == ASSUME TypeOK, Addressed, [Next]_vars PROVE TypeOK'
<1>1. CASE UNCHANGED vars
  BY <1>1 DEF TypeOK
<1>2. ASSUME NEW l \in Lords, Connect(l) \/ Disconnect(l) \/ Bind(l) \/ SendLoop(l)
      PROVE  TypeOK'
  BY <1>2, StreamType, SendLoopType
<1>3. ASSUME NEW c \in Calls, SendStdin(c) PROVE TypeOK'
  <2>1. to[c] \in Lords
    BY <1>3 DEF Addressed, Active, SendStdin
  <2> QED  BY <1>3, <2>1, SendStdinType
<1>4. ASSUME NEW c \in Calls,
             \/ Begin(c) \/ LookUp(c) \/ Answered(c) \/ GiveUpSend(c) \/ GiveUpWait(c)
             \/ DeliverAck(c) \/ LoseAck(c)
      PROVE  TypeOK'
  BY <1>4, CallType, AckType
<1> QED  BY <1>1, <1>2, <1>3, <1>4 DEF Next, WriteStdin

-----------------------------------------------------------------------------
(* Two calls in progress have overlapped each other: without it a call that *)
(* returns could delete the waiter of one that nobody has overlapped.       *)

BothOverlap ==
    \A c, d \in Calls : c # d /\ Active(c) /\ Active(d) => c \in overlapped

LEMMA BeginWaiter ==
    ASSUME TypeOK, WaiterKept, BothOverlap, NEW c \in Calls, Begin(c)
    PROVE  WaiterKept' /\ BothOverlap'
<1> DEFINE others == {d \in Calls : Active(d)}
<1>1. /\ slot' = c
      /\ pc' = [pc EXCEPT ![c] = "session"]
      /\ overlapped' = overlapped \cup others \cup (IF others = {} THEN {} ELSE {c})
  BY DEF Begin
<1>2. Active(c)' /\ \A d \in Calls \ {c} : Active(d)' <=> Active(d)
  BY <1>1 DEF TypeOK, Active
<1>3. ~Active(c)
  BY DEF Begin, Active
<1>4. \A d \in Calls \ {c} : Active(d)' => d \in overlapped' /\ c \in overlapped'
  BY <1>1, <1>2
<1>5. WaiterKept'
  BY <1>1, <1>2, <1>4 DEF WaiterKept
<1>6. BothOverlap'
  BY <1>4 DEF BothOverlap
<1> QED  BY <1>5, <1>6

LEMMA ReturnWaiter ==
    ASSUME TypeOK, WaiterKept, BothOverlap, NEW c \in Calls, Active(c), Return(c),
           UNCHANGED overlapped
    PROVE  WaiterKept' /\ BothOverlap'
<1>1. slot' = None /\ pc' = [pc EXCEPT ![c] = "done"]
  BY DEF Return
<1>2. \A d \in Calls : Active(d)' <=> Active(d) /\ d # c
  BY <1>1 DEF TypeOK, Active
<1>3. \A d \in Calls : Active(d)' => d \in overlapped'
  BY <1>2 DEF BothOverlap
<1>4. WaiterKept'
  BY <1>1, <1>3 DEF WaiterKept
<1>5. BothOverlap'
  BY <1>3 DEF BothOverlap
<1> QED  BY <1>4, <1>5

LEMMA NextWaiter ==
    ASSUME TypeOK, WaiterKept, BothOverlap, [Next]_vars
    PROVE  WaiterKept' /\ BothOverlap'
<1>1. CASE UNCHANGED vars
  BY <1>1 DEF WaiterKept, BothOverlap, Active
<1>2. ASSUME NEW l \in Lords, Connect(l) \/ Disconnect(l) \/ Bind(l) \/ SendLoop(l)
      PROVE  WaiterKept' /\ BothOverlap'
  BY <1>2 DEF WaiterKept, BothOverlap, Active, Connect, Disconnect, Bind, SendLoop
<1>3. ASSUME NEW c \in Calls, DeliverAck(c) \/ LoseAck(c) PROVE WaiterKept' /\ BothOverlap'
  BY <1>3 DEF WaiterKept, BothOverlap, Active, DeliverAck, LoseAck
<1>4. ASSUME NEW c \in Calls, Begin(c) PROVE WaiterKept' /\ BothOverlap'
  BY <1>4, BeginWaiter
<1>5. ASSUME NEW c \in Calls, Active(c), pc' = [pc EXCEPT ![c] = "send"] \/ pc' = [pc EXCEPT ![c] = "wait"],
             UNCHANGED <<slot, overlapped>>
      PROVE  WaiterKept' /\ BothOverlap'
  <2>1. \A d \in Calls : Active(d)' <=> Active(d)
    BY <1>5 DEF TypeOK, Active
  <2>2. WaiterKept'
    BY <1>5, <2>1, RelayAssumption DEF WaiterKept, TypeOK
  <2>3. BothOverlap'
    BY <1>5, <2>1 DEF BothOverlap
  <2> QED  BY <2>2, <2>3
<1>6. ASSUME NEW c \in Calls, WriteStdin(c) PROVE WaiterKept' /\ BothOverlap'
  <2>1. CASE LookUp(c)
    <3>1. Active(c)
      BY <2>1 DEF LookUp, Active
    <3> QED  BY <2>1, <3>1, <1>5, ReturnWaiter DEF LookUp
  <2>2. CASE SendStdin(c)
    <3>1. Active(c)
      BY <2>2 DEF SendStdin, Active
    <3> QED  BY <2>2, <3>1, <1>5 DEF SendStdin
  <2>3. CASE Answered(c) \/ GiveUpSend(c) \/ GiveUpWait(c)
    <3>1. Active(c)
      BY <2>3 DEF Answered, GiveUpSend, GiveUpWait, Active
    <3> QED  BY <2>3, <3>1, ReturnWaiter DEF Answered, GiveUpSend, GiveUpWait
  <2> QED  BY <1>6, <2>1, <2>2, <2>3 DEF WriteStdin
<1> QED  BY <1>1, <1>2, <1>3, <1>4, <1>6 DEF Next

-----------------------------------------------------------------------------
(* As long as nobody gives up or overlaps, there is one write under way at   *)
(* most, that of the call that waits.                                        *)

Quiet == gaveUp \cup overlapped = {}

\* Neither in its channel nor ahead of its ack.
Awaited(c) == pc[c] = "wait" /\ channel[c] = None

OwnAck == \A c \in Calls : channel[c] \in {c, None} /\ (channel[c] # None => pc[c] = "wait")

AckAwaited == \A c \in acks : Awaited(c)

QueuedAwaited ==
    \A l \in Lords : \A i \in 1..Len(outbox[l]) :
       Awaited(outbox[l][i]) /\ outbox[l][i] \notin acks

QueuedOnce ==
    \A l, m \in Lords : \A i \in 1..Len(outbox[l]), j \in 1..Len(outbox[m]) :
       outbox[l][i] = outbox[m][j] => l = m /\ i = j

OneWrite == OwnAck /\ AckAwaited /\ QueuedAwaited /\ QueuedOnce

LEMMA StreamWrite ==
    ASSUME TypeOK, OneWrite, NEW l \in Lords, Connect(l) \/ Disconnect(l) \/ Bind(l)
    PROVE  OneWrite'
BY DEF OneWrite, OwnAck, AckAwaited, QueuedAwaited, QueuedOnce, Awaited, Connect, Disconnect, Bind

LEMMA SendLoopWrite == ASSUME TypeOK, OneWrite, NEW l \in Lords, SendLoop(l) PROVE OneWrite'
<1>1. PICK i \in 1..Len(outbox[l]) :
         /\ outbox' = [outbox EXCEPT ![l] = RemoveAt(@, i)]
         /\ acks' = acks \cup {outbox[l][i]}
  BY DEF SendLoop
<1>2. UNCHANGED <<pc, channel>>
  BY DEF SendLoop
<1>3. outbox[l] \in Seq(Calls) /\ Len(outbox[l]) \in Nat
  BY DEF TypeOK
<1>4. \A m \in Lords : \A j \in 1..Len(outbox'[m]) :
         \E k \in 1..Len(outbox[m]) :
            /\ outbox'[m][j] = outbox[m][k]
            /\ m = l => k = IF j < i THEN j ELSE j + 1
            /\ m # l => k = j
  <2> TAKE m \in Lords
  <2> TAKE j \in 1..Len(outbox'[m])
  <2>1. CASE m = l
    <3>1. outbox'[m] = RemoveAt(outbox[l], i)
      BY <1>1, <2>1 DEF TypeOK
    <3>2. j \in 1..Len(outbox[l]) - 1
      BY <3>1, <1>3, Removed
    <3>3. outbox'[m][j] = outbox[l][IF j < i THEN j ELSE j + 1]
      BY <3>1, <3>2, <1>3, Removed
    <3>4. (IF j < i THEN j ELSE j + 1) \in 1..Len(outbox[l])
      BY <3>2, <1>3
    <3> QED  BY <3>3, <3>4, <2>1
  <2>2. CASE m # l
    BY <1>1, <2>2 DEF TypeOK
  <2> QED  BY <2>1, <2>2
<1>5. QueuedAwaited'
  <2> SUFFICES ASSUME NEW m \in Lords, NEW j \in 1..Len(outbox'[m])
               PROVE  /\ pc[outbox'[m][j]] = "wait" /\ channel[outbox'[m][j]] = None
                      /\ outbox'[m][j] \notin acks'
    BY <1>2 DEF QueuedAwaited, Awaited
  <2>1. PICK k \in 1..Len(outbox[m]) :
            /\ outbox'[m][j] = outbox[m][k]
            /\ m = l => k = IF j < i THEN j ELSE j + 1
            /\ m # l => k = j
    BY <1>4
  <2>2. /\ pc[outbox[m][k]] = "wait" /\ channel[outbox[m][k]] = None
        /\ outbox[m][k] \notin acks
    BY DEF OneWrite, QueuedAwaited, Awaited
  <2>3. ~(m = l /\ k = i)
    BY <2>1
  <2>4. outbox[m][k] # outbox[l][i]
    BY <2>3 DEF OneWrite, OwnAck, AckAwaited, QueuedAwaited, QueuedOnce
  <2> QED  BY <2>1, <2>2, <2>4, <1>1
<1>6. QueuedOnce'
  <2> SUFFICES ASSUME NEW m \in Lords, NEW n \in Lords,
                      NEW j \in 1..Len(outbox'[m]), NEW k \in 1..Len(outbox'[n])
               PROVE  outbox'[m][j] = outbox'[n][k] => m = n /\ j = k
    BY DEF QueuedOnce
  <2>1. PICK jj \in 1..Len(outbox[m]) :
            /\ outbox'[m][j] = outbox[m][jj]
            /\ m = l => jj = IF j < i THEN j ELSE j + 1
            /\ m # l => jj = j
    BY <1>4
  <2>2. PICK kk \in 1..Len(outbox[n]) :
            /\ outbox'[n][k] = outbox[n][kk]
            /\ n = l => kk = IF k < i THEN k ELSE k + 1
            /\ n # l => kk = k
    BY <1>4
  <2>3. outbox[m][jj] = outbox[n][kk] => m = n /\ jj = kk
    BY DEF OneWrite, QueuedOnce
  <2>4. m = n /\ jj = kk => j = k
    BY <2>1, <2>2, <1>3
  <2> QED  BY <2>1, <2>2, <2>3, <2>4
<1>7. AckAwaited'
  BY <1>1, <1>2 DEF OneWrite, AckAwaited, QueuedAwaited, Awaited
<1>8. OwnAck'
  BY <1>2 DEF OneWrite, OwnAck
<1> QED  BY <1>5, <1>6, <1>7, <1>8 DEF OneWrite

LEMMA DeliverAckWrite ==
    ASSUME TypeOK, OneWrite, WaiterKept, overlapped = {}, NEW c \in Calls, DeliverAck(c)
    PROVE  OneWrite'
<1>1. /\ acks' = acks \ {c}
      /\ channel' = [d \in Calls |-> IF d = slot /\ channel[d] = None THEN c ELSE channel[d]]
      /\ UNCHANGED <<pc, outbox>>
      /\ c \in acks
  BY DEF DeliverAck
<1>2. pc[c] = "wait" /\ channel[c] = None
  BY <1>1 DEF OneWrite, OwnAck, AckAwaited, QueuedAwaited, QueuedOnce, Awaited
<1>3. slot = c
  BY <1>2 DEF WaiterKept, Active
<1>4. channel' = [channel EXCEPT ![c] = c]
  BY <1>1, <1>2, <1>3 DEF TypeOK
<1>5. \A l \in Lords : \A i \in 1..Len(outbox[l]) : outbox[l][i] # c /\ outbox[l][i] \in Calls
  BY <1>1 DEF OneWrite, OwnAck, AckAwaited, QueuedAwaited, QueuedOnce, TypeOK
<1> QED  BY <1>1, <1>2, <1>4, <1>5 DEF OneWrite, OwnAck, AckAwaited, QueuedAwaited, QueuedOnce, Awaited, TypeOK

LEMMA LoseAckWrite == ASSUME TypeOK, OneWrite, NEW c \in Calls, LoseAck(c) PROVE OneWrite'
BY DEF OneWrite, OwnAck, AckAwaited, QueuedAwaited, QueuedOnce, Awaited, LoseAck, TypeOK

\* A call that has no write under way moves on.
LEMMA OtherWrite ==
    ASSUME TypeOK, OneWrite, NEW c \in Calls, NEW label, pc' = [pc EXCEPT ![c] = label],
           channel' = channel \/ channel' = [channel EXCEPT ![c] = None],
           UNCHANGED <<outbox, acks>>,
           pc[c] # "wait" \/ channel[c] # None, label = "wait" \/ channel'[c] = None
    PROVE  OneWrite'
<1>1. \A d \in acks : d # c /\ d \in Calls
  BY DEF OneWrite, OwnAck, AckAwaited, QueuedAwaited, QueuedOnce, Awaited, TypeOK
<1>2. \A l \in Lords : \A i \in 1..Len(outbox[l]) : outbox[l][i] # c /\ outbox[l][i] \in Calls
  BY DEF OneWrite, OwnAck, AckAwaited, QueuedAwaited, QueuedOnce, Awaited, TypeOK
<1>3. \A d \in Calls \ {c} : pc'[d] = pc[d] /\ channel'[d] = channel[d]
  BY DEF TypeOK
<1>4. OwnAck'
  BY <1>3 DEF OneWrite, OwnAck, TypeOK
<1>5. AckAwaited'
  BY <1>1, <1>3 DEF OneWrite, AckAwaited, Awaited
<1>6. QueuedAwaited'
  BY <1>2, <1>3 DEF OneWrite, QueuedAwaited, Awaited
<1>7. QueuedOnce'
  BY DEF OneWrite, QueuedOnce
<1> QED  BY <1>4, <1>5, <1>6, <1>7 DEF OneWrite

LEMMA SendStdinWrite ==
    ASSUME TypeOK, Addressed, OneWrite, NEW c \in Calls, SendStdin(c)
    PROVE  OneWrite'
<1> DEFINE m == to[c]
<1>1. m \in Lords /\ pc[c] = "send"
  BY DEF SendStdin, Addressed, Active
<1>2. /\ outbox' = [outbox EXCEPT ![m] = Append(@, c)]
      /\ pc' = [pc EXCEPT ![c] = "wait"]
      /\ UNCHANGED <<channel, acks>>
  BY DEF SendStdin
<1>3. channel[c] = None /\ c \notin acks
  BY <1>1 DEF OneWrite, OwnAck, AckAwaited, QueuedAwaited, QueuedOnce, Awaited
<1>4. \A l \in Lords : \A i \in 1..Len(outbox[l]) : outbox[l][i] # c /\ outbox[l][i] \in Calls
  BY <1>1 DEF OneWrite, OwnAck, AckAwaited, QueuedAwaited, QueuedOnce, Awaited, TypeOK
<1> HIDE DEF m
<1>5. outbox[m] \in Seq(Calls) /\ Len(outbox[m]) \in Nat
  BY <1>1 DEF TypeOK
<1>6. \A l \in Lords : \A i \in 1..Len(outbox'[l]) :
         \/ i \in 1..Len(outbox[l]) /\ outbox'[l][i] = outbox[l][i]
         \/ l = m /\ i = Len(outbox[m]) + 1 /\ outbox'[l][i] = c
  BY <1>2, <1>5 DEF TypeOK
<1>7. \A d \in Calls : d # c => pc'[d] = pc[d]
  BY <1>2 DEF TypeOK
<1>8. pc'[c] = "wait" /\ channel'[c] = None
  BY <1>2, <1>3 DEF TypeOK
<1>9. QueuedAwaited'
  <2> SUFFICES ASSUME NEW l \in Lords, NEW i \in 1..Len(outbox'[l])
               PROVE  /\ pc'[outbox'[l][i]] = "wait" /\ channel'[outbox'[l][i]] = None
                      /\ outbox'[l][i] \notin acks'
    BY DEF QueuedAwaited, Awaited
  <2>1. CASE i \in 1..Len(outbox[l]) /\ outbox'[l][i] = outbox[l][i]
    <3>1. /\ pc[outbox[l][i]] = "wait" /\ channel[outbox[l][i]] = None
          /\ outbox[l][i] \notin acks
      BY <2>1 DEF OneWrite, QueuedAwaited, Awaited
    <3>2. outbox[l][i] # c /\ outbox[l][i] \in Calls
      BY <1>4, <2>1
    <3> QED  BY <2>1, <3>1, <3>2, <1>2, <1>7
  <2>2. CASE outbox'[l][i] = c
    BY <2>2, <1>2, <1>3, <1>8
  <2> QED  BY <1>6, <2>1, <2>2
<1>10. QueuedOnce'
  <2> SUFFICES ASSUME NEW l \in Lords, NEW n \in Lords,
                      NEW i \in 1..Len(outbox'[l]), NEW j \in 1..Len(outbox'[n]),
                      outbox'[l][i] = outbox'[n][j]
               PROVE  l = n /\ i = j
    BY DEF QueuedOnce
  <2>1. CASE i \in 1..Len(outbox[l]) /\ outbox'[l][i] = outbox[l][i]
    <3>1. outbox'[n][j] # c
      BY <1>4, <2>1
    <3>2. j \in 1..Len(outbox[n]) /\ outbox'[n][j] = outbox[n][j]
      BY <1>6, <3>1
    <3>3. outbox[l][i] = outbox[n][j] /\ i \in 1..Len(outbox[l]) /\ j \in 1..Len(outbox[n])
      BY <2>1, <3>2
    <3>4. QueuedOnce
      BY DEF OneWrite
    <3> QED  BY <3>3, <3>4 DEF QueuedOnce
  <2>2. CASE l = m /\ i = Len(outbox[m]) + 1 /\ outbox'[l][i] = c
    <3>1. ~(j \in 1..Len(outbox[n]) /\ outbox'[n][j] = outbox[n][j])
      BY <1>4, <2>2
    <3> QED  BY <1>6, <2>2, <3>1
  <2> QED  BY <1>6, <2>1, <2>2
<1>11. AckAwaited'
  BY <1>2, <1>3, <1>7 DEF OneWrite, AckAwaited, Awaited, TypeOK
<1>12. OwnAck'
  BY <1>2, <1>3, <1>7 DEF OneWrite, OwnAck
<1> QED  BY <1>9, <1>10, <1>11, <1>12 DEF OneWrite

\* Who has not given up or overlapped has not done so before.
LEMMA QuietBefore == ASSUME TypeOK, [Next]_vars, Quiet' PROVE Quiet
<1>1. gaveUp \subseteq gaveUp' /\ overlapped \subseteq overlapped'
  BY DEF Next, WriteStdin, Connect, Disconnect, Bind, SendLoop, Begin, LookUp, SendStdin, Answered,
         GiveUpSend, GiveUpWait, DeliverAck, LoseAck
<1> QED  BY <1>1 DEF Quiet

LEMMA NextWrite ==
    ASSUME TypeOK, Addressed, WaiterKept, Quiet => OneWrite, [Next]_vars
    PROVE  (Quiet => OneWrite)'
<1> SUFFICES ASSUME Quiet' PROVE OneWrite'
  OBVIOUS
<1>1. OneWrite /\ overlapped = {} /\ gaveUp' = {}
  BY QuietBefore DEF Quiet
<1>2. CASE UNCHANGED vars
  BY <1>1, <1>2 DEF OneWrite, OwnAck, AckAwaited, QueuedAwaited, QueuedOnce, Awaited
<1>3. ASSUME NEW l \in Lords, Connect(l) \/ Disconnect(l) \/ Bind(l) \/ SendLoop(l)
      PROVE  OneWrite'
  BY <1>1, <1>3, StreamWrite, SendLoopWrite
<1>4. ASSUME NEW c \in Calls, DeliverAck(c) \/ LoseAck(c) PROVE OneWrite'
  BY <1>1, <1>4, DeliverAckWrite, LoseAckWrite
<1>5. ASSUME NEW c \in Calls, SendStdin(c) PROVE OneWrite'
  BY <1>1, <1>5, SendStdinWrite
<1>6. ASSUME NEW c \in Calls, Begin(c) PROVE OneWrite'
  <2>1. /\ pc[c] # "wait" /\ pc' = [pc EXCEPT ![c] = "session"]
        /\ UNCHANGED <<channel, outbox, acks>>
    BY <1>6 DEF Begin
  <2>2. channel'[c] = None
    BY <1>1, <2>1 DEF OneWrite, OwnAck, AckAwaited, QueuedAwaited, QueuedOnce
  <2> QED  BY <1>1, <2>1, <2>2, OtherWrite
<1>7. ASSUME NEW c \in Calls, LookUp(c) \/ Answered(c) \/ GiveUpSend(c) PROVE OneWrite'
  <2>1. UNCHANGED <<outbox, acks>> /\ (pc[c] # "wait" \/ channel[c] # None)
    BY <1>7 DEF LookUp, Answered, GiveUpSend
  <2>2. CASE Return(c)
    <3>1. pc' = [pc EXCEPT ![c] = "done"] /\ channel' = [channel EXCEPT ![c] = None]
      BY <2>2 DEF Return
    <3>2. channel'[c] = None
      BY <3>1 DEF TypeOK
    <3> QED  BY <1>1, <2>1, <3>1, <3>2, OtherWrite
  <2>3. CASE ~Return(c)
    <3>1. pc[c] # "wait" /\ pc' = [pc EXCEPT ![c] = "send"] /\ UNCHANGED channel
      BY <1>7, <2>3 DEF LookUp, Answered, GiveUpSend
    <3>2. channel'[c] = None
      BY <1>1, <3>1 DEF OneWrite, OwnAck, AckAwaited, QueuedAwaited, QueuedOnce
    <3> QED  BY <1>1, <2>1, <3>1, <3>2, OtherWrite
  <2> QED  BY <2>2, <2>3
<1>8. ASSUME NEW c \in Calls, GiveUpWait(c) PROVE FALSE
  BY <1>1, <1>8 DEF GiveUpWait
<1> QED  BY <1>2, <1>3, <1>4, <1>5, <1>6, <1>7, <1>8 DEF Next, WriteStdin

-----------------------------------------------------------------------------
IInv == TypeOK /\ Addressed /\ WaiterKept /\ BothOverlap /\ (Quiet => OneWrite)

\* The conjunction of the parts above is inductive.
THEOREM Invariance == Spec => []IInv
<1>1. Init => IInv
  <2> SUFFICES ASSUME Init PROVE IInv
    OBVIOUS
  <2>1. TypeOK
    BY InitType
  <2>2. Addressed /\ WaiterKept /\ BothOverlap
    BY DEF Init, Addressed, WaiterKept, BothOverlap, Active
  <2>3. OneWrite
    BY DEF Init, OneWrite, OwnAck, AckAwaited, QueuedAwaited, QueuedOnce, Awaited
  <2> QED  BY <2>1, <2>2, <2>3 DEF IInv
<1>2. IInv /\ [Next]_vars => IInv'
  BY NextType, NextAddressed, NextWaiter, NextWrite DEF IInv
<1> QED  BY <1>1, <1>2, PTL DEF Spec

\* The variables keep their types: the outboxes stay within their capacity.
THEOREM TypeCorrect == Spec => []TypeOK
BY Invariance, PTL DEF IInv

\* The slot is that of a call in progress, and of any that nobody overlaps
\* (server.go:347).
THEOREM WaitersAreKept == Spec => []WaiterKept
BY Invariance, PTL DEF IInv

\* Calls that neither overlap nor give up are answered by their own acks
\* (server.go:314).
THEOREM AcksAreRight == Spec => []RightAck
<1>1. IInv => RightAck
  BY DEF IInv, Quiet, OneWrite, OwnAck, AckAwaited, QueuedAwaited, QueuedOnce, RightAck
<1> QED  BY <1>1, Invariance, PTL
=============================================================================
