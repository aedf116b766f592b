----------------------------- MODULE StdinRelay -----------------------------
(***************************************************************************)
(* WriteStdin calls of tenants for one process: each registers a waiter    *)
(* under the process id, sends the bytes to the lord's session and waits   *)
(* for the lord's ack, which names the process and not the call            *)
(* (internal/scheduler/{server,connect}.go).                               *)
(*                                                                         *)
(* The lord is modelled by what it does with a write: it acks it, sooner   *)
(* or later, or never (internal/lord/agent.go, module LordAgent). Timeouts *)
(* may end at any time.                                                    *)
(***************************************************************************)
EXTENDS Integers, Sequences, SequencesExt

CONSTANTS
    Lords,      \* lord ids, one for each stream
    Calls,      \* WriteStdin calls
    Cap,        \* capacity of a session's outbox (1024 in the code)
    None

ASSUME RelayAssumption == Cap \in Nat \ {0} /\ None \notin Lords \cup Calls

VARIABLES
    stream,     \* per lord id: whether its session is there
    home,       \* the process's Ref.LordId
    outbox,     \* per session: the calls whose writes it holds
    pc,         \* per call: what it does next
    to,         \*   the session that it looks up
    channel,    \*   the call whose ack is in its channel
    slot,       \* s.writeStdinWaiters[process]: the call whose channel it holds
    acks,       \* calls whose acks are under way
    gaveUp,     \* history: calls that returned without an ack of a sent write
    overlapped  \* history: calls during which another was made

calls   == <<pc, to, channel, slot>>
history == <<gaveUp, overlapped>>
vars    == <<stream, home, outbox, calls, acks, history>>

-----------------------------------------------------------------------------
TypeOK ==
    /\ stream \in [Lords -> {"off", "open", "ended"}]
    /\ home \in Lords \cup {None}
    /\ outbox \in [Lords -> Seq(Calls)]
    /\ \A l \in Lords : Len(outbox[l]) <= Cap
    /\ pc \in [Calls -> {"off", "session", "send", "wait", "done"}]
    /\ to \in [Calls -> Lords \cup {None}]
    /\ channel \in [Calls -> Calls \cup {None}]
    /\ slot \in Calls \cup {None}
    /\ acks \in SUBSET Calls
    /\ gaveUp \in SUBSET Calls
    /\ overlapped \in SUBSET Calls

Active(c) == pc[c] \in {"session", "send", "wait"}

-----------------------------------------------------------------------------
(* Streams come and go, and the process moves with them (modules           *)
(* LordSessions and Cluster).                                              *)

Connect(l) ==
    /\ stream[l] = "off"
    /\ stream' = [stream EXCEPT ![l] = "open"]
    /\ UNCHANGED <<home, outbox, calls, acks, history>>

Disconnect(l) ==
    /\ stream[l] = "open"
    /\ stream' = [stream EXCEPT ![l] = "ended"]
    /\ UNCHANGED <<home, outbox, calls, acks, history>>

\* The process starts on a lord, or is bound to a new stream of its lord.
Bind(l) ==
    /\ stream[l] = "open"
    /\ home' = l
    /\ UNCHANGED <<stream, outbox, calls, acks, history>>

\* Mutant of SendLoop: an event whose Send has timed out is queued again, and
\* the Send still comes to an end.
SendLoopAgain(l) ==
    /\ stream[l] = "open"
    /\ \E i \in 1..Len(outbox[l]) :
          /\ outbox' \in {outbox, [outbox EXCEPT ![l] = RemoveAt(@, i)]}
          /\ acks' = acks \cup {outbox[l][i]}
    /\ UNCHANGED <<stream, home, calls, history>>

\* sendLoop sends the next event, or one behind it if the Send of those ahead
\* has taken more than 2 s. The lord writes the bytes and acks them.
SendLoop(l) ==
    /\ stream[l] = "open"
    /\ \E i \in 1..Len(outbox[l]) :
          /\ outbox' = [outbox EXCEPT ![l] = RemoveAt(@, i)]
          /\ acks' = acks \cup {outbox[l][i]}
    /\ UNCHANGED <<stream, home, calls, history>>

\* The ack, or the write, is lost with the stream, or the lord is deaf.
LoseAck(c) ==
    /\ c \in acks
    /\ acks' = acks \ {c}
    /\ UNCHANGED <<stream, home, outbox, calls, history>>

\* deliverWriteStdinAck, on whatever stream the ack comes: it goes to the
\* channel in the slot, which has room for one.
DeliverAck(c) ==
    /\ c \in acks
    /\ \E l \in Lords : stream[l] = "open"
    /\ acks' = acks \ {c}
    /\ channel' = [d \in Calls |-> IF d = slot /\ channel[d] = None THEN c ELSE channel[d]]
    /\ UNCHANGED <<stream, home, outbox, pc, to, slot, history>>

-----------------------------------------------------------------------------
(* WriteStdin. *)

\* The lord id is read and the waiter registered: it takes the place of another
\* call's.
Begin(c) ==
    /\ pc[c] = "off"
    /\ home # None
    /\ to' = [to EXCEPT ![c] = home]
    /\ slot' = c
    /\ pc' = [pc EXCEPT ![c] = "session"]
    /\ LET others == {d \in Calls : Active(d)} IN
       overlapped' = overlapped \cup others \cup (IF others = {} THEN {} ELSE {c})
    /\ UNCHANGED <<stream, home, outbox, channel, acks, gaveUp>>

\* The deferred unregister deletes the slot, whoever's it is. The call's
\* variables are gone.
Return(c) ==
    /\ slot' = None
    /\ pc' = [pc EXCEPT ![c] = "done"]
    /\ to' = [to EXCEPT ![c] = None]
    /\ channel' = [channel EXCEPT ![c] = None]

\* Mutant of LookUp: without a session the waiter stays.
LookUpForgets(c) ==
    /\ pc[c] = "session"
    /\ pc' = [pc EXCEPT ![c] = IF stream[to[c]] = "open" THEN "send" ELSE "done"]
    /\ UNCHANGED <<stream, home, outbox, to, channel, slot, acks, history>>

\* getSession; without a session the call answers Closed.
LookUp(c) ==
    /\ pc[c] = "session"
    /\ \/ /\ stream[to[c]] = "open"
          /\ pc' = [pc EXCEPT ![c] = "send"]
          /\ UNCHANGED <<to, channel, slot>>
       \/ stream[to[c]] # "open" /\ Return(c)
    /\ UNCHANGED <<stream, home, outbox, acks, history>>

\* Mutant of SendStdin: the channel has no bound.
SendStdinUnbounded(c) ==
    /\ pc[c] = "send"
    /\ outbox' = [outbox EXCEPT ![to[c]] = Append(@, c)]
    /\ pc' = [pc EXCEPT ![c] = "wait"]
    /\ UNCHANGED <<stream, home, to, channel, slot, acks, history>>

\* The event is queued on the session, which may have ended meanwhile.
SendStdin(c) ==
    /\ pc[c] = "send"
    /\ Len(outbox[to[c]]) < Cap
    /\ outbox' = [outbox EXCEPT ![to[c]] = Append(@, c)]
    /\ pc' = [pc EXCEPT ![c] = "wait"]
    /\ UNCHANGED <<stream, home, to, channel, slot, acks, history>>

\* The call takes the ack from its channel.
Answered(c) ==
    /\ pc[c] = "wait"
    /\ channel[c] # None
    /\ Return(c)
    /\ UNCHANGED <<stream, home, outbox, acks, history>>

\* 5 s have passed without room in the outbox.
GiveUpSend(c) ==
    /\ pc[c] = "send"
    /\ Return(c)
    /\ UNCHANGED <<stream, home, outbox, acks, history>>

\* Mutant of GiveUpWait: a call whose stream has ended waits on.
GiveUpWaitOpen(c) ==
    /\ pc[c] = "wait"
    /\ stream[to[c]] = "open"
    /\ Return(c)
    /\ gaveUp' = gaveUp \cup {c}
    /\ UNCHANGED <<stream, home, outbox, acks, overlapped>>

\* 5 s have passed without an ack, or the tenant has gone.
GiveUpWait(c) ==
    /\ pc[c] = "wait"
    /\ Return(c)
    /\ gaveUp' = gaveUp \cup {c}
    /\ UNCHANGED <<stream, home, outbox, acks, overlapped>>

-----------------------------------------------------------------------------
Init ==
    /\ stream = [l \in Lords |-> "off"]
    /\ home = None
    /\ outbox = [l \in Lords |-> <<>>]
    /\ pc = [c \in Calls |-> "off"]
    /\ to = [c \in Calls |-> None]
    /\ channel = [c \in Calls |-> None]
    /\ slot = None
    /\ acks = {}
    /\ gaveUp = {}
    /\ overlapped = {}

WriteStdin(c) == LookUp(c) \/ SendStdin(c) \/ Answered(c) \/ GiveUpSend(c) \/ GiveUpWait(c)

Next ==
    \/ \E l \in Lords : Connect(l) \/ Disconnect(l) \/ Bind(l) \/ SendLoop(l)
    \/ \E c \in Calls : Begin(c) \/ WriteStdin(c) \/ DeliverAck(c) \/ LoseAck(c)

\* The goroutine of a call runs, and its timers fire.
Fairness == \A c \in Calls : WF_vars(WriteStdin(c))

Spec == Init /\ [][Next]_vars /\ Fairness
-----------------------------------------------------------------------------
(* Properties *)

\* The slot holds the channel of a call in progress, and that of any call in
\* progress that no other overlaps: its ack finds it (server.go:347). Calls that
\* overlap may delete each other's waiter.
WaiterKept ==
    /\ slot # None => Active(slot)
    /\ \A c \in Calls \ overlapped : Active(c) => slot = c

\* As long as calls do not overlap and none has given up, a call is answered by
\* the ack of its own write (server.go:314), although acks only name the process.
RightAck == gaveUp \cup overlapped = {} => \A c \in Calls : channel[c] \in {c, None}

\* WriteStdin returns, although its stream may have ended with a full outbox or
\* its ack be lost (server.go:364).
CallReturns == \A c \in Calls : Active(c) ~> pc[c] = "done"
=============================================================================
