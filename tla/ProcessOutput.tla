--------------------------- MODULE ProcessOutput ---------------------------
(***************************************************************************)
(* The output of one process as the scheduler keeps it and hands it out:   *)
(* the ring buffer of its table entry (process_table.go), filled by the    *)
(* receive loops (handleIo), dumped or followed by StreamProcessIO RPCs    *)
(* (server.go).                                                            *)
(*                                                                         *)
(* The buffer's methods hold r.mu and are atomic.  A follower is not: it   *)
(* reads the shared offset ioLastSent when it attaches, then reads the     *)
(* buffer, sends, and writes the offset back, while others do the same.    *)
(*                                                                         *)
(* A byte is the number of its arrival, so that order, loss and            *)
(* duplication can be told.  The chunks of stdout and of stderr, of every  *)
(* copy of the process, go to the same buffer; a pump of the agent is not  *)
(* ordered with the exit report, so chunks may arrive after the exit.      *)
(***************************************************************************)
EXTENDS Integers, Sequences

CONSTANTS
    Cap,        \* size of the buffer (64 KiB in the code)
    MaxChunk,   \* longest chunk (the agent's pumps read 4 KiB at a time)
    MaxBytes,   \* bound on the bytes that arrive
    Followers   \* StreamProcessIO calls with Follow set

ASSUME OutputAssumption ==
    /\ Cap \in Nat \ {0}
    /\ MaxChunk \in Nat
    /\ MaxBytes \in Nat

VARIABLES
    data,        \* r.data
    off,         \* r.off
    full,        \* r.full
    arrived,     \* bytes that have arrived
    kept,        \* history: the bytes Write has stored, oldest first
    exited,      \* the entry's `exited` channel is closed
    ioLastSent,  \* entry.ioLastSent
    pc,          \* per follower: what it does next
    lastTotal,   \* per follower: its local offset
    newTotal,    \* per follower: the offset it is about to record
    start,       \* history: the offset at which it attached
    got          \* the bytes sent to its client

buffer == <<data, off, full, arrived, kept>>
calls  == <<ioLastSent, pc, lastTotal, newTotal, start, got>>
vars   == <<buffer, exited, calls>>

-----------------------------------------------------------------------------
Index == 0..(Cap - 1)

\* "record": the bytes are sent, the offset is to be stored; "lastRecord" and
\* "unsentRecord" (its Send failed): the same after the exit of the process.
Label == {"off", "poll", "record", "lastRecord", "unsentRecord", "ended", "broken"}

TypeOK ==
    /\ data \in [Index -> Nat]
    /\ off \in Index
    /\ full \in BOOLEAN
    /\ arrived \in Nat
    /\ kept \in Seq(Nat)
    /\ exited \in BOOLEAN
    /\ ioLastSent \in Nat
    /\ pc \in [Followers -> Label]
    /\ lastTotal \in [Followers -> Nat]
    /\ newTotal \in [Followers -> Nat]
    /\ start \in [Followers -> Nat]
    /\ got \in [Followers -> Seq(Nat)]

-----------------------------------------------------------------------------
(* The ring buffer. *)

\* r.data[a:b]
Slice(a, b) == [i \in 1..(b - a) |-> data[a + i - 1]]

\* The n bytes that arrive next.
Chunk(n) == [i \in 1..n |-> arrived + i]

\* How many bytes of a chunk of n, n < Cap, copy(r.data[r.off:], p) takes.
Copied(n) == IF n < Cap - off THEN n ELSE Cap - off

\* Mutant of Write: the offset is reset too late, past the last slot.
WriteLate(n) ==
    /\ data' = [i \in Index |-> IF off <= i /\ i < off + Copied(n)
                                THEN Chunk(n)[i - off + 1] ELSE data[i]]
    /\ off' = (off + Copied(n)) % (Cap + 1)
    /\ full' = (full \/ off + Copied(n) >= Cap)
    /\ kept' = kept \o SubSeq(Chunk(n), 1, Copied(n))
    /\ arrived' = arrived + n

\* Mutant of Write: what remains of a chunk after the wrap goes to the front,
\* but the offset stays there.
WriteWrapped(n) ==
    /\ data' = [i \in Index |-> IF off <= i /\ i < off + Copied(n)
                                THEN Chunk(n)[i - off + 1]
                                ELSE IF i < off + n - Cap
                                THEN Chunk(n)[Cap - off + i + 1] ELSE data[i]]
    /\ off' = (off + Copied(n)) % Cap
    /\ full' = (full \/ off + Copied(n) >= Cap)
    /\ kept' = kept \o Chunk(n)
    /\ arrived' = arrived + n

\* Write: a chunk of Cap bytes or more leaves its last Cap bytes; a shorter one
\* is copied up to the end of the buffer, and what does not fit is dropped.
Write(n) ==
    /\ IF n >= Cap
       THEN /\ data' = [i \in Index |-> Chunk(n)[n - Cap + i + 1]]
            /\ full' = TRUE
            /\ off' = 0
            /\ kept' = kept \o Chunk(n)
       ELSE /\ data' = [i \in Index |-> IF off <= i /\ i < off + Copied(n)
                                        THEN Chunk(n)[i - off + 1] ELSE data[i]]
            /\ full' = (full \/ off + Copied(n) >= Cap)
            /\ off' = (off + Copied(n)) % Cap
            /\ kept' = kept \o SubSeq(Chunk(n), 1, Copied(n))
    /\ arrived' = arrived + n

Bytes == IF full THEN Slice(off, Cap) \o Slice(0, off) ELSE Slice(0, off)

\* SinceOffset(last): the bytes, and the new offset.
Total == IF full THEN 2 * Cap ELSE off

SinceOffset(last) ==
    LET added == IF Total - last > Cap THEN Cap ELSE Total - last
        first == (Total - added) % Cap
        end   == Total % Cap
    IN  IF Total <= last THEN [bytes |-> <<>>, total |-> last]
        ELSE [bytes |-> IF first < end THEN Slice(first, end)
                                       ELSE Slice(first, Cap) \o Slice(0, end),
              total |-> Total]

-----------------------------------------------------------------------------
(* What happens around it. *)

\* handleIo: a chunk arrives from a lord.
HandleIo(n) ==
    /\ arrived + n <= MaxBytes
    /\ Write(n)
    /\ UNCHANGED <<exited, calls>>

\* The entry becomes final (module ProcessEntry has the details).
Exit ==
    /\ ~exited
    /\ exited' = TRUE
    /\ UNCHANGED <<buffer, calls>>

\* Mutant of Attach: a follower that attaches goes on after what has arrived.
AttachAtEnd(f) ==
    /\ pc[f] = "off"
    /\ pc' = [pc EXCEPT ![f] = "poll"]
    /\ lastTotal' = [lastTotal EXCEPT ![f] = Total]
    /\ start' = [start EXCEPT ![f] = Total]
    /\ UNCHANGED <<buffer, exited, ioLastSent, newTotal, got>>

\* StreamProcessIO with Follow: starts from the offset the entry remembers.
Attach(f) ==
    /\ pc[f] = "off"
    /\ pc' = [pc EXCEPT ![f] = "poll"]
    /\ lastTotal' = [lastTotal EXCEPT ![f] = ioLastSent]
    /\ start' = [start EXCEPT ![f] = ioLastSent]
    /\ UNCHANGED <<buffer, exited, ioLastSent, newTotal, got>>

\* Mutant of Tick: the local offset is not advanced.
TickAgain(f) ==
    /\ pc[f] = "poll"
    /\ LET new == SinceOffset(lastTotal[f]) IN
          /\ new.bytes # <<>>
          /\ \/ /\ got' = [got EXCEPT ![f] = @ \o new.bytes]
                /\ newTotal' = [newTotal EXCEPT ![f] = new.total]
                /\ pc' = [pc EXCEPT ![f] = "record"]
             \/ /\ pc' = [pc EXCEPT ![f] = "broken"]
                /\ UNCHANGED <<newTotal, got>>
    /\ UNCHANGED <<buffer, exited, ioLastSent, lastTotal, start>>

\* A tick: read the buffer and send what is new; if Send fails, return.
Tick(f) ==
    /\ pc[f] = "poll"
    /\ LET new == SinceOffset(lastTotal[f]) IN
          /\ new.bytes # <<>>
          /\ \/ /\ got' = [got EXCEPT ![f] = @ \o new.bytes]
                /\ lastTotal' = [lastTotal EXCEPT ![f] = new.total]
                /\ newTotal' = [newTotal EXCEPT ![f] = new.total]
                /\ pc' = [pc EXCEPT ![f] = "record"]
             \/ /\ pc' = [pc EXCEPT ![f] = "broken"]
                /\ UNCHANGED <<lastTotal, newTotal, got>>
    /\ UNCHANGED <<buffer, exited, ioLastSent, start>>

\* The channel is closed: a last read of the buffer.  An error of Send is
\* ignored, and the local offset is not needed any more.
FinalFlush(f) ==
    /\ pc[f] = "poll"
    /\ exited
    /\ LET new == SinceOffset(lastTotal[f]) IN
          IF new.bytes = <<>>
          THEN pc' = [pc EXCEPT ![f] = "ended"] /\ UNCHANGED <<newTotal, got>>
          ELSE /\ newTotal' = [newTotal EXCEPT ![f] = new.total]
               /\ \/ /\ got' = [got EXCEPT ![f] = @ \o new.bytes]
                     /\ pc' = [pc EXCEPT ![f] = "lastRecord"]
                  \/ /\ pc' = [pc EXCEPT ![f] = "unsentRecord"]
                     /\ UNCHANGED got
    /\ UNCHANGED <<buffer, exited, ioLastSent, lastTotal, start>>

\* ioLastSent is set under its own lock, after the Send.
Record(f) ==
    /\ pc[f] \in {"record", "lastRecord", "unsentRecord"}
    /\ ioLastSent' = newTotal[f]
    /\ pc' = [pc EXCEPT ![f] = CASE @ = "record"       -> "poll"
                                 [] @ = "lastRecord"   -> "ended"
                                 [] @ = "unsentRecord" -> "broken"]
    /\ UNCHANGED <<buffer, exited, lastTotal, newTotal, start, got>>

\* The client goes away.
Cancel(f) ==
    /\ pc[f] = "poll"
    /\ pc' = [pc EXCEPT ![f] = "broken"]
    /\ UNCHANGED <<buffer, exited, ioLastSent, lastTotal, newTotal, start, got>>

Init ==
    /\ data = [i \in Index |-> 0]
    /\ off = 0
    /\ full = FALSE
    /\ arrived = 0
    /\ kept = <<>>
    /\ exited = FALSE
    /\ ioLastSent = 0
    /\ pc = [f \in Followers |-> "off"]
    /\ lastTotal = [f \in Followers |-> 0]
    /\ newTotal = [f \in Followers |-> 0]
    /\ start = [f \in Followers |-> 0]
    /\ got = [f \in Followers |-> <<>>]

Next ==
    \/ \E n \in 1..MaxChunk : HandleIo(n)
    \/ Exit
    \/ \E f \in Followers :
          Attach(f) \/ Tick(f) \/ FinalFlush(f) \/ Record(f) \/ Cancel(f)

Spec == Init /\ [][Next]_vars
-----------------------------------------------------------------------------
(* Properties *)

\* The last n elements of a sequence, or all of it.
Latest(s, n) == IF Len(s) <= n THEN s ELSE SubSeq(s, Len(s) - n + 1, Len(s))

\* However writes of all lengths have wrapped around, a dump
\* (StreamProcessIO without Follow) is the latest Cap bytes that were stored,
\* in the order in which they were stored.
DumpIsLatest == Bytes = Latest(kept, Cap)

\* Until the buffer is full a follower's client has got exactly the bytes from
\* the offset at which it attached to the one it has reached: nothing is lost,
\* repeated or reordered, whatever other followers and the exit do meanwhile.
\* (A final flush does not advance the local offset.)
FollowExact ==
    ~full => \A f \in Followers :
        /\ pc[f] \in {"poll", "record", "broken", "unsentRecord"} =>
              got[f] = SubSeq(kept, start[f] + 1, lastTotal[f])
        /\ pc[f] = "lastRecord" =>
              got[f] = SubSeq(kept, start[f] + 1, newTotal[f])

\* While the process runs and its buffer is not full, every byte below the
\* shared offset has been sent to some follower: a client that attaches now
\* misses nothing that nobody has seen, although concurrent followers
\* overwrite the offset in any order.
OffsetIsCovered ==
    ~full /\ ~exited => \A i \in 1..ioLastSent :
        \E f \in Followers : start[f] < i /\ i <= lastTotal[f]
=============================================================================
