------------------------ MODULE WriteAheadLogProofs ------------------------
(***************************************************************************)
(* Proofs about module WriteAheadLog, for any processes and updaters and   *)
(* any number of crashes and failed writes.                                *)
(***************************************************************************)
EXTENDS WriteAheadLog, TLAPS

USE WALAssumption

\* Whoever has an entry or a line has an id that was given out.
Given == \A p \in Procs : table[p] # None \/ disk[p] # None => p \in created

\* Updates of an entry that does not count as raced do not overlap.
Alone == \A p \in Procs \ raced : \A u, v \in Unassigned(p) : u = v

\* What a replay makes of an entry is what its update under way assigns, or
\* what it is if there is none.
Agrees ==
    \A p \in Procs \ (raced \cup dropped) :
        table[p] # None =>
            /\ \A u \in Unassigned(p) : disk[p] = job[u].state
            /\ Unassigned(p) = {} => disk[p] = table[p]

\* An end that is logged without its exit code is not yet assigned, or its
\* exit code is logged next.
ExitLogged ==
    \A p \in Procs \ (noResult \cup cutShort) :
        disk[p] \in Final /\ p \notin diskResult =>
            \E u \in Updaters : /\ job[u].proc = p
                                /\ job[u].state \in Final
                                /\ pc[u] \in {"assign", "logResult"}

\* The unterminated line at the end of the file has not cost its line yet.
Spent == losses + (IF tail = NoTail THEN 0 ELSE 1) <= tears

Inv == TypeOK /\ Given /\ Alone /\ Agrees /\ ExitLogged /\ ExitKnown /\ Spent

(* The file. *)

Lost == Glued \/ WriteFails \/ NotWritten

LEMMA InitInv == Init => Inv
<1> SUFFICES ASSUME Init PROVE Inv OBVIOUS
<1> USE DEF Init
<1>1. TypeOK BY DEF TypeOK, NoJob, Job, Label, State
<1>2. Given BY DEF Given
<1>3. \A p : Unassigned(p) = {} BY DEF Unassigned
<1>4. Alone /\ Agrees BY <1>3 DEF Alone, Agrees
<1>5. ExitLogged /\ ExitKnown BY DEF ExitLogged, ExitKnown, State
<1>6. Spent BY DEF Spent
<1> QED BY <1>1, <1>2, <1>4, <1>5, <1>6 DEF Inv

LEMMA UnreadableType ==
    ASSUME TypeOK
    PROVE  /\ Unreadable(disk) \in [Procs -> State \cup {None}]
           /\ \A q \in Procs : \/ Unreadable(disk)[q] = disk[q]
                              \/ (q \in Spoiled /\ Unreadable(disk)[q] = None)
<1>1. disk \in [Procs -> State \cup {None}] BY DEF TypeOK
<1> QED BY <1>1 DEF Unreadable

LEMMA TornType ==
    ASSUME TypeOK, Torn
    PROVE  /\ disk' \in [Procs -> State \cup {None}]
           /\ tail' \in {NoTail, Cut} \cup Procs
           /\ tears' \in Nat
           /\ tears' >= tears
           /\ tears' = tears => tail' = tail \/ tail # NoTail
           /\ tears' # tears => tail = NoTail /\ tears' = tears + 1
           /\ \A q \in Procs : disk'[q] = disk[q] \/ (q \in Spoiled /\ disk'[q] = None)
<1>1. /\ disk \in [Procs -> State \cup {None}]
      /\ tail \in {NoTail, Cut} \cup Procs
      /\ tears \in Nat
  BY DEF TypeOK
<1>2. CASE UNCHANGED <<disk, tail, tears>> BY <1>1, <1>2
<1>3. CASE disk' = Unreadable(disk) /\ tail' = Cut
           /\ tears' = IF tail = NoTail THEN tears + 1 ELSE tears
  <2>1. disk' \in [Procs -> State \cup {None}] BY <1>3, UnreadableType
  <2>2. \A q \in Procs : disk'[q] = disk[q] \/ (q \in Spoiled /\ disk'[q] = None)
    BY <1>3, UnreadableType
  <2> QED BY <1>1, <1>3, <2>1, <2>2
<1> QED BY <1>2, <1>3 DEF Torn

\* A line that is not recorded changes what is read of the unterminated line only.
LEMMA LostLine ==
    ASSUME TypeOK, Lost
    PROVE  /\ disk' \in [Procs -> State \cup {None}]
           /\ diskResult' = diskResult
           /\ \A q \in Procs : disk'[q] = disk[q] \/ (q \in Spoiled /\ disk'[q] = None)
<1>1. CASE Glued BY <1>1, UnreadableType DEF Glued
<1>2. CASE WriteFails BY <1>2, TornType DEF WriteFails
<1>3. CASE NotWritten
  <2>1. disk' = disk /\ diskResult' = diskResult BY <1>3 DEF NotWritten, log
  <2>2. disk \in [Procs -> State \cup {None}] BY DEF TypeOK
  <2> QED BY <2>1, <2>2
<1> QED BY <1>1, <1>2, <1>3 DEF Lost

LEMMA LogTypes ==
    ASSUME TypeOK, NEW d, NEW R, Written(d, R) \/ Lost
    PROVE  /\ faults' \in Nat
           /\ tail' \in {NoTail, Cut} \cup Procs
           /\ failed' \in BOOLEAN
           /\ tears' \in Nat
           /\ losses' \in Nat
<1>1. CASE Written(d, R) BY <1>1 DEF Written, TypeOK
<1>2. CASE Glued BY <1>2 DEF Glued, TypeOK
<1>3. CASE WriteFails BY <1>3, TornType DEF WriteFails, TypeOK
<1>4. CASE NotWritten BY <1>4 DEF NotWritten, log, TypeOK
<1> QED BY <1>1, <1>2, <1>3, <1>4 DEF Lost

LEMMA TornSpent ==
    ASSUME TypeOK, Spent, Torn, UNCHANGED losses
    PROVE  Spent'
<1>1. losses \in Nat /\ tears \in Nat /\ tears' \in Nat BY TornType DEF TypeOK
<1>2. CASE tears' = tears
  BY <1>1, <1>2, TornType DEF Spent
<1>3. CASE tears' # tears
  BY <1>1, <1>3, TornType DEF Spent
<1> QED BY <1>2, <1>3

LEMMA LogSpent ==
    ASSUME TypeOK, Spent, NEW d, NEW R, Written(d, R) \/ Lost
    PROVE  Spent'
<1>1. CASE Written(d, R) BY <1>1 DEF Written, Spent
<1>2. CASE Glued BY <1>2 DEF Glued, Spent, TypeOK
<1>3. CASE WriteFails BY <1>3, TornSpent DEF WriteFails
<1>4. CASE NotWritten BY <1>4 DEF NotWritten, log, Spent
<1> QED BY <1>1, <1>2, <1>3, <1>4 DEF Lost

LEMMA UnterminatedEffect ==
    ASSUME TypeOK, Spent, NEW p \in Procs, CreateUnterminated(p)
    PROVE  /\ disk' = [disk EXCEPT ![p] = Ready]
           /\ disk' \in [Procs -> State \cup {None}]
           /\ diskResult' = diskResult
           /\ tail' \in {NoTail, Cut} \cup Procs
           /\ tears' \in Nat /\ losses' \in Nat
           /\ Spent'
  BY DEF CreateUnterminated, TypeOK, Spent, State

(* The actions. *)

LEMMA CreateInv ==
    ASSUME Inv, NEW p \in Procs, Create(p)
    PROVE  Inv'
<1> USE DEF Create
<1>1. /\ TypeOK /\ Given /\ Alone /\ Agrees /\ ExitLogged /\ ExitKnown /\ Spent
      /\ p \notin created /\ table' = [table EXCEPT ![p] = Ready]
      /\ UNCHANGED <<pc, job, result, raced, noResult, cutShort>>
  BY DEF Inv, threads
<1>2. table[p] = None /\ disk[p] = None BY <1>1 DEF Given
<1> DEFINE Rec  == Written([disk EXCEPT ![p] = Ready], diskResult) /\ UNCHANGED dropped
           Part == /\ ~failed /\ failed' = TRUE /\ faults' = faults + 1
                   /\ CreateUnterminated(p) /\ UNCHANGED dropped
<1>3. Rec \/ (Lost /\ Drop(p)) \/ Part BY DEF Lost
<1>4. Rec \/ Part => disk' = [disk EXCEPT ![p] = Ready] /\ diskResult' = diskResult
  <2>1. CASE Rec BY <2>1 DEF Written
  <2>2. CASE Part BY <1>1, <2>2, UnterminatedEffect
  <2> QED BY <2>1, <2>2
<1>6. /\ disk' \in [Procs -> State \cup {None}]
      /\ diskResult' = diskResult
      /\ \A q \in Procs \ {p} : disk'[q] = disk[q] \/ (disk'[q] = None /\ q \in dropped')
      /\ dropped \subseteq dropped'
      /\ p \notin dropped' => disk'[p] = Ready
      /\ disk'[p] \in {Ready, None}
  <2>1. disk \in [Procs -> State \cup {None}] BY <1>1 DEF TypeOK
  <2>2. CASE Rec \/ Part
    <3>1. /\ disk' = [disk EXCEPT ![p] = Ready]
          /\ diskResult' = diskResult
          /\ dropped' = dropped
      BY <1>4, <2>2
    <3> HIDE DEF Rec, Part
    <3>2. Ready \in State BY DEF State
    <3>3. \A q \in Procs \ {p} : disk'[q] = disk[q] BY <2>1, <3>1
    <3>4. disk'[p] = Ready BY <2>1, <3>1
    <3> QED BY <2>1, <3>1, <3>2, <3>3, <3>4
  <2>3. CASE Lost /\ Drop(p)
    <3>1. dropped' = dropped \cup {p} \cup Spoiled BY <2>3 DEF Drop
    <3>2. \A q \in Procs : disk'[q] = disk[q] \/ (q \in Spoiled /\ disk'[q] = None)
      BY <1>1, <2>3, LostLine
    <3>3. disk' \in [Procs -> State \cup {None}] /\ diskResult' = diskResult
      BY <1>1, <2>3, LostLine
    <3> QED BY <1>2, <3>1, <3>2, <3>3
  <2> QED BY <1>3, <2>2, <2>3
<1>7. /\ faults' \in Nat /\ tail' \in {NoTail, Cut} \cup Procs /\ failed' \in BOOLEAN
      /\ tears' \in Nat /\ losses' \in Nat
      /\ dropped' \in SUBSET Procs
      /\ Spent'
  <2>1. CASE Rec BY <1>1, <2>1, LogTypes, LogSpent DEF TypeOK
  <2>2. CASE Lost /\ Drop(p)
    <3>1. dropped' \in SUBSET Procs BY <1>1, <2>2 DEF Drop, Spoiled, TypeOK
    <3> QED BY <1>1, <2>2, <3>1, LogTypes, LogSpent
  <2>3. CASE Part
    <3>1. faults' \in Nat /\ failed' \in BOOLEAN /\ dropped' \in SUBSET Procs
      BY <1>1, <2>3 DEF TypeOK
    <3> QED BY <1>1, <2>3, <3>1, UnterminatedEffect
  <2> QED BY <1>3, <2>1, <2>2, <2>3
<1>8. TypeOK'
  <2>1. /\ table' \in [Procs -> State \cup {None}]
        /\ \A q \in Procs : table[q] # None => table'[q] # None
    BY <1>1 DEF TypeOK, State
  <2>2. /\ up' = up /\ pc' = pc /\ job' = job /\ result' = result /\ raced' = raced
        /\ noResult' = noResult /\ cutShort' = cutShort /\ crashes' = crashes
        /\ created' = created \cup {p}
    BY <1>1
  <2>3. \A u \in Updaters : pc'[u] # "idle" =>
            up' /\ job'[u].proc \in Procs /\ table'[job'[u].proc] # None
    BY <1>1, <2>1, <2>2 DEF TypeOK
  <2> QED BY <1>1, <1>6, <1>7, <2>1, <2>2, <2>3 DEF TypeOK, Job, Label
<1>9. Given' BY <1>1, <1>2, <1>6 DEF Given, TypeOK
<1>10. \A q : Unassigned(q)' = Unassigned(q) BY <1>1 DEF Unassigned
<1>11. Unassigned(p) = {} BY <1>1, <1>2 DEF Unassigned, TypeOK
<1>12. Alone' BY <1>1, <1>10 DEF Alone
<1>13. Agrees'
  <2> SUFFICES ASSUME NEW q \in Procs, q \notin raced', q \notin dropped', table'[q] # None
               PROVE  /\ \A u \in Unassigned(q)' : disk'[q] = job'[u].state
                      /\ Unassigned(q)' = {} => disk'[q] = table'[q]
    BY DEF Agrees
  <2>1. CASE q = p BY <1>1, <1>6, <1>10, <1>11, <2>1 DEF TypeOK
  <2>2. CASE q # p
    <3>1. disk'[q] = disk[q] /\ table'[q] = table[q] BY <1>1, <1>6, <2>2 DEF TypeOK
    <3>2. q \notin raced /\ q \notin dropped BY <1>1, <1>6
    <3> QED BY <1>1, <1>10, <3>1, <3>2 DEF Agrees
  <2> QED BY <2>1, <2>2
<1>14. ExitLogged' BY <1>1, <1>2, <1>6 DEF ExitLogged, State
<1>15. ExitKnown' BY <1>1, <1>2 DEF ExitKnown, TypeOK
<1> QED BY <1>7, <1>8, <1>9, <1>12, <1>13, <1>14, <1>15 DEF Inv

LEMMA LogStateInv ==
    ASSUME Inv, NEW w \in Updaters, NEW p \in Procs, NEW st \in State, LogState(w, p, st)
    PROVE  Inv'
<1> USE DEF LogState
<1>1. /\ TypeOK /\ Given /\ Alone /\ Agrees /\ ExitLogged /\ ExitKnown /\ Spent
      /\ up /\ pc[w] = "idle" /\ table[p] # None
      /\ pc' = [pc EXCEPT ![w] = "assign"]
      /\ job' = [job EXCEPT ![w] = [proc |-> p, state |-> st]]
      /\ raced' = IF Unassigned(p) = {} THEN raced \ {p} ELSE raced \cup {p}
      /\ UNCHANGED <<up, crashes, created, table, result, noResult, cutShort>>
  BY DEF Inv
<1> DEFINE Rec  == /\ disk[p] # None /\ Written([disk EXCEPT ![p] = st], diskResult)
                   /\ dropped' = dropped \ {p}
           Vain == disk[p] = None /\ Written(disk, diskResult) /\ Drop(p)
<1>2. Rec \/ Vain \/ (Lost /\ Drop(p)) BY DEF Lost
<1>3. /\ disk' \in [Procs -> State \cup {None}]
      /\ diskResult' = diskResult
      /\ \A q \in Procs \ {p} : disk'[q] = disk[q] \/ (disk'[q] = None /\ q \in dropped')
      /\ dropped \ {p} \subseteq dropped'
      /\ p \notin dropped' => disk'[p] = st
      /\ disk'[p] \in {disk[p], st, None}
      /\ disk[p] = None => disk'[p] = None
  <2>1. disk \in [Procs -> State \cup {None}] BY <1>1 DEF TypeOK
  <2>2. CASE Rec
    <3>1. /\ disk' = [disk EXCEPT ![p] = st]
          /\ diskResult' = diskResult
          /\ disk[p] # None
          /\ dropped' = dropped \ {p}
      BY <2>2 DEF Written
    <3> HIDE DEF Rec
    <3>2. \A q \in Procs \ {p} : disk'[q] = disk[q] BY <2>1, <3>1
    <3>3. disk'[p] = st BY <2>1, <3>1
    <3> QED BY <2>1, <3>1, <3>2, <3>3
  <2>3. CASE Vain
    <3>1. disk' = disk /\ diskResult' = diskResult BY <2>3 DEF Written
    <3>2. dropped' = dropped \cup {p} \cup Spoiled BY <2>3 DEF Drop
    <3> HIDE DEF Vain
    <3> QED BY <2>1, <3>1, <3>2
  <2>4. CASE Lost /\ Drop(p)
    <3>1. dropped' = dropped \cup {p} \cup Spoiled BY <2>4 DEF Drop
    <3>2. \A q \in Procs : disk'[q] = disk[q] \/ (q \in Spoiled /\ disk'[q] = None)
      BY <1>1, <2>4, LostLine
    <3>3. disk' \in [Procs -> State \cup {None}] /\ diskResult' = diskResult
      BY <1>1, <2>4, LostLine
    <3> QED BY <3>1, <3>2, <3>3
  <2> QED BY <1>2, <2>2, <2>3, <2>4
<1>4. /\ faults' \in Nat /\ tail' \in {NoTail, Cut} \cup Procs /\ failed' \in BOOLEAN
      /\ tears' \in Nat /\ losses' \in Nat
      /\ Spent'
  <2>1. CASE Rec BY <1>1, <2>1, LogTypes, LogSpent
  <2>2. CASE Vain BY <1>1, <2>2, LogTypes, LogSpent
  <2>3. CASE Lost BY <1>1, <2>3, LogTypes, LogSpent
  <2> QED BY <1>2, <2>1, <2>2, <2>3
<1>5. dropped' \in SUBSET Procs BY <1>1, <1>2 DEF Drop, Spoiled, TypeOK
<1>6. TypeOK' BY <1>1, <1>3, <1>4, <1>5 DEF TypeOK, Job, Label
<1>7. Given' BY <1>1, <1>3 DEF Given
<1>8. /\ Unassigned(p)' = Unassigned(p) \cup {w}
      /\ w \notin Unassigned(p)
      /\ \A q \in Procs \ {p} : Unassigned(q)' = Unassigned(q)
      /\ \A u \in Updaters \ {w} : job'[u] = job[u] /\ pc'[u] = pc[u]
      /\ job'[w] = [proc |-> p, state |-> st] /\ pc'[w] = "assign"
  BY <1>1 DEF Unassigned, TypeOK
<1>9. Alone' BY <1>1, <1>8 DEF Alone
<1>10. Agrees'
  <2> SUFFICES ASSUME NEW q \in Procs, q \notin raced', q \notin dropped', table'[q] # None
               PROVE  /\ \A u \in Unassigned(q)' : disk'[q] = job'[u].state
                      /\ Unassigned(q)' = {} => disk'[q] = table'[q]
    BY DEF Agrees
  <2>1. CASE q = p
    <3>1. Unassigned(p) = {} BY <1>1, <2>1
    <3> QED BY <1>3, <1>8, <2>1, <3>1
  <2>2. CASE q # p
    <3>1. disk'[q] = disk[q] /\ Unassigned(q)' = Unassigned(q) BY <1>3, <1>8, <2>2
    <3>2. q \notin raced /\ q \notin dropped BY <1>1, <1>3, <2>2
    <3>3. \A u \in Unassigned(q) : u \in Updaters \ {w} BY <1>1 DEF Unassigned
    <3> QED BY <1>1, <1>8, <3>1, <3>2, <3>3 DEF Agrees
  <2> QED BY <2>1, <2>2
<1>11. ExitLogged'
  <2> SUFFICES ASSUME NEW q \in Procs, q \notin noResult, q \notin cutShort,
                      disk'[q] \in Final, q \notin diskResult
               PROVE  \E u \in Updaters :
                         /\ job'[u].proc = q
                         /\ job'[u].state \in Final
                         /\ pc'[u] \in {"assign", "logResult"}
    BY <1>1, <1>3 DEF ExitLogged
  <2>1. CASE disk'[q] = disk[q]
    <3>1. PICK u \in Updaters :
              /\ job[u].proc = q
              /\ job[u].state \in Final
              /\ pc[u] \in {"assign", "logResult"}
      BY <1>1, <2>1 DEF ExitLogged
    <3>2. u # w BY <1>1, <3>1
    <3> QED BY <1>8, <3>1, <3>2
  <2>2. CASE disk'[q] # disk[q]
    <3>1. q = p /\ st \in Final BY <1>3, <2>2 DEF State
    <3> QED BY <1>8, <3>1
  <2> QED BY <2>1, <2>2
<1>12. ExitKnown'
  <2> SUFFICES ASSUME NEW q \in Procs, q \notin noResult, q \notin cutShort,
                      table[q] \in Final, q \notin result
               PROVE  \E u \in Updaters :
                         /\ job'[u].proc = q
                         /\ pc'[u] \in {"logResult", "assignResult"}
    BY <1>1 DEF ExitKnown
  <2>1. PICK u \in Updaters : job[u].proc = q /\ pc[u] \in {"logResult", "assignResult"}
    BY <1>1 DEF ExitKnown
  <2>2. u # w BY <1>1, <2>1
  <2> QED BY <1>8, <2>1, <2>2
<1> QED BY <1>4, <1>6, <1>7, <1>9, <1>10, <1>11, <1>12 DEF Inv

LEMMA AssignStateInv ==
    ASSUME Inv, NEW w \in Updaters, AssignState(w)
    PROVE  Inv'
<1> USE DEF AssignState
<1> DEFINE p  == job[w].proc
           st == job[w].state
<1>1. /\ TypeOK /\ Given /\ Alone /\ Agrees /\ ExitLogged /\ ExitKnown /\ Spent
      /\ pc[w] = "assign"
      /\ table' = [table EXCEPT ![p] = st]
      /\ UNCHANGED <<up, crashes, created, result>>
      /\ UNCHANGED <<faults, disk, diskResult, tail, failed, tears, losses>>
      /\ UNCHANGED <<raced, dropped, noResult, cutShort>>
  BY DEF Inv, log, history
<1>2. p \in Procs /\ st \in State /\ table[p] # None /\ up /\ w \in Unassigned(p)
  BY <1>1 DEF TypeOK, Unassigned, Job
<1>3. /\ pc' \in [Updaters -> Label]
      /\ job' \in [Updaters -> Job]
      /\ \A u \in Updaters \ {w} : pc'[u] = pc[u] /\ job'[u] = job[u]
      /\ pc'[w] = IF st \in Final THEN "logResult" ELSE "idle"
      /\ st \in Final => job'[w] = job[w]
  <2>1. pc \in [Updaters -> Label] /\ job \in [Updaters -> Job] /\ NoJob \in Job
    BY <1>1 DEF TypeOK, NoJob, Job, State
  <2>2. CASE st \in Final BY <2>1, <2>2 DEF Label
  <2>3. CASE st \notin Final BY <2>1, <2>3 DEF Done, Label
  <2> QED BY <2>2, <2>3
<1>4. /\ table' \in [Procs -> State \cup {None}]
      /\ \A q \in Procs \ {p} : table'[q] = table[q]
      /\ table'[p] = st /\ st # None
  BY <1>1, <1>2 DEF TypeOK
<1> HIDE DEF AssignState
<1>5. TypeOK'
  <2>1. \A u \in Updaters : pc'[u] # "idle" =>
            up' /\ job'[u].proc \in Procs /\ table'[job'[u].proc] # None
    BY <1>1, <1>2, <1>3, <1>4 DEF TypeOK
  <2> HIDE DEF p, st
  <2> QED BY <1>1, <1>3, <1>4, <2>1 DEF TypeOK
<1>6. Given' BY <1>1, <1>2, <1>4 DEF Given
<1>7. \A q \in Procs : Unassigned(q)' = Unassigned(q) \ {w}
  BY <1>1, <1>3 DEF Unassigned
<1>8. Alone' BY <1>1, <1>7 DEF Alone
<1>9. Agrees'
  <2> SUFFICES ASSUME NEW q \in Procs, q \notin raced, q \notin dropped, table'[q] # None
               PROVE  /\ \A u \in Unassigned(q)' : disk[q] = job'[u].state
                      /\ Unassigned(q)' = {} => disk[q] = table'[q]
    BY <1>1 DEF Agrees
  <2>1. table[q] # None BY <1>2, <1>4
  <2>2. \A u \in Unassigned(q) : disk[q] = job[u].state BY <1>1, <2>1 DEF Agrees
  <2>3. \A u \in Unassigned(q)' : u \in Unassigned(q) /\ job'[u] = job[u]
    BY <1>3, <1>7 DEF Unassigned
  <2>4. CASE q = p BY <1>2, <1>4, <2>2, <2>3, <2>4
  <2>5. CASE q # p
    <3>1. w \notin Unassigned(q) BY <2>5 DEF Unassigned
    <3>2. Unassigned(q)' = Unassigned(q) BY <1>7, <3>1
    <3>3. Unassigned(q) = {} => disk[q] = table[q] BY <1>1, <2>1 DEF Agrees
    <3> QED BY <1>4, <2>2, <2>3, <2>5, <3>2, <3>3
  <2> QED BY <2>4, <2>5
<1>10. ExitLogged'
  <2> SUFFICES ASSUME NEW q \in Procs, q \notin noResult, q \notin cutShort,
                      disk[q] \in Final, q \notin diskResult
               PROVE  \E u \in Updaters :
                         /\ job'[u].proc = q
                         /\ job'[u].state \in Final
                         /\ pc'[u] \in {"assign", "logResult"}
    BY <1>1 DEF ExitLogged
  <2>1. PICK u \in Updaters :
              /\ job[u].proc = q
              /\ job[u].state \in Final
              /\ pc[u] \in {"assign", "logResult"}
    BY <1>1 DEF ExitLogged
  <2> QED BY <1>3, <2>1
<1>11. ExitKnown'
  <2> SUFFICES ASSUME NEW q \in Procs, q \notin noResult, q \notin cutShort,
                      table'[q] \in Final, q \notin result
               PROVE  \E u \in Updaters :
                         /\ job'[u].proc = q
                         /\ pc'[u] \in {"logResult", "assignResult"}
    BY <1>1 DEF ExitKnown
  <2>1. CASE q = p BY <1>3, <1>4, <2>1
  <2>2. CASE q # p
    <3>1. PICK u \in Updaters : job[u].proc = q /\ pc[u] \in {"logResult", "assignResult"}
      BY <1>1, <1>4, <2>2 DEF ExitKnown
    <3>2. u # w BY <1>1, <3>1
    <3> QED BY <1>3, <3>1, <3>2
  <2> QED BY <2>1, <2>2
<1>12. Spent' BY <1>1 DEF Spent
<1> QED BY <1>5, <1>6, <1>8, <1>9, <1>10, <1>11, <1>12 DEF Inv

LEMMA LogResultInv ==
    ASSUME Inv, NEW w \in Updaters, LogResult(w)
    PROVE  Inv'
<1> USE DEF LogResult
<1> DEFINE p == job[w].proc
<1>1. /\ TypeOK /\ Given /\ Alone /\ Agrees /\ ExitLogged /\ ExitKnown /\ Spent
      /\ pc[w] = "logResult"
      /\ pc' = [pc EXCEPT ![w] = "assignResult"]
      /\ UNCHANGED <<up, crashes, created, table, result, job, raced, cutShort>>
  BY DEF Inv
<1> DEFINE Rec  == /\ disk[p] # None /\ Written(disk, diskResult \cup {p})
                   /\ UNCHANGED <<dropped, noResult>>
           Vain == /\ disk[p] = None /\ Written(disk, diskResult)
                   /\ noResult' = noResult \cup {p}
                   /\ UNCHANGED dropped
           Fail == /\ Lost
                   /\ noResult' = noResult \cup {p}
                   /\ dropped' = dropped \cup Spoiled
<1>2. Rec \/ Vain \/ Fail BY DEF Lost
<1> HIDE DEF LogResult
<1>3. p \in Procs BY <1>1 DEF TypeOK
<1>4. /\ disk' \in [Procs -> State \cup {None}]
      /\ \A q \in Procs : disk'[q] = disk[q] \/ (disk'[q] = None /\ q \in dropped')
      /\ dropped \subseteq dropped' /\ dropped' \in SUBSET Procs
  <2>1. disk \in [Procs -> State \cup {None}] /\ dropped \in SUBSET Procs
    BY <1>1 DEF TypeOK
  <2>2. CASE Rec \/ Vain
    <3>1. disk' = disk /\ dropped' = dropped BY <2>2 DEF Written
    <3> QED BY <2>1, <3>1
  <2>3. CASE Fail
    <3>1. \A q \in Procs : disk'[q] = disk[q] \/ (q \in Spoiled /\ disk'[q] = None)
      BY <1>1, <2>3, LostLine
    <3>2. disk' \in [Procs -> State \cup {None}] BY <1>1, <2>3, LostLine
    <3> QED BY <2>1, <2>3, <3>1, <3>2 DEF Spoiled
  <2> QED BY <1>2, <2>2, <2>3
<1>5. /\ diskResult' \in SUBSET Procs /\ noResult' \in SUBSET Procs
      /\ diskResult \subseteq diskResult' /\ noResult \subseteq noResult'
      /\ p \in diskResult' \/ p \in noResult'
  <2>1. diskResult \in SUBSET Procs /\ noResult \in SUBSET Procs BY <1>1 DEF TypeOK
  <2>2. CASE Rec BY <1>3, <2>1, <2>2 DEF Written
  <2>3. CASE Vain BY <1>3, <2>1, <2>3 DEF Written
  <2>4. CASE Fail
    <3>1. diskResult' = diskResult BY <1>1, <2>4, LostLine
    <3> QED BY <1>3, <2>1, <2>4, <3>1
  <2> QED BY <1>2, <2>2, <2>3, <2>4
<1>6. /\ faults' \in Nat /\ tail' \in {NoTail, Cut} \cup Procs /\ failed' \in BOOLEAN
      /\ tears' \in Nat /\ losses' \in Nat
      /\ Spent'
  <2>1. CASE Rec BY <1>1, <2>1, LogTypes, LogSpent
  <2>2. CASE Vain BY <1>1, <2>2, LogTypes, LogSpent
  <2>3. CASE Fail BY <1>1, <2>3, LogTypes, LogSpent
  <2> QED BY <1>2, <2>1, <2>2, <2>3
<1>7. /\ \A u \in Updaters \ {w} : pc'[u] = pc[u]
      /\ pc'[w] = "assignResult"
      /\ pc' \in [Updaters -> Label]
  BY <1>1 DEF TypeOK, Label
<1>8. TypeOK'
  <2>1. \A u \in Updaters : pc'[u] # "idle" =>
            up' /\ job'[u].proc \in Procs /\ table'[job'[u].proc] # None
    BY <1>1, <1>7 DEF TypeOK
  <2> HIDE DEF p
  <2> QED BY <1>1, <1>4, <1>5, <1>6, <1>7, <2>1 DEF TypeOK, Job
<1>9. Given' BY <1>1, <1>4 DEF Given
<1>10. \A q \in Procs : Unassigned(q)' = Unassigned(q)
  BY <1>1, <1>7 DEF Unassigned
<1>11. Alone' BY <1>1, <1>10 DEF Alone
<1>12. Agrees' BY <1>1, <1>4, <1>10 DEF Agrees
<1>13. ExitLogged'
  <2> SUFFICES ASSUME NEW q \in Procs, q \notin noResult', q \notin cutShort,
                      disk'[q] \in Final, q \notin diskResult'
               PROVE  \E u \in Updaters :
                         /\ job[u].proc = q
                         /\ job[u].state \in Final
                         /\ pc'[u] \in {"assign", "logResult"}
    BY <1>1 DEF ExitLogged
  <2>1. disk[q] \in Final BY <1>4 DEF State
  <2>2. PICK u \in Updaters :
              /\ job[u].proc = q
              /\ job[u].state \in Final
              /\ pc[u] \in {"assign", "logResult"}
    BY <1>1, <1>5, <2>1 DEF ExitLogged
  <2>3. u # w BY <1>5, <2>2
  <2> QED BY <1>7, <2>2, <2>3
<1>14. ExitKnown' BY <1>1, <1>5, <1>7 DEF ExitKnown
<1> QED BY <1>6, <1>8, <1>9, <1>11, <1>12, <1>13, <1>14 DEF Inv

LEMMA AssignResultInv ==
    ASSUME Inv, NEW w \in Updaters, AssignResult(w)
    PROVE  Inv'
<1>1. /\ TypeOK /\ Given /\ Alone /\ Agrees /\ ExitLogged /\ ExitKnown /\ Spent
      /\ pc[w] = "assignResult"
      /\ result' = result \cup {job[w].proc}
      /\ pc' = [pc EXCEPT ![w] = "idle"]
      /\ job' = [job EXCEPT ![w] = NoJob]
      /\ UNCHANGED <<up, crashes, created, table>>
      /\ UNCHANGED <<faults, disk, diskResult, tail, failed, tears, losses>>
      /\ UNCHANGED <<raced, dropped, noResult, cutShort>>
  BY DEF Inv, AssignResult, Done, log, history
<1>2. /\ \A u \in Updaters \ {w} : pc'[u] = pc[u] /\ job'[u] = job[u]
      /\ pc'[w] = "idle"
      /\ pc' \in [Updaters -> Label] /\ job' \in [Updaters -> Job]
      /\ result' \in SUBSET Procs
  <2>1. NoJob \in Job BY DEF NoJob, Job, State
  <2> QED BY <1>1, <2>1 DEF TypeOK, Label
<1>3. TypeOK' BY <1>1, <1>2 DEF TypeOK
<1>4. Given' /\ Spent' BY <1>1 DEF Given, Spent
<1>5. \A q : Unassigned(q)' = Unassigned(q) BY <1>1, <1>2 DEF Unassigned
<1>6. \A q : \A u \in Unassigned(q) : job'[u] = job[u] BY <1>1, <1>2 DEF Unassigned
<1>7. Alone' BY <1>1, <1>5 DEF Alone
<1>8. Agrees' BY <1>1, <1>5, <1>6 DEF Agrees
<1>9. ExitLogged' BY <1>1, <1>2 DEF ExitLogged
<1>10. ExitKnown' BY <1>1, <1>2 DEF ExitKnown
<1> QED BY <1>3, <1>4, <1>7, <1>8, <1>9, <1>10 DEF Inv

LEMMA CrashInv ==
    ASSUME Inv, Crash
    PROVE  Inv'
<1> USE DEF Crash
<1>1. /\ TypeOK /\ Given /\ ExitLogged /\ Spent
      /\ up' = FALSE
      /\ table' = [p \in Procs |-> None]
      /\ pc' = [u \in Updaters |-> "idle"]
      /\ job' = [u \in Updaters |-> NoJob]
      /\ raced' = {} /\ dropped' = {} /\ result' = {}
      /\ cutShort' = cutShort \cup Halfway
      /\ UNCHANGED <<faults, noResult>>
  BY DEF Inv
<1> DEFINE Clean == UNCHANGED <<disk, diskResult, tail, tears, losses, created>>
           Tear  == Torn /\ UNCHANGED <<diskResult, losses, created>>
           Unfinished(p) == CreateUnterminated(p) /\ created' = created \cup {p}
<1>2. Clean \/ Tear \/ \E p \in Procs \ created : Unfinished(p) OBVIOUS
<1>3. crashes' \in Nat /\ failed' \in BOOLEAN
  <2>1. crashes' \in Nat BY <1>1 DEF TypeOK
  <2>2. failed' = FALSE OBVIOUS
  <2> QED BY <2>1, <2>2
<1> HIDE DEF Crash
<1>4. /\ disk' \in [Procs -> State \cup {None}]
      /\ diskResult' = diskResult
      /\ tail' \in {NoTail, Cut} \cup Procs
      /\ tears' \in Nat /\ losses' \in Nat
      /\ created' \in SUBSET Procs
      /\ \A q \in Procs : disk'[q] \in Final => disk'[q] = disk[q]
      /\ Given'
      /\ Spent'
  <2>1. CASE Clean BY <1>1, <2>1 DEF TypeOK, Given, Spent
  <2>2. CASE Tear
    <3>1. /\ disk' \in [Procs -> State \cup {None}]
          /\ tail' \in {NoTail, Cut} \cup Procs
          /\ tears' \in Nat
          /\ \A q \in Procs : disk'[q] = disk[q] \/ (q \in Spoiled /\ disk'[q] = None)
      BY <1>1, <2>2, TornType
    <3>2. Spent' BY <1>1, <2>2, TornSpent
    <3>3. losses' \in Nat /\ created' \in SUBSET Procs BY <1>1, <2>2 DEF TypeOK
    <3>4. Given' BY <1>1, <2>2, <3>1 DEF Given
    <3>5. \A q \in Procs : disk'[q] \in Final => disk'[q] = disk[q]
      BY <3>1 DEF State
    <3> QED BY <2>2, <3>1, <3>2, <3>3, <3>4, <3>5
  <2>3. CASE \E p \in Procs \ created : Unfinished(p)
    <3>1. PICK p \in Procs \ created : Unfinished(p) BY <2>3
    <3>2. /\ disk' = [disk EXCEPT ![p] = Ready]
          /\ disk' \in [Procs -> State \cup {None}]
          /\ diskResult' = diskResult
          /\ tail' \in {NoTail, Cut} \cup Procs
          /\ tears' \in Nat /\ losses' \in Nat
          /\ Spent'
      BY <1>1, <3>1, UnterminatedEffect
    <3>3. created' \in SUBSET Procs BY <1>1, <3>1 DEF TypeOK
    <3>4. \A q \in Procs : disk'[q] = IF q = p THEN Ready ELSE disk[q]
      BY <1>1, <3>2 DEF TypeOK
    <3>5. Given' BY <1>1, <3>1, <3>4 DEF Given
    <3>6. \A q \in Procs : disk'[q] \in Final => disk'[q] = disk[q]
      BY <3>4
    <3> HIDE DEF Unfinished
    <3> QED BY <3>2, <3>3, <3>5, <3>6
  <2> QED BY <1>2, <2>1, <2>2, <2>3
<1>5. cutShort' \in SUBSET Procs
  <2>1. Halfway \subseteq Procs BY <1>1 DEF Halfway, TypeOK
  <2> QED BY <1>1, <2>1 DEF TypeOK
<1>6. TypeOK'
  <2>1. NoJob \in Job BY DEF NoJob, Job, State
  <2> QED BY <1>1, <1>3, <1>4, <1>5, <2>1 DEF TypeOK, Label
<1>7. \A q : Unassigned(q)' = {} BY <1>1 DEF Unassigned
<1>8. Alone' /\ Agrees' BY <1>1, <1>7 DEF Alone, Agrees
<1>9. ExitKnown' BY <1>1 DEF ExitKnown, State
<1>10. ExitLogged'
  <2> SUFFICES ASSUME NEW q \in Procs, q \notin noResult, q \notin cutShort',
                      disk'[q] \in Final, q \notin diskResult
               PROVE  FALSE
    BY <1>1, <1>4 DEF ExitLogged
  <2>1. disk[q] \in Final BY <1>4
  <2>2. PICK u \in Updaters :
              /\ job[u].proc = q
              /\ job[u].state \in Final
              /\ pc[u] \in {"assign", "logResult"}
    BY <1>1, <2>1 DEF ExitLogged
  <2>3. q \in Halfway BY <2>2 DEF Halfway
  <2> QED BY <1>1, <2>3
<1> QED BY <1>4, <1>6, <1>8, <1>9, <1>10 DEF Inv

LEMMA RestartInv ==
    ASSUME Inv, Restart
    PROVE  Inv'
<1> USE DEF Restart
<1>1. /\ TypeOK /\ Given /\ ExitLogged /\ ExitKnown /\ Spent /\ ~up /\ up'
      /\ UNCHANGED <<crashes, created, disk, diskResult, tail, tears, losses>>
      /\ UNCHANGED <<pc, job, raced, dropped, noResult, cutShort>>
      /\ \/ table' = disk /\ result' = diskResult
         \/ table' = table /\ result' = result
  BY DEF Inv, threads, history
<1>2. failed' \in BOOLEAN /\ faults' \in Nat
  <2>1. faults' \in Nat BY <1>1 DEF TypeOK
  <2>2. failed \in BOOLEAN BY <1>1 DEF TypeOK
  <2>3. failed' = failed \/ failed' = TRUE \/ failed' \in BOOLEAN BY Zenon
  <2> QED BY <2>1, <2>2, <2>3
<1> HIDE DEF Restart
<1>3. \A u \in Updaters : pc[u] = "idle" BY <1>1 DEF TypeOK
<1>4. TypeOK' BY <1>1, <1>2, <1>3 DEF TypeOK
<1>5. Given' BY <1>1 DEF Given
<1>6. \A q : Unassigned(q)' = {} BY <1>1, <1>3 DEF Unassigned
<1>7. Alone' BY <1>6 DEF Alone
<1>8. \A q : Unassigned(q) = {} BY <1>3 DEF Unassigned
<1>9. ExitLogged' BY <1>1 DEF ExitLogged
<1>10. ExitKnown'
  <2>1. CASE table' = disk /\ result' = diskResult
    BY <1>1, <1>3, <2>1 DEF ExitLogged, ExitKnown
  <2>2. CASE table' = table /\ result' = result
    BY <1>1, <2>2 DEF ExitKnown
  <2> QED BY <1>1, <2>1, <2>2
<1>11. Agrees'
  <2>1. CASE table' = disk BY <1>1, <1>6, <2>1 DEF Agrees
  <2>2. CASE table' = table BY <1>1, <1>6, <1>8, <2>2 DEF Agrees, Inv
  <2> QED BY <1>1, <2>1, <2>2
<1>12. Spent' BY <1>1 DEF Spent
<1> QED BY <1>4, <1>5, <1>7, <1>9, <1>10, <1>11, <1>12 DEF Inv

LEMMA StepInv == Inv /\ [Next]_vars => Inv'
<1> SUFFICES ASSUME Inv, [Next]_vars PROVE Inv' OBVIOUS
<1>1. ASSUME NEW p \in Procs, Create(p) PROVE Inv' BY <1>1, CreateInv
<1>2. ASSUME NEW u \in Updaters, NEW p \in Procs, NEW st \in State, LogState(u, p, st)
      PROVE  Inv'
  BY <1>2, LogStateInv
<1>3. ASSUME NEW u \in Updaters, AssignState(u) PROVE Inv' BY <1>3, AssignStateInv
<1>4. ASSUME NEW u \in Updaters, LogResult(u) PROVE Inv' BY <1>4, LogResultInv
<1>5. ASSUME NEW u \in Updaters, AssignResult(u) PROVE Inv' BY <1>5, AssignResultInv
<1>6. CASE Crash BY <1>6, CrashInv
<1>7. CASE Restart BY <1>7, RestartInv
<1>8. CASE UNCHANGED vars
  BY <1>8 DEF vars, log, threads, history, Inv, TypeOK, Given, Alone, Agrees,
              ExitLogged, ExitKnown, Spent, Unassigned
<1> QED BY <1>1, <1>2, <1>3, <1>4, <1>5, <1>6, <1>7, <1>8 DEF Next

LEMMA Inductive == Spec => []Inv
  BY InitInv, StepInv, PTL DEF Spec

-----------------------------------------------------------------------------
(* Theorems *)

\* Every variable keeps its type, and only goroutines of a scheduler that is
\* running hold an entry, which its table has (process_table.go:105).
THEOREM TypeCorrect == Spec => []TypeOK
<1>1. Inv => TypeOK BY DEF Inv
<1> QED BY <1>1, Inductive, PTL

\* A restart would bring back the state an entry has or is about to be given,
\* unless updates of it overlapped or the log could not record the last one.
THEOREM LogAgreement == Spec => []LogAgrees
<1>1. Inv => LogAgrees BY DEF Inv, Agrees, LogAgrees
<1> QED BY <1>1, Inductive, PTL

\* An ended process lacks its exit code for good only if a crash came between
\* its two events or the second was not recorded.
THEOREM ExitCodes == Spec => []ExitKnown
<1>1. Inv => ExitKnown BY DEF Inv
<1> QED BY <1>1, Inductive, PTL

\* However often the scheduler crashes, an unterminated line costs the log at
\* most one line that was written later.
THEOREM TornLines == Spec => []OneLossPerTear
<1>1. Inv => OneLossPerTear
  <2> SUFFICES ASSUME TypeOK, Spent PROVE OneLossPerTear BY DEF Inv
  <2>1. losses \in Nat /\ tears \in Nat BY DEF TypeOK
  <2> QED BY <2>1 DEF Spent, OneLossPerTear
<1> QED BY <1>1, Inductive, PTL

-----------------------------------------------------------------------------
(* An action property: what the log has recorded stays recorded. *)

\* A replay that finds a process, or its exit code, is followed by none that
\* does not: the log is only appended to (wal.go:101).  The one exception is a
\* process whose create event is the unterminated last line, which the next
\* line spoils; nothing else is recorded of it.  Such a process is there after
\* one restart and gone after the next.
EntriesEndure ==
    [][/\ diskResult \subseteq diskResult'
       /\ \A p \in Procs : disk[p] # None =>
             \/ disk'[p] # None
             \/ tail = p /\ disk[p] = Ready /\ p \notin diskResult]_vars

\* An unterminated create event is the only one of its process.
Fresh ==
    /\ diskResult \subseteq created
    /\ \A p \in Procs : tail = p => disk[p] = Ready /\ p \notin diskResult

\* What one append may do to the file: the line is recorded, or lost.
LEMMA AppendEndures ==
    ASSUME TypeOK, Fresh, Lost, created \subseteq created'
    PROVE  /\ UNCHANGED diskResult
           /\ \A p \in Procs : disk[p] # None => disk'[p] # None \/ tail = p
           /\ Fresh'
<1>1. CASE Glued
  BY <1>1 DEF Glued, Unreadable, Spoiled, Fresh, TypeOK
<1>2. CASE WriteFails
  BY <1>2 DEF WriteFails, Torn, Unreadable, Spoiled, Fresh, TypeOK
<1>3. CASE NotWritten
  BY <1>3 DEF NotWritten, log, Fresh
<1> QED BY <1>1, <1>2, <1>3 DEF Lost

LEMMA UnterminatedEndures ==
    ASSUME TypeOK, Given, Fresh, NEW q \in Procs \ created, CreateUnterminated(q),
           created' = created \cup {q}
    PROVE  /\ UNCHANGED diskResult
           /\ \A p \in Procs : disk[p] # None => disk'[p] # None
           /\ Fresh'
BY DEF CreateUnterminated, Given, Fresh, TypeOK, State

LEMMA EndureStep ==
    ASSUME Inv, Fresh, [Next]_vars
    PROVE  /\ diskResult \subseteq diskResult'
           /\ \A p \in Procs : disk[p] # None => disk'[p] # None \/ tail = p
           /\ Fresh'
<1> DEFINE Goal == /\ diskResult \subseteq diskResult'
                   /\ \A p \in Procs : disk[p] # None => disk'[p] # None \/ tail = p
                   /\ Fresh'
<1>0. TypeOK /\ Given BY DEF Inv
<1>1. ASSUME NEW d \in [Procs -> State \cup {None}], NEW R, Written(d, R),
             created \subseteq created', diskResult \subseteq R, R \subseteq created',
             \A p \in Procs : disk[p] # None => d[p] # None
      PROVE  Goal
  BY <1>1 DEF Written, Fresh
<1>2. CASE UNCHANGED <<disk, diskResult, tail, created>>
  BY <1>2 DEF Fresh
<1>3. ASSUME NEW q \in Procs, Create(q) PROVE Goal
  <2>1. q \notin created /\ created' = created \cup {q} BY <1>3 DEF Create
  <2>2. CASE Written([disk EXCEPT ![q] = Ready], diskResult)
    <3>1. /\ [disk EXCEPT ![q] = Ready] \in [Procs -> State \cup {None}]
          /\ \A p \in Procs : disk[p] # None => [disk EXCEPT ![q] = Ready][p] # None
      BY <1>0 DEF TypeOK, State
    <3> QED BY <1>1, <2>1, <2>2, <3>1 DEF Fresh
  <2>3. CASE Lost BY <1>0, <2>1, <2>3, AppendEndures
  <2>4. CASE CreateUnterminated(q) BY <1>0, <2>1, <2>4, UnterminatedEndures
  <2> QED BY <1>3, <2>2, <2>3, <2>4 DEF Create, Lost
<1>4. ASSUME NEW u \in Updaters, NEW q \in Procs, NEW st \in State, LogState(u, q, st)
      PROVE  Goal
  <2>1. UNCHANGED created BY <1>4 DEF LogState
  <2>2. CASE Written([disk EXCEPT ![q] = st], diskResult)
    <3>1. /\ [disk EXCEPT ![q] = st] \in [Procs -> State \cup {None}]
          /\ \A p \in Procs : disk[p] # None => [disk EXCEPT ![q] = st][p] # None
      BY <1>0 DEF TypeOK
    <3> QED BY <1>1, <2>1, <2>2, <3>1 DEF Fresh
  <2>3. CASE Written(disk, diskResult)
    BY <1>0, <1>1, <2>1, <2>3 DEF Fresh, TypeOK
  <2>4. CASE Lost BY <1>0, <2>1, <2>4, AppendEndures
  <2> QED BY <1>4, <2>2, <2>3, <2>4 DEF LogState, Lost
<1>5. ASSUME NEW u \in Updaters, AssignState(u) \/ AssignResult(u) PROVE Goal
  BY <1>2, <1>5 DEF AssignState, AssignResult, log
<1>6. ASSUME NEW u \in Updaters, LogResult(u) PROVE Goal
  <2> DEFINE q == job[u].proc
  <2>1. UNCHANGED created /\ q \in Procs BY <1>0, <1>6 DEF LogResult, TypeOK
  <2>2. CASE disk[q] # None /\ Written(disk, diskResult \cup {q})
    <3>1. q \in created BY <1>0, <2>1, <2>2 DEF Given
    <3> QED BY <1>0, <1>1, <2>1, <2>2, <3>1 DEF Fresh, TypeOK
  <2>3. CASE Written(disk, diskResult)
    BY <1>0, <1>1, <2>1, <2>3 DEF Fresh, TypeOK
  <2>4. CASE Lost BY <1>0, <2>1, <2>4, AppendEndures
  <2> QED BY <1>6, <2>2, <2>3, <2>4 DEF LogResult, Lost
<1>7. CASE Crash
  <2>1. CASE UNCHANGED <<disk, diskResult, tail, created>> BY <1>2, <2>1
  <2>2. CASE Torn /\ UNCHANGED <<diskResult, created>>
    BY <1>0, <2>2 DEF Torn, Unreadable, Spoiled, Fresh, TypeOK
  <2>3. ASSUME NEW q \in Procs \ created, CreateUnterminated(q), created' = created \cup {q}
        PROVE  Goal
    BY <1>0, <2>3, UnterminatedEndures
  <2> QED BY <1>7, <2>1, <2>2, <2>3 DEF Crash
<1>8. CASE Restart \/ UNCHANGED vars
  BY <1>2, <1>8 DEF Restart, vars, log
<1> QED BY <1>3, <1>4, <1>5, <1>6, <1>7, <1>8 DEF Next

\* No crash, failed write or overlap of updates takes back what the log has
\* recorded of a process, but for a create event without its newline.
THEOREM EntriesAreKept == Spec => EntriesEndure
<1>1. Init => Fresh BY DEF Init, Fresh
<1>2. Inv /\ Fresh /\ [Next]_vars => Fresh' BY EndureStep
<1>3. ASSUME Inv, Fresh, [Next]_vars
      PROVE  /\ diskResult \subseteq diskResult'
             /\ \A p \in Procs : disk[p] # None =>
                   \/ disk'[p] # None
                   \/ tail = p /\ disk[p] = Ready /\ p \notin diskResult
  BY <1>3, EndureStep DEF Fresh
<1> QED BY <1>1, <1>2, <1>3, Inductive, PTL DEF Spec, EntriesEndure
=============================================================================
