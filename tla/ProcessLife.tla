---------------------------- MODULE ProcessLife ----------------------------
(***************************************************************************)
(* The life of processes as tenants see it: what the states of             *)
(* GetProcess, ListProcesses and Wait may do, whatever happens to lords,   *)
(* streams and the scheduler. Module Cluster implements it.                *)
(***************************************************************************)
CONSTANT Procs

VARIABLE life   \* per process: the state shown; NEW before it is created

Final == {"EXITED", "STOPPED"}

Init == life = [p \in Procs |-> "NEW"]

\* A process is created once: it waits for its lord, or could not be sent.
Create(p) ==
    /\ life[p] = "NEW"
    /\ \E s \in {"READY", "STOPPED"} : life' = [life EXCEPT ![p] = s]

\* A lord reports that it runs, has exited or was ended by a signal: even of a
\* process that was taken for ended before.
Report(p) ==
    /\ life[p] # "NEW"
    /\ \E s \in {"RUNNING", "EXITED", "STOPPED"} : life' = [life EXCEPT ![p] = s]

\* It is started anew on some lord, or that is given up: never if it has ended.
Respawn(p) ==
    /\ life[p] \notin Final \cup {"NEW"}
    /\ \E s \in {"RESTARTING", "STOPPED"} : life' = [life EXCEPT ![p] = s]

\* Processes that are started anew are given up.
GiveUp(P) ==
    /\ \A p \in P : life[p] = "RESTARTING"
    /\ life' = [p \in Procs |-> IF p \in P THEN "STOPPED" ELSE life[p]]

Next ==
    \/ \E p \in Procs : Create(p) \/ Report(p) \/ Respawn(p)
    \/ \E P \in SUBSET Procs : GiveUp(P)

Spec == Init /\ [][Next]_life
=============================================================================
