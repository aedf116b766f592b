----------------------------- MODULE Placement -----------------------------
(***************************************************************************)
(* How the scheduler chooses a lord (internal/scheduler/placement.go):     *)
(* Pick for a new process and for recovery, PickDifferent for Migrate.     *)
(*                                                                         *)
(* The registry is a Go map, so an operator here yields the set of lords   *)
(* that the loop over it may return: all with the best score, or all that  *)
(* are eligible.  The floats of scoreLord are fractions of integers: the   *)
(* rounding, which only decides between equal scores, is left out.         *)
(***************************************************************************)
EXTENDS Integers

CONSTANT Lords  \* lord ids

\* What the registry knows of a lord's load: cpu in percent and memory in use,
\* advertised and physical memory, and the number of processes.
Load == [cpu: Nat, used: Nat, adv: Nat, phys: Nat, procs: Nat]

\* No more work fits.  Only the lord a tenant prefers is asked this.
HasCapacity(load) ==
    /\ load.cpu < 100
    /\ load.adv > 0 => load.used < load.adv

Clamp(n, top) == IF n < 0 THEN 0 ELSE IF n > top THEN top ELSE n

\* Mutant of CpuFree: the share of a lord that reports more than 100 % is
\* negative.
CpuFreeRaw(load) == 100 - load.cpu

\* Free cpu, in percent.  A report may exceed 100: the lord divides by its
\* cores and cuts at 100 per core.
CpuFree(load) == Clamp(100 - load.cpu, 100)

\* The memory that counts as the whole; without any, all of it is free.
Total(load) == IF load.adv > 0 THEN load.adv ELSE load.phys

MemTop(load) == IF Total(load) > 0 THEN Total(load) ELSE 1

MemFree(load) ==
    IF Total(load) > 0 THEN Clamp(Total(load) - load.used, Total(load)) ELSE 1

\* 0.5 * cpuFree + 0.4 * memFree + 0.1 / (1 + procs), as a fraction.
ScoreLord(load) ==
    [num |-> (1 + load.procs) * (5 * CpuFree(load) * MemTop(load) + 400 * MemFree(load))
                + 100 * MemTop(load),
     den |-> 1000 * MemTop(load) * (1 + load.procs)]

Greater(a, b) == a.num * b.den > b.num * a.den

\* The lords of L with the best score.  The search starts at -1, so that a lord
\* with a score of -1 or less would not be found.
Best(L, load) ==
    {l \in L :
        /\ Greater(ScoreLord(load[l]), [num |-> -1, den |-> 1])
        /\ \A k \in L : ~Greater(ScoreLord(load[k]), ScoreLord(load[l]))}

\* Pick(prefer) among the lords L that are healthy and not draining.
Pick(algo, prefer, L, load) ==
    IF prefer \in L /\ HasCapacity(load[prefer]) THEN {prefer}
    ELSE IF algo = "weighted" THEN Best(L, load)
    ELSE L

PickDifferent(exclude, L, load) == Best(L \ {exclude}, load)
=============================================================================
