------------------------------ MODULE MCLaunch ------------------------------
EXTENDS Launch, TLC
CONSTANTS l1, l2, cpu, memory

\* One lord's cgroup root passes on every controller, the other's none.
OneDelegated == (l1 :> {cpu, memory}) @@ (l2 :> {})

\* For cpu: negative, not set and too much.  For memory 2 is a limit.
SomeValues == {-1, 0, 2}
SmallLimit == [c \in {cpu} |-> 1]

\* An idle lord, one past its advertised memory, and one with a cpu report of
\* 900 % (nine cores) and without a memory size.
SomeLoads ==
    {[cpu |-> 0, used |-> 0, adv |-> 0, phys |-> 4, procs |-> 0],
     [cpu |-> 99, used |-> 9, adv |-> 2, phys |-> 4, procs |-> 3],
     [cpu |-> 900, used |-> 0, adv |-> 0, phys |-> 0, procs |-> 2]}
=============================================================================
