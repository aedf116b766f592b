-------------------------- MODULE MCWriteAheadLog --------------------------
EXTENDS WriteAheadLog, TLC

CONSTANTS p1, p2, u1, u2

\* Processes differ in nothing but their names, nor do goroutines.
Symmetry == Permutations(Procs) \cup Permutations(Updaters)
=============================================================================
