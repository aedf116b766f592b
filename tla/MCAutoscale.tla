---------------------------- MODULE MCAutoscale ----------------------------
EXTENDS Autoscale, TLC

\* Lords differ in nothing but their names, and so do processes.
NameSymmetry == Permutations(Lords) \cup Permutations(Procs)
=============================================================================
