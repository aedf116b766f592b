----------------------------- MODULE MCCluster -----------------------------
EXTENDS Cluster, TLC

CONSTANTS h1, h2

\* Hosts differ in nothing but their names.
HostSymmetry == Permutations(Hosts)
=============================================================================
