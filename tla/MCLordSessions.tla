--------------------------- MODULE MCLordSessions ---------------------------
EXTENDS LordSessions, TLC

CONSTANTS l1, l2

Symmetry == Permutations(Lords)
=============================================================================
