-------------------------- MODULE MCProcessOutput --------------------------
EXTENDS ProcessOutput, TLC

\* Calls differ in nothing but their names.
CallSymmetry == Permutations(Followers)
=============================================================================
