---------------------------- MODULE MCLordAgent ----------------------------
EXTENDS LordAgent

CONSTANT p1
=============================================================================
