---------------------------- MODULE MCStdinRelay ----------------------------
EXTENDS StdinRelay

CONSTANTS l1, l2, c1, c2, c3
=============================================================================
