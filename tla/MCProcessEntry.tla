--------------------------- MODULE MCProcessEntry ---------------------------
EXTENDS ProcessEntry, TLC

CONSTANTS s1, s2, h1, h2

\* Two machines, one stream each.
TwoHosts == s1 :> h1 @@ s2 :> h2

\* One machine that reconnects: its second stream gets a new lord id, the
\* entry may be re-bound to it, and copies that the first stream started are
\* reported on the second.
Reconnect == s1 :> h1 @@ s2 :> h1
=============================================================================
