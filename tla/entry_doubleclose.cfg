SPECIFICATION Spec
CONSTANTS
    s1 = s1  s2 = s2  h1 = h1  h2 = h2
    Sessions = {s1, s2}
    Hosts = {h1, h2}
    Host <- Reconnect
    FirstLord = s1
    Migrators = {m1}
    Waiters = {w1}
    MaxRestarts = 1
    MaxAttempts = 1
    NoLord = NoLord
INVARIANT NoDoubleClose
CHECK_DEADLOCK FALSE
