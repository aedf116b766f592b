SPECIFICATION Spec
CONSTANTS
    s1 = s1  s2 = s2  h1 = h1  h2 = h2
    Sessions = {s1, s2}
    Hosts = {h1, h2}
    Host <- TwoHosts
    FirstLord = s1
    Migrators = {m1}
    Waiters = {}
    MaxRestarts = 1
    MaxAttempts = 1
    NoLord = NoLord
INVARIANTS TypeOK FinalIsClosing RestartingGuarded 
CHECK_DEADLOCK FALSE
