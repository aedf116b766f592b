SPECIFICATION FairSpec
CONSTANTS
    s1 = s1  s2 = s2  h1 = h1  h2 = h2
    Sessions = {s1, s2}
    Hosts = {h1, h2}
    Host <- TwoHosts
    FirstLord = s1
    Migrators = {}
    Waiters = {w1}
    MaxRestarts = 2
    MaxAttempts = 2
    NoLord = NoLord
PROPERTIES FinalWakes RestartSettles
CHECK_DEADLOCK FALSE
