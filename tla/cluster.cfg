SPECIFICATION Spec
CONSTANTS
    h1 = h1  h2 = h2
    Hosts = {h1, h2}
    Procs = {p1}
    MaxConns = 2
    MaxRestarts = 1
    MaxAttempts = 2
    MaxQueue = 2
    MaxCrashes = 1
    NoHost = NoHost
SYMMETRY HostSymmetry
INVARIANTS TypeOK   NoForgottenProcess
 
CHECK_DEADLOCK FALSE
