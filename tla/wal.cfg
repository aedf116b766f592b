SPECIFICATION Spec
CONSTANTS
    p1 = p1  p2 = p2  u1 = u1  u2 = u2
    Procs = {p1, p2}
    Updaters = {u1, u2}
    Live = {"READY", "RUNNING"}
    Final = {"EXITED"}
    Ready = "READY"
    None = "none"
    NoTail = NoTail
    Cut = Cut
    MaxFaults = 1
    MaxCrashes = 1
SYMMETRY Symmetry
INVARIANTS TypeOK LogAgrees ExitKnown OneLossPerTear
CHECK_DEADLOCK FALSE
