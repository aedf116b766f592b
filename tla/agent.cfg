SPECIFICATION Spec
CONSTANTS
    p1 = p1
    Procs = {p1}
    MaxCopies = 2
    MaxStreams = 2
    Cap = 1
    MaxEvents = 3
    None = None
INVARIANTS TypeOK Reachable DrainLeavesNothing  SliceFreed
PROPERTY DrainEnds
CHECK_DEADLOCK FALSE
