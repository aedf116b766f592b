SPECIFICATION Spec
CONSTANTS
    l1 = l1  l2 = l2
    Lords = {l1, l2}
    Cap = 1
    TTL = 3
    Period = 1
    None = None
SYMMETRY Symmetry
INVARIANTS TypeOK HealthyHasSession StaleIsSwept
CHECK_DEADLOCK FALSE
