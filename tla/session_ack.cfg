SPECIFICATION Spec
CONSTANTS
    l1 = l1  l2 = l2
    Lords = {l1, l2}
    Cap = 2
    TTL = 1
    Period = 1
    None = None
SYMMETRY Symmetry
INVARIANT AckComesFirst
CHECK_DEADLOCK FALSE
