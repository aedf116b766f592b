SPECIFICATION Spec
CONSTANTS
    l1 = l1  l2 = l2  c1 = c1  c2 = c2  c3 = c3
    Lords = {l1, l2}
    Calls = {c1, c2, c3}
    Cap = 1
    None = None
INVARIANTS TypeOK WaiterKept RightAck
PROPERTY CallReturns
CHECK_DEADLOCK FALSE
