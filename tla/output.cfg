SPECIFICATION Spec
CONSTANTS
    Followers = {f1, f2}
    Cap = 3
    MaxChunk = 4
    MaxBytes = 8
SYMMETRY CallSymmetry
INVARIANTS TypeOK DumpIsLatest FollowExact OffsetIsCovered
CHECK_DEADLOCK FALSE
