SPECIFICATION SelectionSpec
CONSTANTS
    u1 = u1
    u2 = u2
    None = None
    Request = {q1, q2}
    Snapshot = {1}
    Pool <- MCPool
    Weight <- MCWeight
    CursorSize = 16
SYMMETRY Symmetry
CHECK_DEADLOCK FALSE
INVARIANT
    OutageIsReal
