SPECIFICATION Spec
CONSTANTS
    u1 = u1
    q1 = q1
    q2 = q2
    q3 = q3
    None = None
    Request = {q1, q2, q3}
    Snapshot = {1}
    Pool <- MCPool
    Weight <- MCWeight
    CursorSize = 16
    Threshold <- MCThreshold
    OpenFor <- MCOpenFor
    Limited = TRUE
    Tries = 2
    MaxTime = 1
    MaxFlips = 1
CHECK_DEADLOCK FALSE
INVARIANTS
    TypeOK
    UnauthorisedStopped
    OpenCircuitsAvoided
PROPERTIES
    OpenedByFailureRun
