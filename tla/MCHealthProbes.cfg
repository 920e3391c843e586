SPECIFICATION ProbesSpec
CONSTANTS
    u1 = u1
    u2 = u2
    q1 = q1
    q2 = q2
    q3 = q3
    None = None
    Request = {q1, q2, q3}
    Snapshot = {1, 2, 3}
    Pool <- MCPool
    Weight <- MCWeight
    CursorSize = 16
    Slots = 1
    Deployment <- Deployments
CHECK_DEADLOCK FALSE
INVARIANTS
    ProbesTypeOK
    SteadySelectionExact
    WeightedShare
    KnownDownAvoided
PROPERTY
    FlagsSettle
