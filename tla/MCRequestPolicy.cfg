SPECIFICATION Spec
CONSTANTS
    Request = {q1, q2, q3}
    Rate = 1
    Burst = 0
    Quota = 2
    Second = 2
    Minute = 4
    Tries = 2
    MaxDelay = 1
    MaxTime = 5
SYMMETRY Symmetry
CHECK_DEADLOCK FALSE
INVARIANTS
    TypeOK
    WithinBudget
    RefusedForCause
