SPECIFICATION Spec
CONSTANTS
    MaxBody = 6
    MaxLimit = 4
    MaxBuffer = 3
CHECK_DEADLOCK FALSE
INVARIANTS
    TypeOK
    LimitExact
