SPECIFICATION Spec
CONSTANTS
    c1 = c1
    t1 = t1
    t2 = t2
    Consumer = {c1}
    Key = {k1}
    OwnerOf <- MCOwnerOf
    Gateway = {g1}
    Tx = {t1, t2}
    EventBuffer = 1
    Deployment <- LossyDeployment
CHECK_DEADLOCK FALSE
PROPERTY
    RevokedKeysDropped
