SPECIFICATION Spec
CONSTANTS
    s1 = s1
    v1 = v1
    u1 = u1
    Service = {s1}
    ServiceVersion = {v1}
    Upstream = {u1}
    Permission = {r1}
    ServiceOf <- MCServiceOf
    VersionOf <- MCVersionOf
    Flag = {"enabled", "disabled"}
    Port = {4100}
    Listener = {l1}
    Policy = {q1}
    ConfigurationID = {1, 2}
    MaxConfiguration = 2
    NoListener = NoListener
    NoConfiguration = NoConfiguration
    MaxRowVersion = 2
    Actor = {a1}
    RequiredApprovals = 0
INVARIANT
    ActiveSnapshotLoads
