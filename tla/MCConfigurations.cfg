SPECIFICATION Spec
CONSTANTS
    s1 = s1
    v1 = v1
    u1 = u1
    Service = {s1}
    ServiceVersion = {v1}
    Upstream = {u1}
    Permission = {r1}
    ServiceOf <- MCServiceOf
    VersionOf <- MCVersionOf
    Flag = {"enabled"}
    Port = {4100}
    Listener = {l1, l2}
    Policy = {q1}
    ConfigurationID = {1, 2, 3}
    MaxConfiguration = 3
    NoListener = NoListener
    NoConfiguration = NoConfiguration
    MaxRowVersion = 2
    Actor = {a1, a2}
    RequiredApprovals = 1
SYMMETRY Symmetry
INVARIANTS
    ExactlyOneActive
    PublishedSnapshotsApproved
    TypeOK
    SnapshotPortsUnique
PROPERTIES
    HistoryKept
