SPECIFICATION AdminSpec
CONSTANTS
    s1 = s1
    v1 = v1
    Service = {s1}
    ServiceVersion = {v1}
    Upstream = {}
    Permission = {r1}
    ServiceOf <- MCServiceOf
    VersionOf <- MCVersionOf
    Flag = {}
    Port = {4100}
    Listener = {l1}
    Policy = {q1}
    ConfigurationID = {1}
    NoListener = NoListener
    NoConfiguration = NoConfiguration
    MaxRowVersion = 2
    Session = {a1, a2}
INVARIANT
    RequiredPermissionExists
