\* Three aliases with ProxyJump lists over at most two hops.
CONSTANTS
    a1 = a1
    a2 = a2
    a3 = a3
    KeyId = {k1}
    HostId = {a1, a2, a3}
    Name = {a1, a2, a3}
    TunnelId = {}
    ServiceId = {}
    Port = {p1}
    MaxHops = 3
    None = None
    Files <- SomeFiles
    IdentityFile <- OneKey
SPECIFICATION Spec
INVARIANTS ImportIsComplete GroupsWhole RoutesFollowConfig
