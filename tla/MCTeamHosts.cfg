\* Hosts that are added, renamed, removed and routed through each other.
CONSTANTS
    k1 = k1
    h1 = h1
    t1 = t1
    v1 = v1
    KeyId = {k1}
    HostId = {h1, h2}
    TunnelId = {}
    ServiceId = {}
    Name = {n1, n2}
    Port = {}
    MaxHops = 2
    None = None
    InitMaster <- OneHost
    InitMember <- NoSettings
    Editors = {"master", "member"}
    Home = u1
    Url = {u1}
    Poller = {p1, p2}
    Ticker = p1
    MayStall = FALSE
    MaxRevision = 2
    MaxRestarts = 1
SPECIFICATION Spec
CHECK_DEADLOCK FALSE
INVARIANTS TypeOK ConflictsHaveCause
PROPERTIES OwnKept PausedIsFrozen NoRollback
