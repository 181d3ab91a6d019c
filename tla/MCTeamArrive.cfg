\* Only the master edits, and it answers: a host is replaced by another of its name.
CONSTANTS
    k1 = k1
    h1 = h1
    t1 = t1
    v1 = v1
    KeyId = {k1}
    HostId = {h1, h2}
    TunnelId = {}
    ServiceId = {}
    Name = {n1}
    Port = {}
    MaxHops = 2
    None = None
    InitMaster <- OneHost
    InitMember <- NoSettings
    Editors = {"master"}
    Home = u1
    Url = {u1}
    Poller = {p1}
    Ticker = p1
    MayStall = FALSE
    MaxRevision = 2
    MaxRestarts = 1
SPECIFICATION AnsweredSpec
CHECK_DEADLOCK FALSE
PROPERTIES ChangesArrive
