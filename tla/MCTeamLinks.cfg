\* Tunnels and web links whose ports change, with links of the member among them,
\* a ticker, pauses, changed addresses and failing fetches.
CONSTANTS
    k1 = k1
    h1 = h1
    t1 = t1
    v1 = v1
    KeyId = {k1}
    HostId = {h1}
    TunnelId = {t1}
    ServiceId = {v1, v2}
    Name = {n1}
    Port = {1, 2}
    MaxHops = 1
    None = None
    InitMaster <- OneLink
    InitMember <- NoSettings
    Editors = {"master", "member"}
    Home = u1
    Url = {u1, u2}
    Poller = {p1}
    Ticker = p1
    MayStall = TRUE
    MaxRevision = 1
    MaxRestarts = 1
SPECIFICATION FairSpec
CONSTRAINT Bounded
CHECK_DEADLOCK FALSE
INVARIANTS ConflictsHaveCause
PROPERTIES SyncOrError
