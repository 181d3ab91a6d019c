\* Two tunnels, one of them shared, edited, synced, started and opened.
CONSTANTS
    k1 = k1
    h1 = h1
    t1 = t1
    v1 = v1
    KeyId = {k1}
    HostId = {h1}
    TunnelId = {t1, t2}
    ServiceId = {v1}
    Name = {n1}
    Port = {p1, p2}
    MaxHops = 1
    None = None
    InitSaved <- OneLink
    Feeds <- AnyPort
    Backups <- OldBackup
    Managed <- OldItems
    Request = {r1, r2}
SPECIFICATION FairSpec
CHECK_DEADLOCK FALSE
INVARIANTS TypeOK ActiveIsSaved OpensRegisteredPort
PROPERTIES OnlySyncEditsActive OpsReleased
