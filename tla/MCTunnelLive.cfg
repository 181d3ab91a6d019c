\* Progress of calls, of Start, of redials and of the end while connections fail.
CONSTANTS
    Id = {t1}
    Config <- AutoTunnel
    Entry = {e1, e2}
    Conn = {k1, k2}
    Sock = {s1}
    Caller = {c1}
    Prober = {}
    MaxSockets = 1
    MaxMisses = 1
    MaxBackoff = 1
    None = None
SPECIFICATION FairSpec
CHECK_DEADLOCK FALSE
PROPERTIES CallsReturn ReconnectEnds ClosedDrains
