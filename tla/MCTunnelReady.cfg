\* Ready against an accept loop that has ended.
CONSTANTS
    Id = {t1}
    Config <- AutoTunnel
    Entry = {e1}
    Conn = {k1}
    Sock = {s1}
    Caller = {}
    Prober = {r1}
    MaxSockets = 1
    MaxMisses = 1
    MaxBackoff = 1
    None = None
SPECIFICATION Spec
CHECK_DEADLOCK FALSE
INVARIANTS ReadyMeansServing
