\* Two successive entries of one tunnel, two concurrent Stop or Close calls, more
\* clients than the limit and a Ready.
CONSTANTS
    Id = {t1}
    Config <- OneTunnel
    Entry = {e1, e2}
    Conn = {k1, k2}
    Sock = {s1, s2}
    Caller = {c1, c2}
    Prober = {r1}
    MaxSockets = 1
    MaxMisses = 2
    MaxBackoff = 3
    None = None
SPECIFICATION Spec
CONSTRAINT Bounded
SYMMETRY Symmetry
CHECK_DEADLOCK FALSE
INVARIANTS TypeOK StatusIsTrue NoConnLeak CallsRelease SocketsFollowConn ConnectionCount
PROPERTIES LifecycleSpec
