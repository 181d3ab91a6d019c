\* Two servers after each other, a guest with two addresses, two publications.
CONSTANTS
    Server = {v1, v2}
    Guest = {g1}
    Ip = {i1, i2}
    MaxPeers = 1
    MaxPubs = 2
    None = None
SPECIFICATION FairSpec
CHECK_DEADLOCK FALSE
INVARIANTS NoHiddenServer AnswersCurrent ClosedForGood PeersBounded
PROPERTIES ServersSettle
