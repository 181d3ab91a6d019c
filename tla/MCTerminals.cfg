\* Two terminals for one slot, routes of one and two hops.
CONSTANTS
    Call = {t1, t2}
    MaxHops = 2
    MaxTerminals = 1
SPECIFICATION FairSpec
CHECK_DEADLOCK FALSE
INVARIANTS SlotsHoldConnections ConnectAllOrNothing
PROPERTIES TerminalsEnd
