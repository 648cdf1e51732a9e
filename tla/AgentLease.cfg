CONSTANTS
    c1 = c1
    c2 = c2
    Conns <- TwoConns
    NoConn = NoConn
    StaleAfter = 1
    MaxInbox = 1
SPECIFICATION FairSpec
INVARIANTS TokensFence
PROPERTIES NoResurrection OnlyOwnerRenews ImplementsFencedLease
PROPERTIES FencedStopsDraining ClosedStopsDraining AbandonedIsHealed
CHECK_DEADLOCK FALSE
