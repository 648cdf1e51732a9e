CONSTANTS
    c1 = c1
    c2 = c2
    Conns <- TwoConns
    NoConn = NoConn
    StaleAfter = 1
    MaxInbox = 1
SPECIFICATION Spec
INVARIANT OwnerStaysConnected
CHECK_DEADLOCK FALSE
