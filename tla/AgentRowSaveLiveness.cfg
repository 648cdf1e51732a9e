CONSTANTS
    c1 = c1
    c2 = c2
    Conns <- TwoConns
    NoConn = NoConn
    StaleAfter = 1
    MaxInbox = 1
    MaxSaves = 1
SPECIFICATION FairSaveSpec
INVARIANTS ConnectedHasClaimant
PROPERTIES RolledBackIsHealed MismatchStopsDraining
CHECK_DEADLOCK FALSE
