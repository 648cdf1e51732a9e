CONSTANTS
    t1 = t1
    t2 = t2
    t3 = t3
    stranger = stranger
    s1 = s1
    Timers <- FourRequests
    NoTimer = NoTimer
    Owned <- OwnRequests
    Settlers <- OneSettler
    Asks <- Cancels
SPECIFICATION AutoFairSpec
INVARIANT RegisteredIsLive
PROPERTY CancelEscalates
CHECK_DEADLOCK FALSE
