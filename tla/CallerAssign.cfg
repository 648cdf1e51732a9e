CONSTANTS
    k1 = k1
    h1 = h1
    q1 = q1
    q2 = q2
    q3 = q3
    a = a
    b = b
    Sockets = {k1}
    Hooks = {h1}
    Requests <- ThreeRequests
    Line <- SocketAndHook
    Reference <- SameAndOther
    Wrapped = {b}
    Hooked = {a}
    Story <- OneReport
SPECIFICATION FairSpec
INVARIANTS DuplicatesOverlap EventsFollowResponse AnsweredIsDispatched
PROPERTY EveryRequestAnswered
CHECK_DEADLOCK FALSE
