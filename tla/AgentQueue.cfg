CONSTANTS
    m1 = m1
    m2 = m2
    m3 = m3
    c1 = c1
    c2 = c2
    c3 = c3
    Messages <- ThreeMessages
    Loops <- ThreeLoops
    Stable <- OneStable
SPECIFICATION QueueFairSpec
INVARIANTS AtMostOnce ArrivesInOrder HeldIsRecorded
PROPERTY NothingWaitsForever
CHECK_DEADLOCK FALSE
