CONSTANTS
    s1 = s1
    s2 = s2
    x = x
    q1 = q1
    NoState = NoState
    Sessions <- TwoSessions
    States <- OneState
    Readers <- OneReader
    MaxRev = 2
    MaxSnapshots = 1
SYMMETRY SessionSymmetry
SPECIFICATION Spec
INVARIANTS ReplayIsOfOneMoment WatchMissesOneStretch
CHECK_DEADLOCK FALSE
