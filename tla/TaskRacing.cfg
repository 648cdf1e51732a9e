CONSTANTS
    w = w
    c = c
    r1 = r1
    r2 = r2
    r3 = r3
    NoTask = NoTask
    Tasks <- Pair
    Wrappers = {w}
    Parent <- PairParent
    Runs <- ThreeRuns
    Mortal <- ThreeRuns
    Policies = {"physical", "idempotent", "unmintable", "plain"}
    Reports = {"COMPLETED", "FAILED"}
    Confirms = {"PAUSED"}
    Notes = {"YIELD", "PROGRESS"}
    Controls = {"INTERRUPT"}
    Sweeps = TRUE
SPECIFICATION Spec
SYMMETRY RunSymmetry
INVARIANTS AckedIsDone DoneHasTerminalEvent SweepsClaimOnce ReportReachesWrapper
PROPERTY DoneIsFinal
CHECK_DEADLOCK FALSE
