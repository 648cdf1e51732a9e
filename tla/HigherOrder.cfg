CONSTANTS
    x = x
    y = y
    z = z
    d1 = d1
    p = p
    q = q
    u1 = u1
    u2 = u2
    None = None
    Impls = {x, y}
    AgentOf <- MCAgentOf
    Deps = {d1}
    ArgKeys = {p, q}
    Configs <- MCConfigs
    Linkers = {u1, u2}
    MaxLinks = 2
    MaxRegs = 2
    MaxTasks = 1
SYMMETRY ImplSymmetry
SPECIFICATION Spec
INVARIANTS WrappersEnd ChildIsComplete NoLostUpdate
CHECK_DEADLOCK FALSE
