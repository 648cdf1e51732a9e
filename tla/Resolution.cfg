CONSTANTS
    None = None
    g1 = g1
    g2 = g2
    r = r
    a1 = a1
    b1 = b1
    d1 = d1
    c1 = c1
    a2 = a2
    b2 = b2
    c2 = c2
    Agents = {g1, g2}
    Impls = {r, a1, b1, d1, c1, a2, b2, c2}
    AgentOf <- MCAgentOf
    ActionOf <- MCActionOf
    Catalogue <- MCCatalogue
    StatesOf <- MCStatesOf
    DepsOf <- MCDepsOf
    Declarations <- MCDeclarations
    StateDeclarations <- MCStateDeclarations
    Root = r
    Scenarios <- MCScenarios
    MaxRes = 1
    MaxEdits = 1
    MaxRegs = 1
    MaxDrops = 1
    MaxCalls = 1
SPECIFICATION Spec
INVARIANTS ResolutionMeetsDemands CallsMeetTheirSlot EntersOnce
CHECK_DEADLOCK FALSE
