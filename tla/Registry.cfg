CONSTANTS
    a1 = a1
    a2 = a2
    i1 = i1
    i2 = i2
    k1 = k1
    k2 = k2
    h1 = h1
    h2 = h2
    hx = hx
    Agents = {a1, a2}
    Interfaces = {i1, i2}
    Keys = {k1, k2}
    Definitions <- MCDefinitions
    Malformed = {hx}
    Before <- MCBefore
    Declarations <- MCDeclarations
    MaxRegs = 1
    MaxUsers = 1
    Null = Null
    Same = Same
SYMMETRY AgentSymmetry
SPECIFICATION Spec
INVARIANTS RegisteredIsDeclared PortsMatchDefinition
PROPERTY LoneRegistrationLands
CHECK_DEADLOCK FALSE
