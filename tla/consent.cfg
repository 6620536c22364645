SPECIFICATION Spec
CONSTANTS
    a1 = a1
    a2 = a2
    a3 = a3
    d1 = d1
    Flow = {a1, a2, a3, d1}
    Purpose <- MCPurpose
    Party <- OneParty
    MaxFaults = 2
INVARIANTS
    NoResurrection
    StaysConnected
SYMMETRY Authorizations
CHECK_DEADLOCK FALSE
