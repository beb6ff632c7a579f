CONSTANTS
    c1 = c1
    c2 = c2
    a1 = a1
    a2 = a2
    a3 = a3
    b1 = b1
    None = None
    Client = {c1, c2}
    OpsOf <- ThreeAndOne
    PageSize = 2
    MaxEvents = 4
SYMMETRY SameToEachOther
SPECIFICATION Spec
INVARIANTS
    EveryDecisionKept
