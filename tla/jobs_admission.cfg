CONSTANTS
    w1 = w1
    w2 = w2
    general = general
    selection = selection
    t1 = t1
    t2 = t2
    t3 = t3
    g1 = g1
    Slot = {general}
    NoSlot = NoSlot
    Token = {t1, t2}
    NoToken = NoToken
    Lease = 1
    MaxAge = 0
    Units = 0
    Job <- Trio
    Worker = {w1, w2}
    Serves <- OneLane
    SlotOf <- AllGeneral
    Game = {g1}
    GameOf <- OneGame
    Gate <- Trio
    Bulk <- TwoThree
    GC <- None
    StorageBound <- None
    Fresh <- One
    LateAck <- None
    Reviewed <- Two
    Selection <- None
    Unstarted <- None
    ChildOf <- NoChild
    ScanLimit = 2
    MaxFaults = 0
    MaxLate = 0
    Timely = FALSE
SYMMETRY Tokens
SPECIFICATION Spec
INVARIANTS
    AdmissionExclusive
