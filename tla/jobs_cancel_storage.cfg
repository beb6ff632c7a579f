CONSTANTS
    w1 = w1
    w2 = w2
    general = general
    selection = selection
    t1 = t1
    t2 = t2
    t3 = t3
    g1 = g1
    Slot = {general}
    NoSlot = NoSlot
    Token = {t1}
    NoToken = NoToken
    Lease = 2
    MaxAge = 0
    Units = 1
    Job <- One
    Worker = {w1}
    Serves <- OneLane
    SlotOf <- AllGeneral
    Game = {g1}
    GameOf <- OneGame
    Gate <- One
    Bulk <- None
    GC <- None
    StorageBound <- One
    Fresh <- One
    LateAck <- None
    Reviewed <- None
    Selection <- None
    Unstarted <- None
    ChildOf <- NoChild
    ScanLimit = 2
    MaxFaults = 0
    MaxLate = 0
    Timely = TRUE
SPECIFICATION FairSpec
PROPERTIES
    CancelSettles
