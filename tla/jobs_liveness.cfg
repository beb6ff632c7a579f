CONSTANTS
    w1 = w1
    w2 = w2
    general = general
    selection = selection
    t1 = t1
    t2 = t2
    t3 = t3
    g1 = g1
    Slot = {general}
    NoSlot = NoSlot
    Token = {t1}
    NoToken = NoToken
    Lease = 2
    MaxAge = 0
    Units = 0
    Job <- Trio
    Worker = {w1}
    Serves <- OneLane
    SlotOf <- AllGeneral
    Game = {g1}
    GameOf <- OneGame
    Gate <- One
    Bulk <- None
    GC <- Three
    StorageBound <- Two
    Fresh <- One
    LateAck <- None
    Reviewed <- None
    Selection <- None
    Unstarted <- One
    ChildOf <- NoChild
    ScanLimit = 1
    MaxFaults = 1
    MaxLate = 0
    Timely = TRUE
SPECIFICATION FairSpec
PROPERTIES
    OrphanRecovered
    CancelSettlesWithStorage
    GCGetsThrough
    UnstartedLeavesQueue
