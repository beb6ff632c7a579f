CONSTANTS
    w1 = w1
    w2 = w2
    general = general
    selection = selection
    t1 = t1
    t2 = t2
    t3 = t3
    g1 = g1
    Slot = {general}
    NoSlot = NoSlot
    Token = {t1}
    NoToken = NoToken
    Lease = 2
    MaxAge = 0
    Units = 1
    Job <- Pair
    Worker = {w1}
    Serves <- OneLane
    SlotOf <- AllGeneral
    Game = {g1}
    GameOf <- OneGame
    Gate <- None
    Bulk <- None
    GC <- None
    StorageBound <- None
    Fresh <- None
    LateAck <- None
    Reviewed <- None
    Selection <- None
    Unstarted <- None
    ChildOf <- ChildTwo
    ScanLimit = 2
    MaxFaults = 1
    MaxLate = 0
    Timely = TRUE
SPECIFICATION FairSpec
PROPERTIES
    ChildSettles
    ParentWakes
