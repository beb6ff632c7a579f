CONSTANTS
    w1 = w1
    w2 = w2
    general = general
    selection = selection
    t1 = t1
    t2 = t2
    t3 = t3
    g1 = g1
    Slot = {selection}
    NoSlot = NoSlot
    Token = {t1, t2, t3}
    NoToken = NoToken
    Lease = 3
    MaxAge = 1
    Units = 1
    Job <- One
    Worker = {w1, w2}
    Serves <- SelectionLane
    SlotOf <- AllSelection
    Game = {g1}
    GameOf <- OneGame
    Gate <- None
    Bulk <- None
    GC <- None
    StorageBound <- None
    Fresh <- None
    LateAck <- One
    Reviewed <- One
    Selection <- One
    Unstarted <- None
    ChildOf <- NoChild
    ScanLimit = 2
    MaxFaults = 1
    MaxLate = 1
    Timely = TRUE
SYMMETRY Tokens
SPECIFICATION Spec
INVARIANTS
    HandlersExclusive
    ClaimedRowIsCreated
    ResultsAreAccepted
PROPERTIES
    ImplementsContract
    RenewedByItsRun
    EndsOnlyAfterFault
