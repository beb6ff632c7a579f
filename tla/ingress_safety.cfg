CONSTANTS
    i1 = i1
    i2 = i2
    g1 = g1
    g2 = g2
    None = None
    Request = {r1, r2}
    Import <- Imports
    GameOf <- Games
    Management = {m}
    Standalone = {s}
    Share = {}
    Remote = {}
    MaxOnline = 1
    Lease = 2
    MaxClock = 2
    MaxRows = 2
    MaxStarts = 1
SYMMETRY Alike
SPECIFICATION Spec
INVARIANTS
    TypeOK
    CapacityRespected
    NoOrphanSession
PROPERTIES
    StopOnlyWhenUnused
    ImplementsSeats
