CONSTANTS
    i1 = i1
    i2 = i2
    g1 = g1
    g2 = g2
    None = None
    Request = {r1}
    Import <- Imports
    GameOf <- Games
    Management = {}
    Standalone = {s}
    Share = {}
    Remote = {l}
    MaxOnline = 1
    Lease = 1
    MaxClock = 2
    MaxRows = 2
    MaxStarts = 2
SPECIFICATION Spec
PROPERTIES
    RetainedForAnyCapability
