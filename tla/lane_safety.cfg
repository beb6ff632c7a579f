CONSTANTS
    i1 = i1
    i2 = i2
    Instance = {i1, i2}
    NoInstance = NoInstance
    Interval = 2
    DegradedAfter = 4
    StoppedAfter = 6
    MaxDelay = 1
    MaxFaults = 1
SPECIFICATION FairSpec
INVARIANTS
    StoppedByItsOwn
    HealthyIsRunning
    Inductive
PROPERTIES
    StoppedKeepsItsHeartbeat
    DeadIsReported
