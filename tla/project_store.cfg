CONSTANTS
    p0 = p0
    p1 = p1
    p2 = p2
    o1 = o1
    o2 = o2
    Proc = {p0, p1, p2}
    Gone = {p0}
    NoFile = NoFile
    Unwritten = Unwritten
    Images = 2
    UpperBound = 3
    Width = 2
    FirstLayout = 1
    FirstDirection = "ascending"
    Command <- Few
    OpId = {o1, o2}
    MaxRevision = 2
    MaxDamage = 1
SYMMETRY Alike
SPECIFICATION Spec
CHECK_DEADLOCK FALSE
INVARIANTS
    TypeOK
    LockExclusive
    AlwaysRecoverable
    Finalised
    LeaseAccounted
PROPERTIES
    UnknownKept
    ImplementsLog
