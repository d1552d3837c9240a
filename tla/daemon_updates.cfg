SPECIFICATION MCFairSpec
CONSTANTS
    MaxEdits = 4
    MaxConns = 1
    MaxOpens = 2
    p1 = p1
    p2 = p2
    t1 = t1
    Absent = Absent
    Binary = Binary
    Directory = Directory
    Paths = {p1, p2}
    Text = {t1}
    Below <- InP1
    Ignored = {p2}
INVARIANTS
    TypeOK
    NoLostUpdate
    CaughtUpMeansFresh
    PendingHasFlush
PROPERTIES
    EventuallyFresh
CHECK_DEADLOCK FALSE
