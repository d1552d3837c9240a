SPECIFICATION MCSpec
CONSTANTS
    MaxEdits = 2
    MaxUpdates = 2
    MaxInterrupts = 1
    f1 = f1
    f2 = f2
    f3 = f3
    n1 = n1
    n2 = n2
    Absent = Absent
    None = None
    Names = {n1, n2}
    Walk <- Two
    Unlisted = {f3}
    Sources <- MCSources
INVARIANTS
    FreshIsCurrent
CHECK_DEADLOCK FALSE
