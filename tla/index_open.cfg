SPECIFICATION MCSpec
CONSTANTS
    MaxUserSteps = 3
    p1 = p1
    p2 = p2
    t1 = t1
    t2 = t2
    l1 = l1
    Empty = Empty
    c1 = c1
    c2 = c2
    c3 = c3
    Absent = Absent
    Binary = Binary
    NoCommit = NoCommit
    None = None
    GitFails = {"rev-parse", "diff", "status"}
    Paths = {p1, p2}
    Text = {t1, t2}
    Links = {l1}
    Commits = {c1, c2, c3}
    Tree <- History
INVARIANTS
    TypeOK
    SearchComplete
    StateMatchesDelta
PROPERTIES
    ImplementsSearchView
CHECK_DEADLOCK FALSE
