SPECIFICATION MCSpec
CONSTANTS
    MaxTexts = 3
    MaxIngests <- MCMaxIngests
    MaxRuns = 2
    MaxCrashes = 1
    MaxSearches = 1
    MaxSteals = 1
    Focus = {"segments", "vectors"}
    p1 = p1
    p2 = p2
    r1 = r1
    e1 = e1
    e2 = e2
    s1 = s1
    s2 = s2
    None = None
    Dead = Dead
    LexicalOnly = {2}
    Indexers = {p1, p2}
    Searchers = {r1}
    Embedders = {e1, e2}
    Sessions = {s1, s2}
    SegmentTarget = 2
    BatchTurns = 2
    FlushChunks = 2
    ParentOf <- MCParentOf
SYMMETRY Symmetric
INVARIANTS
    TypeOK
    HighWaterIsCovered
    SearchFindsTurns
    EmbeddedHasVector
    VectorsKeepTheirTurn
CHECK_DEADLOCK FALSE
