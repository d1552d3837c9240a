SPECIFICATION MCSpec
CONSTANTS
    None = None
    Graphs <- Family
    Diffs <- Diff
    ProcessLimit = 1
    StepLimit = 3
    ClusterLimit = 1
    EdgeLimit = 1
    ChangesLimit = 1
    ItemLimit = 1
    TraceDepth = 2
    Discover <- Settings
    Rounds = 10
    RiskSteps <- Steps
    MaxUpdates = 1
INVARIANTS
    PagesAreWhole
    AnalysesFitTheGraph
    ImpactIsMutual
    TraceIsShortest
CHECK_DEADLOCK FALSE
