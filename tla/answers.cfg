SPECIFICATION Spec
CONSTANTS
    None = None
    MinGram = 3
    Weight <- PairWeight
    MaxExact = 3
    MaxClass = 1
    CandidateFetchMax = 4
    MaxWordCandidates = 20
    MaxWords = 2
    MaxUncostedWords = 1
    ChannelDepth = 3
    RrfK = 60
    RrfScale = 495593280
    ContentProbeLimit = 5
    ContentCountCap = 2
    MaxSeedFiles = 2
    MaxSeedSymbols = 3
    MaxSymbolsPerFile = 2
    P0Cap = 2
    ExactBonus = 49559328
    MarkerSize = 10
    EdgeLimit = 2
    MaxItems = 3
    MaxSourceBytes = 40
    MaxTargetBytes = 20
    MaxNeighborBytes = 8
    FieldSize <- Fields
    Projects <- AllProjects
    Memories <- AllMemories
    Patterns <- RegularExpressions
    Scopes <- AllScopes
    Limits <- AllLimits
    RowLimit = 10
    ByteCap = 12
    RowSize <- Size
    Queries <- Tasks
    Questions <- WordSets
    Budgets <- AllBudgets
INVARIANTS
    SearchFindsEveryMatch
    RankingIsUnanimous
    ContextFitsItsBudget
CHECK_DEADLOCK FALSE
