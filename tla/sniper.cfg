SPECIFICATION MCSpec
CONSTANTS
    MaxReports <- MCMaxReports
    MaxTests = 3
    MaxWraps <- MCMaxWraps
    MaxHeals <- MCMaxHeals
    MaxWaits = 1
    MaxFlushes = 1
    Focus = {"since", "tests", "runs", "crowd"}
    None = None
    SurfaceOf <- MCSurfaceOf
    ErrorAge = 12
    EventAge = 8
    MaxErrors = 2
    MaxEvents = 4
    SinceLimit = 2
    HmrFetch = 2
    HmrShow = 1
INVARIANTS
    TypeOK
    SinceMissesNothing
    ReportsArrive
    OutcomeIsRecorded
    AnswersAreTrue
CHECK_DEADLOCK FALSE
