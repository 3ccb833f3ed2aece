SPECIFICATION Spec
CONSTANTS
    NoWorker = NoWorker
    GapWorker = {g1, g2}
    MergeWorker = {h1}
    Horizon = 2
    HistoricalTo = 1
    DayLength = 1
    PageSize = 1
    MaxOverlaps = 2
    MaxRetries = 0
    MaxFaults = 1
SYMMETRY WorkerSymmetry
INVARIANTS
    TypeOK
    ActiveWindowsDisjoint
    CompletedIsCovered
    SchedulerLoopIsExact
PROPERTIES
    ImplementsRepairService
