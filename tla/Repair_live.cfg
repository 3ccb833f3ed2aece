SPECIFICATION FairSpec
CONSTANTS
    NoWorker = NoWorker
    GapWorker = {g1}
    MergeWorker = {h1}
    Horizon = 1
    HistoricalTo = 1
    DayLength = 1
    PageSize = 1
    MaxOverlaps = 1
    MaxRetries = 1
    MaxFaults = 2
PROPERTIES
    StagedIsMerged
    JobsSettle
