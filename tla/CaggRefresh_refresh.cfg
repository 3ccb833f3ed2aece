SPECIFICATION Spec
CONSTANTS
    NoWorker = NoWorker
    Refresher = {r1, r2}
    Days = 2
    DayLength = 1
    NumViews = 2
    MaxChanges = 1
    MaxRetries = 0
    MaxFaults = 1
SYMMETRY WorkerSymmetry
INVARIANTS
    TypeOK
    AskedIsRefreshed
PROPERTY
    CompletedIsMaterialized
