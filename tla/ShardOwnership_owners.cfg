SPECIFICATION FairSpec
CONSTANTS
    Worker = {w1, w2}
    NoWorker = NoWorker
    MaxGen = 2
    MaxLosses = 1
    RedisFaults = TRUE
INVARIANTS
    TypeOK
    OnlyFenceHolderWrites
    RunningIsAccounted
PROPERTIES
    DeadLeaseIsFreed
    ImplementsFencedStore
