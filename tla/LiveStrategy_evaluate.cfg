SPECIFICATION FairSpec
CONSTANTS
    Worker = {w1, w2}
    Token = {t1, t2}
    NoToken = NoToken
    MaxFaults = 1
    Asset = {1, 2}
    Feed <- UnevenFeed
    Entries = {"LONG"}
    AssetLimit = 1
    CandleLimit = 2
    MaxOpen = 1
    Reversal = FALSE
INVARIANTS
    TypeOK
    OneOutstanding
    ObservedInOrder
    PositionsAreCounted
PROPERTIES
    EvaluationCatchesUp
