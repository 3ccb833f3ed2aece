SPECIFICATION FairSpec
CONSTANTS
    Producer = {p1, p2}
    Monitor = {m1}
    NoWorker = NoWorker
    Asset = {a1, a2}
    Horizon = 2
    MaxWindow = 2
    Divergences = {{1, 2}}
    MaxBindings = 2
    MaxEvents = 1
INVARIANTS
    TypeOK
    WindowsTile
    UnenrolledIsUnknown
    EvidenceIsCounted
PROPERTIES
    ComparisonsAreAssessed
CHECK_DEADLOCK FALSE
