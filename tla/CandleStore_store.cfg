SPECIFICATION Spec
CONSTANTS
    Horizon = 2
    HotMinutes = 1
    WsValues = {"final", "deviating"}
    MaxRevision = 2
    MaxDeletes = 1
INVARIANTS
    TypeOK
    TablesAgree
    DetectionIsExact
PROPERTY
    PrecedenceHolds
