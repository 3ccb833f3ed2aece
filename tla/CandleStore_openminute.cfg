SPECIFICATION Spec
CONSTANTS
    Horizon = 2
    HotMinutes = 2
    WsValues = {"final"}
    MaxRevision = 2
    MaxDeletes = 0
INVARIANT
    CoveredIsFinal
