SPECIFICATION FairSpec
CONSTANTS
    MaxAttempts = 3
    MaxFaults = 4
INVARIANTS
    TypeOK
    PublishedByLatest
PROPERTIES
    CompletedIsFinal
    PublishedIsKept
    ExportSettles
CHECK_DEADLOCK FALSE
