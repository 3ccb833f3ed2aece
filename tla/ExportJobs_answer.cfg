SPECIFICATION Spec
CONSTANTS
    MaxAttempts = 2
    MaxFaults = 1
INVARIANT
    PublishedExists
CHECK_DEADLOCK FALSE
