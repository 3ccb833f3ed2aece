SPECIFICATION FairSpec
CONSTANTS
    Conn = {1, 2, 3}
    MaxFaults = 2
    Symbol = {a, b}
    Delisted = {b}
    Minutes = {1}
    QueueMax = 2
    BatchSize = 2
    MaxPending = 2
    MaxCandles = 3
INVARIANTS
    TypeOK
    QueueIsCounted
    OpenIsHeld
    NothingIsDropped
PROPERTIES
    AcceptedSettles
    StreamRecovers
CHECK_DEADLOCK FALSE
