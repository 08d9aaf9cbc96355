CONSTANTS
    Ids = {1, 2}
    Workers = {w1, w2}
    Unreachable = {1}
    Batch = 1
    Ttl = 1
    Base = 2
    MaxDelay = 4
    MaxExp = 1
    Interval = 1
    MaxTick = 2
    MaxFaults = 1
    NoStatement = NoStatement
SPECIFICATION FairSpec
INVARIANTS
    OneSender
    DuplicatesExplained
PROPERTIES
    RecordedIsLast
    EveryoneMailed
