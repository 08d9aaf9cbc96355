CONSTANTS
    Processes = {p1, p2}
    Consumers = {c1, c2}
    LegacyIds = {1, 2}
    MaxId = 3
    MaxCrashes = 2
    NoKey = NoKey
SPECIFICATION FairSpec
CHECK_DEADLOCK FALSE
INVARIANTS
    StampedIsComplete
PROPERTIES
    NewestKeyKept
    EveryProcessStarts
