CONSTANTS
    r1 = r1
    r2 = r2
    Requests = {r1, r2}
    Instances = {i1}
    Created <- MCCreated
    Dims <- MCDims
    DimOf <- MCDimOf
    Usages = {}
    NoRow = NoRow
    NoOwner = NoOwner
    Unavailable = Unavailable
    HourLen = 2
    Window = 1
    BatchSize = 1
    MaxBatches = 2
    MaxClock = 4
    MaxFaults = 1
SPECIFICATION FairSpec
INVARIANTS
    WindowExact
    RecentKept
PROPERTY ExpiredPruned
