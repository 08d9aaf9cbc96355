CONSTANTS
    Requests = {r1, r2, r3}
    Instances = {i1, i2}
    d1 = d1
    Staying = {i1, i2}
    Elsewhere = {}
    Dims <- MCDims
    DimOf <- MCDimOf
    Usages = {3}
    NoRow = NoRow
    NoOwner = NoOwner
    Unavailable = Unavailable
    Nobody = Nobody
    QueueSize = 1
    BatchSize = 1
    BusyRetries = 1
    Legacy = {r3}
    MaxFaults = 0
    MaxCrashes = 0
SPECIFICATION Spec
SYMMETRY Sym
CONSTRAINTS
    StayUp
    OneMeasured
CHECK_DEADLOCK FALSE
INVARIANTS
    RollupMatchesRaw
    AcknowledgedIsDurable
