CONSTANTS
    Requests = {r1, r2, r3}
    Instances = {i1, i2}
    d1 = d1
    Staying = {i2}
    Elsewhere = {r3}
    Dims <- MCDims
    DimOf <- MCDimOf
    Usages = {}
    NoRow = NoRow
    NoOwner = NoOwner
    Unavailable = Unavailable
    Nobody = Nobody
    QueueSize = 1
    BatchSize = 2
    BusyRetries = 1
    Legacy = {}
    MaxFaults = 0
    MaxCrashes = 0
SPECIFICATION ScheduledSpec
CONSTRAINTS
    StayUp
    StayingFirst
    NoneAges
    Streams
CHECK_DEADLOCK FALSE
PROPERTIES
    DetachedIsSettled
    ShutdownCompletes
