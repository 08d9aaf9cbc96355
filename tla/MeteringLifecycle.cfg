CONSTANTS
    Requests = {r1}
    Instances = {i1, i2}
    d1 = d1
    Staying = {}
    Elsewhere = {}
    Dims <- MCDims
    DimOf <- MCDimOf
    Usages = {}
    NoRow = NoRow
    NoOwner = NoOwner
    Unavailable = Unavailable
    Nobody = Nobody
    QueueSize = 1
    BatchSize = 1
    BusyRetries = 1
    Legacy = {}
    MaxFaults = 1
    MaxCrashes = 1
SPECIFICATION FairSpec
CHECK_DEADLOCK FALSE
INVARIANTS
    NeverServedUnmetered
    CleanExitLeavesNothing
    InFlightExplained
    RunningKeepsLockFile
PROPERTIES
    ImplementsLedger
    StrandedIsResolved
