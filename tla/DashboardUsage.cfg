CONSTANTS
    Instances = {i1}
    Clients = {b1}
    Usage = {b1}
    Buffer = 1
    MaxCommits = 1
    MaxStops = 0
    MaxFaults = 0
    MaxLoads = 2
    NoInstance = NoInstance
SPECIFICATION UsageSpec
CHECK_DEADLOCK FALSE
PROPERTY RefreshEnds
