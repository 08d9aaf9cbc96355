CONSTANTS
    Instances = {i1, i2}
    Clients = {b1}
    Usage = {}
    Buffer = 1
    MaxCommits = 2
    MaxStops = 1
    MaxFaults = 1
    MaxLoads = 2
    NoInstance = NoInstance
SPECIFICATION EventsFairSpec
CHECK_DEADLOCK FALSE
PROPERTIES
    ChangeIsRead
    QuietWhenIdle
    StreamsLetGo
