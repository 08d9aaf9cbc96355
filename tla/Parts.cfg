CONSTANTS
    Streams <- MCStreams
    MaxPieces = 5
    MaxEventBytes = 8
    Models = {m1}
    Counts = {2, 5}
    Prices = {1, 3}
    Null = Null
    Unit = 4
    MaxMicros = 6
    MaxRows = 2
    own = own
    other = other
    ConsumerIds = {own, other}
    Manager = Manager
    Queries <- MCQueries
    RangeLen = 2
    RetentionLen = 2
    HourUnits = 2
    Limit = 1
    MaxTime = 3
    MaxRecords = 3
    NoRecord = NoRecord
    Files <- MCFiles
    Unreadable = Unreadable
    Bad = Bad
    Sizes = {1, 2}
    Passwords = {"p1", "p2"}
    MaxSaves = 3
    MaxRequests = 1
    Partners = {c1}
    Callers = {g1, g2}
    Lists = {l1}
    Days = {1, 2}
    MaxNow = 2
    MaxCalls = 3
    NoAccount = NoAccount
    NoBill = NoBill
    Nobody = Nobody
SYMMETRY Sym
SPECIFICATION Spec
CONSTRAINT WalkUnderWay
CHECK_DEADLOCK FALSE
INVARIANTS
    ChunkingIrrelevant
    BufferBounded
    EveryRowStated
    TotalFair
    WalkExact
    RequestInForce
    OperatorTold
    PaymentsStand
    SuspensionAgrees
