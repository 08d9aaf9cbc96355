CONSTANTS
    c1 = c1
    c2 = c2
    Partners = {c1, c2}
    Workers = {w1, w2}
    Requests = {r1}
    PartnerOf <- MCPartnerOf
    Created <- MCCreated
    Order <- MCOrder
    DayLen = 1
    Delay = 1
    MaxCatchup = 1
    MaxClock = 3
    MaxFaults = 1
    NoStatement = NoStatement
    NoDraft = NoDraft
    NoPartner = NoPartner
SPECIFICATION FairSpec
CHECK_DEADLOCK FALSE
INVARIANTS
    ChargedOnce
    UsageAccounted
    NoSilentHole
PROPERTIES
    StatementsFinal
    EveryDayStated
