CONSTANTS
    c1 = c1
    c2 = c2
    Partners = {c1}
    Workers = {w1}
    Requests = {}
    PartnerOf <- MCPartnerOf
    Created <- MCCreated
    Order <- MCOrder
    DayLen = 1
    Delay = 0
    MaxCatchup = 3
    MaxClock = 3
    MaxFaults = 1
    NoStatement = NoStatement
    NoDraft = NoDraft
    NoPartner = NoPartner
SPECIFICATION Spec
CHECK_DEADLOCK FALSE
INVARIANT FailedDayRetried
