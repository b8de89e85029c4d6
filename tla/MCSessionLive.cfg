SPECIFICATION FairSpec
CONSTANTS
    Texts = {seed, bad}
    Scheds = {s1}
    Rejected = {bad}
    Ids = {1}
    Null = Null
    NaN = NaN
    Capacity = 2
    ViewAutoInc = FALSE
    InitBillboard = {1}
    InitView = {1}
    FirstKey = 2
    SeedText = seed
    MaxRequests = 2
    MaxSessions = 1

PROPERTIES TableOrError HandlerFinishes ServerCatchesUp
CHECK_DEADLOCK FALSE
