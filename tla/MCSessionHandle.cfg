SPECIFICATION Spec
CONSTANTS
    Texts = {seed, bad}
    Scheds = {s1}
    Rejected = {bad}
    Ids = {1}
    Null = Null
    NaN = NaN
    Capacity = 2
    ViewAutoInc = FALSE
    InitBillboard = {1}
    InitView = {1}
    FirstKey = 2
    SeedText = seed
    MaxRequests = 2
    MaxSessions = 1

INVARIANT GetInstanceReturnsHandle
CHECK_DEADLOCK FALSE
