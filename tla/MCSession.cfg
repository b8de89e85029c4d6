SPECIFICATION Spec
CONSTANTS
    Texts = {seed, t1, bad}
    Scheds = {s1}
    Rejected = {bad}
    Ids = {1}
    Null = Null
    NaN = NaN
    Capacity = 3
    ViewAutoInc = TRUE
    InitBillboard = {1}
    InitView = {1}
    FirstKey = 2
    SeedText = seed
    MaxRequests = 2
    MaxSessions = 2
INVARIANTS TypeOK MisreadOnlyAfterAbort ReadUTFFindsString RunsRequestAsSent
           EditFindsRow KeysInStep SameKeySameText NullOnlyBeforeTable IndInv
PROPERTIES SpinsUntilKilled CarriesOutRequests
CHECK_DEADLOCK FALSE
