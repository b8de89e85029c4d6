SPECIFICATION WindowSpec
CONSTANTS
    Texts = {seed}
    Scheds = {s1}
    Rejected = {}
    Ids = {1, 2}
    TypedIds = {2}
    CellIds = {2, NaN}
    OtherCells = {}
    Null = Null
    NaN = NaN
    Capacity = 1
    ViewAutoInc = TRUE
    InitBillboard = {1, 2}
    InitView = {1, 2}
    FirstKey = 3
    SeedText = seed
    MaxRequests = 1
    MaxSessions = 2

PROPERTIES UpdateHitsLoadedRow DeletesOnlyPicked
CHECK_DEADLOCK FALSE
