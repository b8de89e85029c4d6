SPECIFICATION WindowSpec
CONSTANTS
    Texts = {seed}
    Scheds = {s1}
    Rejected = {}
    Ids = {1, 2}
    TypedIds = {}
    CellIds = {}
    OtherCells = {2, NaN}
    Null = Null
    NaN = NaN
    Capacity = 1
    ViewAutoInc = TRUE
    InitBillboard = {1, 2}
    InitView = {1, 2}
    FirstKey = 3
    SeedText = seed
    MaxRequests = 2
    MaxSessions = 1
INVARIANTS ShownRowsExist HighlightIsTarget
PROPERTY DeletesOnlyPicked
CHECK_DEADLOCK FALSE
