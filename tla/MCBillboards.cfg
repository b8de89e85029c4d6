SPECIFICATION WindowSpec
CONSTANTS
    Texts = {seed}
    Scheds = {s1}
    Rejected = {}
    Ids = {1, 2, 3}
    TypedIds = {2}
    CellIds = {}
    OtherCells = {}
    Null = Null
    NaN = NaN
    Capacity = 2
    ViewAutoInc = TRUE
    InitBillboard = {1, 2, 3}
    InitView = {1, 2, 3}
    FirstKey = 4
    SeedText = seed
    MaxRequests = 2
    MaxSessions = 1
INVARIANTS GuiTypeOK ShownRowsExist HighlightIsTarget WindowInv
PROPERTIES UpdateHitsLoadedRow DeletesOnlyPicked ImplementsSession
CHECK_DEADLOCK FALSE
