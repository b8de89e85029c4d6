SPECIFICATION Spec
CONSTANTS
    MaxRows = 2
    Bare = {1}
    Typed = {Escaped}
    TypedIds = {2}
    Escaped = Escaped
    Unescaped = Unescaped
    Quoted <- MCQuoted
    Literal <- MCLiteral
    Null = Null
    Empty = Empty
    MaxInputs = 3
    MaxSessions = 1
INVARIANTS RepliesWholeTable WindowShowsBillboard SameRowsGone CellsInv
PROPERTY UntouchedColumnsStay
CHECK_DEADLOCK FALSE
