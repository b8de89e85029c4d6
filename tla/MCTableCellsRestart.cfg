SPECIFICATION Spec
CONSTANTS
    MaxRows = 2
    Bare = {1}
    Typed = {Escaped}
    TypedIds = {2}
    Escaped = Escaped
    Unescaped = Unescaped
    Quoted <- MCQuoted
    Literal <- MCLiteral
    Null = Null
    Empty = Empty
    MaxInputs = 2
    MaxSessions = 2
INVARIANTS WindowShowsBillboard
PROPERTY UntouchedColumnsStay
CHECK_DEADLOCK FALSE
