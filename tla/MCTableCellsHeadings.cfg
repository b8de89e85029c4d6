SPECIFICATION Spec
CONSTANTS
    MaxRows = 1
    Bare = {}
    Typed = {Escaped}
    TypedIds = {1}
    Escaped = Escaped
    Unescaped = Unescaped
    Quoted <- MCQuoted
    Literal <- MCLiteral
    Null = Null
    Empty = Empty
    MaxInputs = 1
    MaxSessions = 1
INVARIANT HeadingNamesField
CHECK_DEADLOCK FALSE
