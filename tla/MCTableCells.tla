---------------------------- MODULE MCTableCells ----------------------------
(* TableCells for TLC. *)
EXTENDS TableCells

CONSTANTS
    Escaped,        \* a typed text with a backslash
    Unescaped       \* what the database makes of it

(* The urls in the tables at the start have backslashes too. *)
MCLiteral(text) ==
    IF text = Escaped THEN Unescaped
    ELSE IF text \in {<<k, "url">> : k \in 1 .. MaxRows} THEN <<text[1], "url, unescaped">>
    ELSE text

(* The information of the second row has a quote. *)
MCQuoted == {<<2, "info">>}
=============================================================================
