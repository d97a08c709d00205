------------------------------ MODULE MCScreen ------------------------------
EXTENDS Screen

CONSTANTS a, b

MCQueries == {{a}}
MCPrompts == [n \in Names |-> IF n = a THEN {"passphrase"} ELSE {"host", "password"}]
=============================================================================
