--------------------------- MODULE MCToolRequests ---------------------------
(* Instances of ToolRequests for TLC: the .cfg files name the requests,    *)
(* the pool's clients and one more reader of the structure.                *)
EXTENDS ToolRequests

\* Of two requests one calls any handler; the other runs a script or a statement, of
\* which two can meet.
MCHandlers ==
    LET any == CHOOSE r \in Requests : TRUE
    IN [r \in Requests |-> IF r = any THEN Kind ELSE {"statement", "script"}]
=============================================================================
