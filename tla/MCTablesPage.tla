---------------------------- MODULE MCTablesPage ----------------------------
(***************************************************************************)
(* Instance of TablesPage for TLC: a table of two pages, whose second one *)
(* may be deleted, and an empty one, to which another program may add a    *)
(* row with the key of a row of the first one.                             *)
(***************************************************************************)
EXTENDS TablesPage

CONSTANTS t1, t2

MCTables == {t1, t2}
MCInitially == [t \in MCTables |-> IF t = t1 THEN 3 ELSE 0]
MCMaxRows == [t \in MCTables |-> IF t = t1 THEN 3 ELSE 1]
=============================================================================
