---------------------------- MODULE MCMigrations ----------------------------
(* Instances of Migrations for TLC.                                        *)
EXTENDS Migrations

CONSTANTS m1, m2, m2b    \* migration files, of versions 1, 2 and 2

VersionOf == [f \in Files |-> IF f = m1 THEN 1 ELSE 2]
=============================================================================
