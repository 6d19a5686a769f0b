---------------------------- MODULE MCDashboard ----------------------------
(***************************************************************************)
(* Instance of Dashboard for TLC: two migrations, two requests of a kind.  *)
(***************************************************************************)
EXTENDS Dashboard

CONSTANTS v1, v2, script, read, write

MCVersions == {v1, v2}
MCInitiallyApplied == {v1}
MCTools == {read, write}
MCWriteTools == {write}
=============================================================================
