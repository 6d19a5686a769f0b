------------------------ MODULE MCConnectionManager ------------------------
(* Instances of ConnectionManager for TLC: the .cfg files name the calls,  *)
(* databases and pools.                                                    *)
EXTENDS ConnectionManager
=============================================================================
