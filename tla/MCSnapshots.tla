---------------------------- MODULE MCSnapshots ----------------------------
(* Instances of Snapshots for TLC: three creations, all alike, and one     *)
(* restore; the clock can give each creation a second of its own.          *)
EXTENDS Snapshots, TLC

Alike == Permutations(Creations)
=============================================================================
