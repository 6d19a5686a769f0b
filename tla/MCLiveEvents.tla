---------------------------- MODULE MCLiveEvents ----------------------------
(***************************************************************************)
(* Instance of LiveEvents for TLC: a table that changes twice, another one *)
(* to go to and come back from, and two streams: the page reconnects once. *)
(***************************************************************************)
EXTENDS LiveEvents

CONSTANTS t1, t2, s1, s2

MCTables == {t1, t2}
MCStreams == {s1, s2}
MCMaxChanges == [t \in MCTables |-> IF t = t1 THEN 2 ELSE 0]
=============================================================================
