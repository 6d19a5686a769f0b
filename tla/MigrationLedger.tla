--------------------------- MODULE MigrationLedger ---------------------------
(***************************************************************************)
(* What the migration runner promises, whatever its requests, queries and  *)
(* failures.  A file that leaves the transaction to the runner is recorded *)
(* and in effect in one step, or neither; it is applied once; and running  *)
(* it again, which leaves it recorded, puts it into effect anew - over     *)
(* itself if it has no down SQL.  A file with its own COMMIT takes effect  *)
(* in one step, which for a re-run takes its record away, and is recorded  *)
(* in another: never before it is in effect.                               *)
(***************************************************************************)
EXTENDS Naturals

CONSTANTS Files, HasDown, OwnCommit

VARIABLES
    recorded,  \* the files that count as applied
    times      \* how often a file is in effect: not, once, over itself

Init == recorded = {} /\ times = [f \in Files |-> 0]

Apply(f) ==
    /\ f \notin recorded \cup OwnCommit
    /\ recorded' = recorded \cup {f}
    /\ times' = [times EXCEPT ![f] = 1]

Rerun(f) ==
    /\ f \in recorded \ OwnCommit
    /\ times' = [times EXCEPT ![f] = IF f \in HasDown THEN 1 ELSE 2]
    /\ UNCHANGED recorded

TakeEffect(f) ==
    /\ f \in OwnCommit
    /\ recorded' \in {recorded, recorded \ {f}}
    /\ \E n \in {1, 2} : /\ n = 2 => times[f] # 0
                        /\ times' = [times EXCEPT ![f] = n]

Record(f) ==
    /\ f \in OwnCommit \ recorded
    /\ times[f] # 0
    /\ recorded' = recorded \cup {f}
    /\ UNCHANGED times

Next == \E f \in Files : Apply(f) \/ Rerun(f) \/ TakeEffect(f) \/ Record(f)

Spec == Init /\ [][Next]_<<recorded, times>>
=============================================================================
