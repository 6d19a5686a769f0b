--------------------------- MODULE MCToolRouting ---------------------------
(* Instances of ToolRouting for TLC.                                       *)
EXTENDS ToolRouting

\* What became of a pool nothing refers to is read by no step and no property of
\* this module, so states that differ only there are the same (no liveness is checked
\* with this view).
LivePools ==
    <<entryVars, callVars, serving, routingVars,
      [p \in Pools |-> IF p \in FreePools THEN "ended" ELSE poolPhase[p]]>>
=============================================================================
