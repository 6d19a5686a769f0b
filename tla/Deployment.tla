----------------------------- MODULE Deployment -----------------------------
(***************************************************************************)
(* The MCP server and the web API of one project, configured by the same   *)
(* files.                                                                  *)
(***************************************************************************)
EXTENDS McpServer, ApiServer

vars == <<settings, mcpVars, apiVars>>

Init == SettingsInit /\ McpInit /\ ApiInit

Next ==
    \/ Edit /\ UNCHANGED mcpVars /\ UNCHANGED apiVars
    \/ McpNext /\ UNCHANGED settings /\ UNCHANGED apiVars
    \/ ApiNext /\ UNCHANGED settings /\ UNCHANGED mcpVars

\* Polls are sent on a timer, and do not fail for ever.
Fairness ==
    /\ WF_vars(Poll /\ UNCHANGED settings /\ UNCHANGED mcpVars)
    /\ \A value \in BOOLEAN : SF_vars(Polled(value) /\ UNCHANGED settings /\ UNCHANGED mcpVars)

Spec == Init /\ [][Next]_vars /\ Fairness
=============================================================================
