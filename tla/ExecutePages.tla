---------------------------- MODULE ExecutePages ----------------------------
(***************************************************************************)
(* The SQL editor (routes/sql-editor.tsx) and the tool runner              *)
(* (features/tools/components/ToolRunner.tsx): both run tools through the  *)
(* hook useExecuteTool and ask first when the script or tool is a risk     *)
(* (lib/risk.ts, useRiskConfirm).  A run stands for its result.            *)
(***************************************************************************)
EXTENDS ConfirmDialog

CONSTANTS
    Tools,     \* the tools of the runner
    Script,    \* db_run_script, as the editor runs it
    WriteTools,
    Runs       \* bound: the requests, numbers from 1

ASSUME ExecutePagesAssumption ==
    /\ Tools # {} /\ Script \notin Tools /\ WriteTools \subseteq Tools
    /\ Runs \subseteq Nat \ {0}

\* A run of a tool; its dialog waits for it if it was asked for.
Execution == [tool : Tools \cup {Script}, asked : BOOLEAN, mine : BOOLEAN, done : BOOLEAN]

\* What the dialog asks for.
ToolAsked == [tool : Tools \cup {Script}, blocked : BOOLEAN]

ASSUME NoExecutionAssumption == None \notin Execution \cup ToolAsked

VARIABLES
    run,         \* an Execution, or None
    running,     \* the state of the hook
    result,      \* the run whose result the editor shows, or None
    latest,      \* the editor's last run, or None
    activeTool,
    outcomes,    \* the run whose outcome is kept for a tool, or None
    cleared,     \* history: the result was cleared while a script ran
    under        \* history: a script or tool was run under a dialog that asks

hook == <<run, running, result, latest>>
executing == <<hook, activeTool, outcomes, cleared, under>>

ExecuteInit ==
    /\ run = [r \in Runs |-> None]
    /\ running = FALSE /\ result = None /\ latest = None
    /\ activeTool = CHOOSE t \in Tools : TRUE
    /\ outcomes = [t \in Tools |-> None]
    /\ cleared = FALSE /\ under = FALSE

-----------------------------------------------------------------------------

\* Mutant of Started: the hook does not know that it runs.
StartedSilently == UNCHANGED running /\ result' = None

Started == running' = TRUE /\ result' = None

\* execute: the state is reset, and the request is sent.
Execute(tool, viaDialog) ==
    \E r \in Runs :
        /\ run[r] = None /\ \A s \in Runs : run[s] = None => r <= s
        /\ run' = [run EXCEPT ![r] =
                     [tool |-> tool, asked |-> viaDialog, mine |-> TRUE, done |-> FALSE]]
        /\ Started
        /\ latest' = IF tool = Script THEN r ELSE latest
        /\ UNCHANGED cleared

\* What is run when the user agrees.  That it is blocked is decided with the flag the page
\* knew when it asked.
AskToExecute(tool, blocked) ==
    /\ \E r \in Runs : run[r] = None
    /\ AskByKey([tool |-> tool, blocked |-> blocked])
    /\ UNCHANGED executing

\* What needs no question is run at once, whatever the dialog asks.
RunAtOnce(tool) ==
    /\ Execute(tool, FALSE)
    /\ under' = (under \/ asked # None)
    /\ UNCHANGED <<activeTool, outcomes, dialog>>

\* "Execute" in the editor, or Ctrl+Enter, which does not heed the read-only flag and works
\* under the dialog, too.  A script is a risk or not, and looks like a write or not; a write
\* is blocked with a message.
RunScript(readonly) ==
    /\ ~running
    /\ \E risk, write \in BOOLEAN :
         IF risk THEN AskToExecute(Script, readonly /\ write)
         ELSE /\ ~(readonly /\ write)
              /\ RunAtOnce(Script)

\* "Clear" under the result is not disabled while a script runs.
ClearResult ==
    /\ running' = FALSE /\ result' = None
    /\ cleared' = (cleared \/ running)
    /\ UNCHANGED <<run, latest, activeTool, outcomes, under, dialog>>

\* A tool that writes is asked for first, by Ctrl+Enter in the read-only mode, too: the API
\* refuses it then.
RunTool ==
    /\ ~running
    /\ IF activeTool \in WriteTools THEN AskToExecute(activeTool, FALSE)
       ELSE RunAtOnce(activeTool)

SelectTool(t) ==
    /\ t # activeTool
    /\ activeTool' = t
    /\ UNCHANGED <<hook, outcomes, cleared, under, dialog>>

ClearOutcomes ==
    /\ outcomes' = [t \in Tools |-> None]
    /\ UNCHANGED <<hook, activeTool, cleared, under, dialog>>

\* The grace is over.  A script that is blocked ends at once.
StartAsked ==
    IF asked # None /\ asked.blocked
      THEN GraceEndsDone /\ UNCHANGED executing
      ELSE /\ GraceEnds
           /\ IF asked = None THEN UNCHANGED executing
              ELSE Execute(asked.tool, TRUE) /\ UNCHANGED <<activeTool, outcomes, under>>

\* Mutant of Keep: kept for the tool that is active now.
KeepForActive(r) == outcomes' = [outcomes EXCEPT ![activeTool] = r]

\* The outcome is kept for the tool that was run.
Keep(r) == outcomes' = [outcomes EXCEPT ![run[r].tool] = r]

\* A run is answered, or fails: both end it in the same way.
RunEnds(r) ==
    /\ run[r] # None /\ ~run[r].done
    /\ run' = [run EXCEPT ![r].done = TRUE]
    /\ IF run[r].mine
         THEN /\ running' = FALSE /\ result' = r
              /\ IF run[r].tool = Script THEN UNCHANGED outcomes ELSE Keep(r)
         ELSE UNCHANGED <<running, result, outcomes>>
    /\ IF run[r].mine /\ run[r].asked THEN Answered ELSE UNCHANGED dialog
    /\ UNCHANGED <<latest, activeTool, cleared, under>>

EditorNext(readonly) == RunScript(readonly) \/ ClearResult \/ StartAsked
RunnerNext == RunTool \/ ClearOutcomes \/ StartAsked \/ \E t \in Tools : SelectTool(t)
RunsNext == \E r \in Runs : RunEnds(r)

\* The page is left and comes up again.
RemountExecute ==
    /\ running' = FALSE /\ result' = None /\ latest' = None
    /\ cleared' = FALSE /\ under' = FALSE
    /\ activeTool' = CHOOSE t \in Tools : TRUE
    /\ outcomes' = [t \in Tools |-> None]
    /\ run' = [r \in Runs |-> IF run[r] = None THEN None ELSE [run[r] EXCEPT !.mine = FALSE]]

-----------------------------------------------------------------------------

\* The editor shows the result of its last script, unless the result was cleared while a
\* script ran or a script was run by a key under the open dialog: then two can be under
\* way, and the answer that comes last is shown.  However runs and answers overlap, an
\* outcome in the runner is one of the tool it is shown for (useExecuteTool.ts:36-66,
\* ToolRunner.tsx:102-112).
ResultsBelong ==
    /\ latest # None /\ result # None => result = latest \/ cleared \/ under
    /\ \A t \in Tools : outcomes[t] # None => run[outcomes[t]].tool = t

\* As ResultsBelong's first part, for every result that was not cleared: fails when a risky
\* script is asked for, a harmless one is run by Ctrl+Enter under the dialog, the dialog is
\* confirmed, and the harmless script's answer comes last (CodeEditor.tsx:244-249).
ResultIsOfLastScript == latest # None /\ result # None => result = latest \/ cleared
=============================================================================
