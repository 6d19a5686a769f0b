-------------------------- MODULE DashboardProofs --------------------------
(***************************************************************************)
(* Proofs about Dashboard, for any migrations, tools, requests and visits. *)
(*                                                                         *)
(* The properties are about what the pages show and send; they hold        *)
(* because of the dialog: while an action runs it is on the screen and     *)
(* cannot be confirmed again, whatever is asked or run by a key under it.  *)
(***************************************************************************)
EXTENDS Dashboard, FiniteSetTheorems, TLAPS

\* A page sends the requests of its own kind only.
OwnRequests ==
    /\ route = "migrations" => \A r \in Runs : run[r] = None
    /\ route # "migrations" => \A j \in Jobs : job[j] = None
    /\ route = "tools" => latest = None /\ (asked # None => asked.tool \in Tools)
    /\ route = "sql" => /\ \A r \in Runs : run[r] # None => run[r].tool = Script
                        /\ asked # None => asked.tool = Script

\* A dialog that is confirmed is not confirmed again before its action is over.
ConfirmedOnce == grace = "on" => ~confirming

\* After a request that went well its list is read; after no other.
ListingsFollow ==
    \A l \in Jobs : lists[l] # None => job[l] # None /\ job[l].state = "listing"

\* A page that was never left with a request under way has one, which its dialog waits for.
OneJob ==
    ~left =>
      /\ \A j, k \in Unfinished : j = k
      /\ Unfinished # {} => confirming

Active(r) == run[r] # None /\ run[r].mine /\ ~run[r].done

\* Unless the result was cleared meanwhile or a script was run under the dialog, the page
\* knows of the run it waits for, which is the last one, and no dialog that is open can start
\* another.
OneRun ==
    ~cleared /\ ~under =>
      /\ \A r, s \in Runs : Active(r) /\ Active(s) => r = s
      /\ \A r \in Runs : Active(r) =>
           running /\ (latest # None => r = latest) /\ (asked # None => confirming)

OutcomesBelong ==
    \A t \in Tools : outcomes[t] # None =>
        outcomes[t] \in Runs /\ run[outcomes[t]] # None /\ run[outcomes[t]].tool = t

ResultIsLatest == latest # None /\ result # None => result = latest \/ cleared \/ under

IInv ==
    /\ TypeOK
    /\ OwnRequests /\ ConfirmedOnce
    /\ ListingsFollow /\ OneJob
    /\ OneRun /\ ResultIsLatest /\ OutcomesBelong
    /\ SelectionIsPending
    /\ ContentOfSelection

-----------------------------------------------------------------------------
(***************************************************************************)
(* Scripts and tools.                                                      *)
(***************************************************************************)

\* What starting a run does to the runs.
LEMMA Executed ==
    ASSUME NEW tool \in Tools \cup {Script}, NEW viaDialog \in BOOLEAN, TypeOK,
           Execute(tool, viaDialog)
    PROVE  \E r \in Runs :
             /\ run[r] = None /\ run'[r] # None
             /\ run' \in [Runs -> {None} \cup Execution] /\ run'[r].tool = tool
             /\ \A s \in Runs : s # r => run'[s] = run[s]
             /\ running' = TRUE /\ result' = None /\ UNCHANGED cleared
             /\ latest' = IF tool = Script THEN r ELSE latest
<1>1. PICK r \in Runs :
        /\ run[r] = None
        /\ run' = [run EXCEPT ![r] = [tool |-> tool, asked |-> viaDialog, mine |-> TRUE,
                                      done |-> FALSE]]
        /\ running' = TRUE /\ result' = None /\ UNCHANGED cleared
        /\ latest' = IF tool = Script THEN r ELSE latest
  BY DEF Execute, Started
<1>2. run'[r] = [tool |-> tool, asked |-> viaDialog, mine |-> TRUE, done |-> FALSE]
  BY <1>1 DEF TypeOK
<1>3. run'[r] \in Execution
  BY <1>2 DEF Execution
<1>4. run'[r].tool = tool
  BY <1>2
<1>5. run'[r] # None
  BY <1>3, NoExecutionAssumption
<1>6. run' \in [Runs -> {None} \cup Execution]
  BY <1>1, <1>2, <1>3 DEF TypeOK
<1> QED
  BY <1>1, <1>4, <1>5, <1>6 DEF TypeOK

\* A page starts a run only when it waits for none.
LEMMA OneRunStarted ==
    ASSUME TypeOK, OwnRequests, OneRun, OutcomesBelong, route \in {"sql", "tools"},
           NEW tool \in Tools \cup {Script}, NEW viaDialog \in BOOLEAN,
           route = "sql" <=> tool = Script,
           Execute(tool, viaDialog),
           UNCHANGED outcomes,
           under => under',
           cleared \/ under' \/ \A r \in Runs : ~Active(r),
           under' \/ (asked' # None => confirming')
    PROVE  OneRun' /\ ResultIsLatest' /\ OutcomesBelong'
<1>1. PICK r \in Runs :
        /\ run[r] = None /\ run'[r] # None
        /\ \A s \in Runs : s # r => run'[s] = run[s]
        /\ running' = TRUE /\ result' = None /\ UNCHANGED cleared
        /\ latest' = IF tool = Script THEN r ELSE latest
  BY Executed
<1>2. OneRun'
  <2>1. \A s \in Runs : s # r => Active(s)' = Active(s)
    BY <1>1 DEF Active
  <2>2. latest' # None => latest' = r
    BY <1>1 DEF OwnRequests
  <2> QED
    BY <1>1, <2>1, <2>2 DEF OneRun
<1>3. OutcomesBelong'
  BY <1>1 DEF OutcomesBelong, TypeOK
<1> QED
  BY <1>1, <1>2, <1>3 DEF ResultIsLatest

\* No step of any page shows a result or keeps an outcome where it does not belong.
LEMMA ResultsStep ==
    TypeOK /\ OwnRequests /\ ConfirmedOnce /\ OneRun /\ ResultIsLatest /\ OutcomesBelong
      /\ [Next]_vars
    => OneRun' /\ ResultIsLatest' /\ OutcomesBelong'
<1> DEFINE G == OneRun' /\ ResultIsLatest' /\ OutcomesBelong'
<1> SUFFICES ASSUME TypeOK, OwnRequests, ConfirmedOnce, OneRun, ResultIsLatest,
                    OutcomesBelong, [Next]_vars
             PROVE  G
  OBVIOUS
<1>1. CASE UNCHANGED executing /\ (UNCHANGED dialog \/ \A r \in Runs : run[r] = None)
  <2>1. UNCHANGED <<run, running, result, latest, outcomes, cleared, under>>
    BY <1>1 DEF executing, hook
  <2> QED
    BY <1>1, <2>1 DEF OneRun, Active, ResultIsLatest, OutcomesBelong, dialog
<1>2. CASE DialogNext /\ UNCHANGED executing
  <2>1. UNCHANGED <<run, running, result, latest, outcomes, cleared, under>>
    BY <1>2 DEF executing, hook
  <2>2. asked' # None => asked' = asked /\ confirming' = confirming
    BY <1>2 DEF DialogNext, ClickConfirm, Cancel, ExitEnds
  <2> QED
    BY <2>1, <2>2 DEF OneRun, Active, ResultIsLatest, OutcomesBelong
<1>3. ASSUME route \in {"sql", "tools"}, NEW tool \in Tools \cup {Script},
             route = "sql" <=> tool = Script, ~running,
             (\E blocked \in BOOLEAN : AskToExecute(tool, blocked)) \/ RunAtOnce(tool)
      PROVE  G
  <2>1. cleared \/ under \/ \A r \in Runs : ~Active(r)
    BY <1>3 DEF OneRun
  <2>2. CASE \E blocked \in BOOLEAN : AskToExecute(tool, blocked)
    BY <2>1, <2>2 DEF AskToExecute, executing, hook, OneRun, Active, ResultIsLatest,
                      OutcomesBelong
  <2>3. CASE RunAtOnce(tool)
    <3>1. Execute(tool, FALSE) /\ UNCHANGED outcomes /\ (under => under')
      BY <2>3 DEF RunAtOnce
    <3>2. under' \/ (asked' # None => confirming')
      BY <2>3 DEF RunAtOnce, dialog
    <3>3. cleared \/ under' \/ \A r \in Runs : ~Active(r)
      BY <2>1, <3>1
    <3> QED
      BY <1>3, <3>1, <3>2, <3>3, OneRunStarted
  <2> QED
    BY <1>3, <2>2, <2>3
<1>4. CASE route = "sql" /\ RunScript(readonly)
  <2>1. ~running
    BY <1>4 DEF RunScript
  <2>2. (\E blocked \in BOOLEAN : AskToExecute(Script, blocked)) \/ RunAtOnce(Script)
    BY <1>4 DEF RunScript, TypeOK
  <2> QED
    BY <1>3, <1>4, <2>1, <2>2
<1>5. CASE route = "tools" /\ RunTool
  <2>1. ~running
    BY <1>5 DEF RunTool
  <2>2. (\E blocked \in BOOLEAN : AskToExecute(activeTool, blocked)) \/ RunAtOnce(activeTool)
    BY <1>5 DEF RunTool
  <2> QED
    BY <1>3, <1>5, <2>1, <2>2, ExecutePagesAssumption DEF TypeOK
<1>6. CASE ClearResult
  BY <1>6 DEF ClearResult, dialog, OneRun, Active, ResultIsLatest, OutcomesBelong
<1>7. CASE ClearOutcomes \/ \E t \in Tools : SelectTool(t)
  BY <1>7 DEF ClearOutcomes, SelectTool, hook, dialog, OneRun, Active, ResultIsLatest,
              OutcomesBelong
<1>8. CASE route \in {"sql", "tools"} /\ StartAsked
  <2>1. CASE UNCHANGED executing /\ asked' = None
    <3>1. UNCHANGED <<run, running, result, latest, outcomes, cleared, under>>
      BY <2>1 DEF executing, hook
    <3> QED
      BY <2>1, <3>1 DEF OneRun, Active, ResultIsLatest, OutcomesBelong
  <2>2. CASE ~(UNCHANGED executing /\ asked' = None)
    <3>1. asked # None /\ GraceEnds /\ Execute(asked.tool, TRUE) /\ UNCHANGED <<outcomes, under>>
      BY <1>8, <2>2 DEF StartAsked, GraceEnds, GraceEndsDone
    <3>2. asked.tool \in Tools \cup {Script} /\ (route = "sql" <=> asked.tool = Script)
      BY <1>8, <3>1, ExecutePagesAssumption DEF OwnRequests
    <3>3. cleared \/ under' \/ \A r \in Runs : ~Active(r)
      BY <3>1 DEF GraceEnds, ConfirmedOnce, OneRun
    <3>4. under' \/ (asked' # None => confirming')
      BY <3>1 DEF GraceEnds
    <3> QED
      BY <1>8, <3>1, <3>2, <3>3, <3>4, OneRunStarted
  <2> QED
    BY <2>1, <2>2
<1>9. ASSUME NEW r \in Runs, RunEnds(r) PROVE G
  <2>1. run[r] \in Execution /\ ~run[r].done
    BY <1>9 DEF RunEnds, TypeOK
  <2>2. /\ run'[r] \in Execution /\ run'[r].done
        /\ run'[r].tool = run[r].tool /\ run'[r].mine = run[r].mine
        /\ \A s \in Runs : s # r => run'[s] = run[s]
        /\ UNCHANGED <<latest, cleared, under>>
    BY <1>9, <2>1 DEF RunEnds, TypeOK, Execution
  <2>5. \A s \in Runs : run[s] # None => run'[s] # None /\ run'[s].tool = run[s].tool
    BY <2>2, NoExecutionAssumption
  <2>3. CASE run[r].mine
    <3>1. Active(r)
      BY <1>9, <2>3 DEF RunEnds, Active
    <3>2. ~cleared /\ ~under => \A s \in Runs : ~Active(s)'
      BY <2>2, <3>1 DEF OneRun, Active
    <3>3. result' = r /\ (latest # None => r = latest \/ cleared \/ under)
      BY <1>9, <2>3, <3>1 DEF RunEnds, OneRun
    <3>4. outcomes' = outcomes \/ outcomes' = [outcomes EXCEPT ![run[r].tool] = r]
      BY <1>9, <2>3 DEF RunEnds, Keep
    <3>5. OutcomesBelong'
      BY <1>9, <2>5, <3>4 DEF RunEnds, OutcomesBelong, TypeOK
    <3> QED
      BY <2>2, <3>2, <3>3, <3>5 DEF OneRun, Active, ResultIsLatest
  <2>4. CASE ~run[r].mine
    <3>1. UNCHANGED <<running, result, outcomes, dialog>>
      BY <1>9, <2>4 DEF RunEnds
    <3> QED
      BY <2>2, <2>4, <2>5, <3>1 DEF OneRun, Active, ResultIsLatest, OutcomesBelong, dialog
  <2> QED
    BY <2>3, <2>4
<1>10. CASE LeaveAndReturn
  <2>1. result' = None /\ \A t \in Tools : outcomes'[t] = None
    BY <1>10 DEF LeaveAndReturn, RemountExecute
  <2>2. \A r \in Runs : run[r] # None => run'[r].mine = FALSE
    BY <1>10 DEF LeaveAndReturn, RemountExecute, TypeOK, Execution
  <2>3. \A r \in Runs : run[r] = None => run'[r] = None
    BY <1>10 DEF LeaveAndReturn, RemountExecute
  <2> QED
    BY <2>1, <2>2, <2>3 DEF OneRun, Active, ResultIsLatest, OutcomesBelong
<1>11. CASE PageStep
  <2>1. CASE route = "migrations" /\ UNCHANGED executing
    BY <1>1, <2>1 DEF OwnRequests
  <2>2. CASE route = "sql" /\ EditorNext(readonly)
    BY <1>4, <1>6, <1>8, <2>2 DEF EditorNext
  <2>3. CASE route = "tools" /\ RunnerNext
    BY <1>5, <1>7, <1>8, <2>3 DEF RunnerNext
  <2>4. CASE DialogNext /\ UNCHANGED executing
    BY <1>2, <2>4
  <2> QED
    BY <1>11, <2>1, <2>2, <2>3, <2>4 DEF PageStep
<1>12. CASE RequestStep
  <2>1. CASE JobsNext /\ UNCHANGED executing
    <3>1. route = "migrations"
      BY <2>1 DEF JobsNext, Run, RunAnswered, OwnRequests
    <3> QED
      BY <1>1, <2>1, <3>1 DEF OwnRequests
  <2>2. CASE RunsNext
    BY <1>9, <2>2 DEF RunsNext
  <2> QED
    BY <1>12, <2>1, <2>2 DEF RequestStep
<1>13. CASE ReadonlyChanges
  BY <1>1, <1>13 DEF ReadonlyChanges
<1>14. CASE UNCHANGED vars
  BY <1>1, <1>14 DEF vars
<1> QED
  BY <1>10, <1>11, <1>12, <1>13, <1>14 DEF Next

-----------------------------------------------------------------------------
(***************************************************************************)
(* Migrations.                                                             *)
(***************************************************************************)

\* A request that is over leaves none, and its list is not read again.
LEMMA JobOver ==
    ASSUME TypeOK, ListingsFollow, OneJob, left' = left, NEW j \in Unfinished,
           job' = [job EXCEPT ![j].state = "done"],
           lists' = lists \/ lists' = [lists EXCEPT ![j] = None],
           job[j].state # "listing" \/ lists' = [lists EXCEPT ![j] = None]
    PROVE  ListingsFollow' /\ OneJob'
<1>1. job[j] \in Job /\ j \in Jobs
  BY DEF Unfinished, TypeOK
<1>2. job'[j].state = "done" /\ \A k \in Jobs : k # j => job'[k] = job[k]
  BY <1>1 DEF TypeOK, Job
<1>3. ~left => Unfinished' = {}
  BY <1>2 DEF OneJob, Unfinished
<1>4. lists'[j] = None /\ \A l \in Jobs : l # j => lists'[l] = lists[l]
  BY <1>1 DEF ListingsFollow, TypeOK, Listings
<1> QED
  BY <1>1, <1>2, <1>3, <1>4 DEF ListingsFollow, OneJob

\* A listing changes no request but the one it follows.
LEMMA JobListed ==
    ASSUME TypeOK, ListingsFollow, OneJob, left' = left, NEW l \in Listings,
           lists[l] # None, lists' = [lists EXCEPT ![l] = None], JobEnds(l)
    PROVE  ListingsFollow' /\ OneJob'
<1>1. CASE l = 0
  <2>1. UNCHANGED <<job, confirming>> /\ \A k \in Jobs : lists'[k] = lists[k]
    BY <1>1, MigrationsPageAssumption DEF JobEnds, TypeOK, dialog
  <2> QED
    BY <2>1 DEF ListingsFollow, OneJob, Unfinished
<1>2. CASE l # 0
  <2>1. l \in Unfinished /\ job' = [job EXCEPT ![l].state = "done"]
    BY <1>2 DEF JobEnds, Listings, ListingsFollow, Unfinished
  <2> QED
    BY <2>1, JobOver
<1> QED
  BY <1>1, <1>2

\* No step gives a page that was not left a second request.
LEMMA JobsStep ==
    TypeOK /\ ConfirmedOnce /\ OwnRequests /\ ListingsFollow /\ OneJob /\ [Next]_vars
        => ListingsFollow' /\ OneJob'
<1> SUFFICES ASSUME TypeOK, ConfirmedOnce, OwnRequests, ListingsFollow, OneJob, [Next]_vars
             PROVE  ListingsFollow' /\ OneJob'
  OBVIOUS
<1>1. CASE UNCHANGED <<job, lists, left, confirming>>
  BY <1>1 DEF ListingsFollow, OneJob, Unfinished
<1>2. CASE ClickRefresh
  <2>1. UNCHANGED <<job, left, confirming>> /\ \A l \in Jobs : lists'[l] = lists[l]
    BY <1>2, MigrationsPageAssumption
       DEF ClickRefresh, StartListing, server, dialog, TypeOK
  <2> QED
    BY <2>1 DEF ListingsFollow, OneJob, Unfinished
<1>3. ASSUME NEW l \in Listings, ReadLedger(l) PROVE ListingsFollow' /\ OneJob'
  <2>1. /\ UNCHANGED <<job, left, confirming>>
        /\ \A k \in Jobs : lists'[k] # None => lists[k] # None
    BY <1>3, NoneAssumption DEF ReadLedger, server, dialog, TypeOK
  <2> QED
    BY <2>1 DEF ListingsFollow, OneJob, Unfinished
<1>4. ASSUME NEW l \in Listings, Listed(l) \/ ListingFails(l)
      PROVE  ListingsFollow' /\ OneJob'
  BY <1>4, JobListed DEF Listed, ListingFails
<1>5. CASE Send
  <2>1. ~left => Unfinished = {}
    BY <1>5 DEF Send, GraceEnds, ConfirmedOnce, OneJob
  <2>2. CASE asked = None
    BY <1>5, <2>1, <2>2 DEF Send, ListingsFollow, OneJob, Unfinished
  <2>3. CASE asked # None
    <3>1. PICK j \in Jobs :
            /\ job[j] = None
            /\ job' = [job EXCEPT ![j] =
                         [versions |-> asked.versions, state |-> "sent", mine |-> TRUE]]
      BY <1>5, <2>3 DEF Send
    <3>2. \A k \in Jobs : k # j => job'[k] = job[k]
      BY <3>1 DEF TypeOK
    <3>3. confirming' /\ UNCHANGED <<lists, left>>
      BY <1>5, <2>3 DEF Send, GraceEnds
    <3> QED
      BY <2>1, <3>1, <3>2, <3>3 DEF ListingsFollow, OneJob, Unfinished
  <2> QED
    BY <2>2, <2>3
<1>6. ASSUME NEW j \in Jobs, Run(j) PROVE ListingsFollow' /\ OneJob'
  <2>1. job[j] \in Job /\ job[j].state = "sent"
    BY <1>6 DEF Run, TypeOK
  <2>2. /\ job'[j].state \in {"ok", "failed"} /\ \A k \in Jobs : k # j => job'[k] = job[k]
        /\ UNCHANGED <<lists, left, confirming>>
    BY <1>6, <2>1 DEF Run, TypeOK, Job, listing, dialog
  <2> QED
    BY <1>6, <2>1, <2>2 DEF Run, ListingsFollow, OneJob, Unfinished
<1>7. ASSUME NEW j \in Jobs, RunAnswered(j) PROVE ListingsFollow' /\ OneJob'
  <2>1. job[j] \in Job /\ job[j].state \in {"ok", "failed"} /\ j \in Unfinished /\ left' = left
    BY <1>7 DEF RunAnswered, TypeOK, Unfinished
  <2>2. CASE job' = [job EXCEPT ![j].state = "done"] /\ UNCHANGED lists
    BY <2>1, <2>2, JobOver
  <2>3. CASE ~(job' = [job EXCEPT ![j].state = "done"] /\ UNCHANGED lists)
    <3>1. /\ job' = [job EXCEPT ![j].state = "listing"] /\ UNCHANGED <<left, confirming>>
          /\ lists' = [lists EXCEPT ![j] = Asked]
      BY <1>7, <2>3 DEF RunAnswered, StartListing, dialog
    <3>2. /\ job'[j].state = "listing" /\ \A k \in Jobs : k # j => job'[k] = job[k]
          /\ \A k \in Jobs : k # j => lists'[k] = lists[k]
      BY <2>1, <3>1 DEF TypeOK, Job
    <3>3. job'[j] \in Job
      BY <2>1, <3>1 DEF TypeOK, Job
    <3>4. job'[j] # None
      BY <3>3, NoneAssumption
    <3> QED
      BY <2>1, <3>1, <3>2, <3>4 DEF ListingsFollow, OneJob, Unfinished
  <2> QED
    BY <2>2, <2>3
<1>8. CASE LeaveAndReturn
  <2>1. CASE route = "migrations"
    <3>1. ~left' => Unfinished = {}
      BY <1>8, <2>1 DEF LeaveAndReturn, RemountMigrations
    <3>2. ~left' => Unfinished' = {}
      BY <1>8, <2>1, <3>1 DEF LeaveAndReturn, RemountMigrations, Unfinished
    <3>3. \A l \in Jobs : lists'[l] = None
      BY <1>8, <2>1, MigrationsPageAssumption DEF LeaveAndReturn, RemountMigrations, Listings
    <3> QED
      BY <3>2, <3>3 DEF ListingsFollow, OneJob
  <2>2. CASE route # "migrations"
    BY <1>8, <2>2 DEF LeaveAndReturn, migrations, server, listing, ListingsFollow, OneJob,
                      Unfinished, OwnRequests
  <2> QED
    BY <2>1, <2>2
<1>9. CASE PageStep
  <2>1. CASE route = "migrations" /\ MigrationsNext(readonly)
    <3>1. CASE SelectAll(readonly) \/ AskToApply(readonly) \/ AskToRerun(readonly)
               \/ \E v \in Versions : ToggleSelection(v, readonly) \/ View(v) \/ Loaded(v)
      BY <1>1, <3>1 DEF SelectAll, ToggleSelection, Tick, AskToApply, AskToRerun, AskFor, AskByKey,
                        View, Loaded, server, listing, dialog
    <3> QED
      BY <1>2, <1>3, <1>4, <1>5, <2>1, <3>1 DEF MigrationsNext
  <2>2. CASE DialogNext /\ UNCHANGED migrations
    BY <1>1, <2>2 DEF DialogNext, ClickConfirm, Cancel, ExitEnds, migrations, server, listing
  <2>3. CASE route # "migrations" /\ UNCHANGED migrations
    BY <2>3 DEF migrations, server, listing, ListingsFollow, OneJob, Unfinished, OwnRequests
  <2> QED
    BY <1>9, <2>1, <2>2, <2>3 DEF PageStep
<1>10. CASE RequestStep
  <2>1. CASE JobsNext
    BY <1>6, <1>7, <2>1 DEF JobsNext
  <2>2. CASE RunsNext /\ UNCHANGED migrations
    <3>1. route # "migrations"
      BY <2>2 DEF RunsNext, RunEnds, OwnRequests
    <3> QED
      BY <2>2, <3>1
         DEF migrations, server, listing, ListingsFollow, OneJob, Unfinished, OwnRequests
  <2> QED
    BY <1>10, <2>1, <2>2 DEF RequestStep
<1>11. CASE ReadonlyChanges
  BY <1>1, <1>11 DEF ReadonlyChanges, migrations, server, listing, dialog
<1>12. CASE UNCHANGED vars
  BY <1>1, <1>12 DEF vars, migrations, server, listing, dialog
<1> QED
  BY <1>8, <1>9, <1>10, <1>11, <1>12 DEF Next

-----------------------------------------------------------------------------
(***************************************************************************)
(* The dialog, and whose requests there are.                               *)
(***************************************************************************)

\* What a step of a page does to its dialog.
LEMMA DialogMoves ==
    [Next]_vars => \/ UNCHANGED dialog \/ \E q : AskByKey(q)
                   \/ DialogNext \/ GraceEnds \/ GraceEndsDone \/ Answered \/ Unmounted
<1> DEFINE G == \/ UNCHANGED dialog \/ \E q : AskByKey(q)
                \/ DialogNext \/ GraceEnds \/ GraceEndsDone \/ Answered \/ Unmounted
<1> SUFFICES ASSUME [Next]_vars PROVE G
  OBVIOUS
<1>1. MigrationsNext(readonly) => G
  BY DEF MigrationsNext, ClickRefresh, SelectAll, Tick, AskToApply, AskToRerun, AskFor, Send,
         ReadLedger, Listed, ListingFails, JobEnds, ToggleSelection, View, Loaded
<1>2. EditorNext(readonly) => G
  BY DEF EditorNext, RunScript, AskToExecute, RunAtOnce, ClearResult, StartAsked
<1>3. RunnerNext => G
  BY DEF RunnerNext, RunTool, AskToExecute, RunAtOnce, ClearOutcomes, StartAsked, SelectTool
<1>4. JobsNext \/ RunsNext => G
  BY DEF JobsNext, Run, RunAnswered, RunsNext, RunEnds
<1>5. LeaveAndReturn \/ ReadonlyChanges \/ UNCHANGED vars => G
  BY DEF LeaveAndReturn, ReadonlyChanges, vars
<1> HIDE DEF G
<1>6. DialogNext => G
  BY DEF G
<1> QED
  BY <1>1, <1>2, <1>3, <1>4, <1>5, <1>6 DEF Next, PageStep, RequestStep

\* A dialog is not confirmed while its action runs.
LEMMA ConfirmedStep == ConfirmedOnce /\ [Next]_vars => ConfirmedOnce'
BY DialogMoves
   DEF ConfirmedOnce, dialog, AskByKey, DialogNext, ClickConfirm, busy, Cancel, ExitEnds, GraceEnds,
       GraceEndsDone, Answered, Unmounted

\* A page asks for, and sends, what is its own.
LEMMA RequestsStep == TypeOK /\ OwnRequests /\ [Next]_vars => OwnRequests'
<1> SUFFICES ASSUME TypeOK, OwnRequests, [Next]_vars PROVE OwnRequests'
  OBVIOUS
<1>1. CASE UNCHANGED <<route, run, job, latest>> /\ (asked' = None \/ UNCHANGED asked)
  BY <1>1 DEF OwnRequests
<1>2. CASE route = "migrations" /\ UNCHANGED <<route, executing>>
  BY <1>2 DEF OwnRequests, executing, hook
<1>3. ASSUME route \in {"sql", "tools"}, UNCHANGED <<route, job>>,
             NEW tool \in Tools \cup {Script}, NEW viaDialog \in BOOLEAN,
             route = "sql" <=> tool = Script,
             Execute(tool, viaDialog), UNCHANGED asked
      PROVE  OwnRequests'
  <2>1. PICK r \in Runs :
          /\ run'[r].tool = tool /\ \A s \in Runs : s # r => run'[s] = run[s]
          /\ latest' = IF tool = Script THEN r ELSE latest
    BY <1>3, Executed
  <2> QED
    BY <1>3, <2>1 DEF OwnRequests
<1>4. CASE PageStep
  <2>1. UNCHANGED route
    BY <1>4 DEF PageStep
  <2>2. CASE route = "migrations" /\ UNCHANGED executing
    BY <1>2, <2>1, <2>2
  <2>3. CASE route = "sql" /\ EditorNext(readonly) /\ UNCHANGED migrations
    <3>1. CASE RunScript(readonly)
      <4>1. CASE \E blocked \in BOOLEAN : AskToExecute(Script, blocked)
        BY <2>1, <2>3, <4>1
           DEF AskToExecute, AskByKey, executing, hook, migrations, server, OwnRequests
      <4>2. CASE RunAtOnce(Script)
        BY <1>3, <2>1, <2>3, <4>2 DEF RunAtOnce, dialog, migrations, server
      <4> QED
        BY <3>1, <4>1, <4>2 DEF RunScript, TypeOK
    <3>2. CASE ClearResult
      BY <1>1, <2>1, <2>3, <3>2 DEF ClearResult, dialog, migrations, server
    <3>3. CASE StartAsked
      <4>1. CASE UNCHANGED executing
        BY <1>1, <2>1, <2>3, <3>3, <4>1
           DEF StartAsked, GraceEnds, GraceEndsDone, executing, hook, migrations, server
      <4>2. CASE ~UNCHANGED executing
        <5>1. asked # None /\ GraceEnds /\ Execute(asked.tool, TRUE)
          BY <3>3, <4>2 DEF StartAsked
        <5>2. asked.tool = Script
          BY <2>3, <5>1 DEF OwnRequests
        <5> QED
          BY <1>3, <2>1, <2>3, <5>1, <5>2 DEF GraceEnds, migrations, server
      <4> QED
        BY <4>1, <4>2
    <3> QED
      BY <2>3, <3>1, <3>2, <3>3 DEF EditorNext
  <2>4. CASE route = "tools" /\ RunnerNext /\ UNCHANGED migrations
    <3>1. CASE RunTool
      <4>1. CASE AskToExecute(activeTool, FALSE)
        BY <2>1, <2>4, <4>1
           DEF AskToExecute, AskByKey, executing, hook, migrations, server, OwnRequests, TypeOK
      <4>2. CASE RunAtOnce(activeTool)
        BY <1>3, <2>1, <2>4, <4>2, ExecutePagesAssumption
           DEF RunAtOnce, dialog, migrations, server, TypeOK
      <4> QED
        BY <3>1, <4>1, <4>2 DEF RunTool
    <3>2. CASE ClearOutcomes \/ \E t \in Tools : SelectTool(t)
      BY <1>1, <2>1, <2>4, <3>2 DEF ClearOutcomes, SelectTool, hook, dialog, migrations, server
    <3>3. CASE StartAsked
      <4>1. CASE UNCHANGED executing
        BY <1>1, <2>1, <2>4, <3>3, <4>1
           DEF StartAsked, GraceEnds, GraceEndsDone, executing, hook, migrations, server
      <4>2. CASE ~UNCHANGED executing
        <5>1. asked # None /\ GraceEnds /\ Execute(asked.tool, TRUE)
          BY <3>3, <4>2 DEF StartAsked
        <5>2. asked.tool \in Tools
          BY <2>4, <5>1 DEF OwnRequests
        <5> QED
          BY <1>3, <2>1, <2>4, <5>1, <5>2, ExecutePagesAssumption
             DEF GraceEnds, migrations, server
      <4> QED
        BY <4>1, <4>2
    <3> QED
      BY <2>4, <3>1, <3>2, <3>3 DEF RunnerNext
  <2>5. CASE DialogNext /\ UNCHANGED <<migrations, executing>>
    BY <1>1, <2>1, <2>5
       DEF DialogNext, ClickConfirm, Cancel, ExitEnds, migrations, server, executing, hook
  <2> QED
    BY <1>4, <2>2, <2>3, <2>4, <2>5 DEF PageStep
<1>5. CASE RequestStep
  <2>1. CASE JobsNext /\ UNCHANGED executing
    <3>1. route = "migrations"
      BY <2>1 DEF JobsNext, Run, RunAnswered, OwnRequests
    <3> QED
      BY <1>2, <1>5, <2>1, <3>1 DEF RequestStep
  <2>2. CASE RunsNext /\ UNCHANGED migrations
    <3>1. PICK r \in Runs : RunEnds(r)
      BY <2>2 DEF RunsNext
    <3>2. run[r] \in Execution /\ route # "migrations"
      BY <3>1 DEF RunEnds, OwnRequests, TypeOK
    <3>3. /\ run'[r].tool = run[r].tool /\ \A s \in Runs : s # r => run'[s] = run[s]
          /\ UNCHANGED latest /\ (asked' = None \/ UNCHANGED asked)
      BY <3>1, <3>2 DEF RunEnds, Answered, dialog, TypeOK, Execution
    <3> QED
      BY <1>5, <2>2, <3>1, <3>2, <3>3
         DEF RequestStep, RunEnds, OwnRequests, migrations, server
  <2> QED
    BY <1>5, <2>1, <2>2 DEF RequestStep
<1>6. CASE LeaveAndReturn
  <2>1. UNCHANGED route /\ asked' = None /\ latest' = None
    BY <1>6 DEF LeaveAndReturn, Unmounted, RemountExecute
  <2>2. \A r \in Runs : run[r] = None => run'[r] = None
    BY <1>6 DEF LeaveAndReturn, RemountExecute
  <2>3. \A r \in Runs : run[r] # None => run'[r].tool = run[r].tool
    BY <1>6 DEF LeaveAndReturn, RemountExecute, TypeOK, Execution
  <2>4. route # "migrations" => job' = job
    BY <1>6 DEF LeaveAndReturn, migrations, server
  <2> QED
    BY <2>1, <2>2, <2>3, <2>4 DEF OwnRequests
<1>7. CASE ReadonlyChanges \/ UNCHANGED vars
  BY <1>1, <1>7 DEF ReadonlyChanges, vars, migrations, server, executing, hook, dialog
<1> QED
  BY <1>4, <1>5, <1>6, <1>7 DEF Next

-----------------------------------------------------------------------------
(***************************************************************************)
(* Types, and what the migrations page shows.                              *)
(***************************************************************************)

\* What stays of the types when a step leaves the pages alone.
LEMMA TypesKept ==
    ASSUME TypeOK, UNCHANGED <<route, readonly, migrations, executing>>,
           asked' \in {None, asked}, grace' \in {"off", "on", "dropped"},
           confirming' \in BOOLEAN
    PROVE  TypeOK'
BY DEF TypeOK, migrations, server, listing, reading, executing, hook

\* The migrations page keeps the types of its variables.
LEMMA MigrationsTypes ==
    ASSUME TypeOK, ListingsFollow, route = "migrations", MigrationsNext(readonly) \/ JobsNext,
           UNCHANGED <<executing, route, readonly>>
    PROVE  TypeOK'
<1> USE DEF TypeOK, executing, hook, Listings
<1>1. CASE ClickRefresh
  BY <1>1 DEF ClickRefresh, StartListing, server, dialog
<1>2. ASSUME NEW l \in Listings, ReadLedger(l) PROVE TypeOK'
  BY <1>2 DEF ReadLedger, server, dialog
<1>3. ASSUME NEW l \in Listings, lists[l] # None, JobEnds(l)
      PROVE  /\ job' \in [Jobs -> {None} \cup Job] /\ asked' \in {None, asked}
             /\ UNCHANGED grace /\ confirming' \in BOOLEAN
  <2>1. CASE l = 0
    BY <1>3, <2>1 DEF JobEnds, dialog
  <2>2. CASE l # 0
    <3>1. job[l] \in Job /\ l \in Jobs
      BY <1>3, <2>2 DEF ListingsFollow
    <3>2. [job[l] EXCEPT !.state = "done"] \in Job
      BY <3>1 DEF Job
    <3> QED
      BY <1>3, <2>2, <3>1, <3>2 DEF JobEnds, Answered
  <2> QED
    BY <2>1, <2>2
<1>4. ASSUME NEW l \in Listings, Listed(l) PROVE TypeOK'
  BY <1>3, <1>4 DEF Listed, ShowList, reading
<1>5. ASSUME NEW l \in Listings, ListingFails(l) PROVE TypeOK'
  BY <1>3, <1>5 DEF ListingFails, reading
<1>6. ASSUME NEW v \in Versions, ToggleSelection(v, readonly) PROVE TypeOK'
  BY <1>6 DEF ToggleSelection, Tick, server, dialog
<1>7. CASE SelectAll(readonly)
  BY <1>7 DEF SelectAll, Tick, Pending, server, dialog
<1>8. CASE AskToApply(readonly) \/ AskToRerun(readonly)
  BY <1>8 DEF AskToApply, AskToRerun, AskFor, AskByKey, Pending, JobAsked, server, listing
<1>9. CASE Send
  <2>1. job' \in [Jobs -> {None} \cup Job]
    <3>1. asked # None => [versions |-> asked.versions, state |-> "sent", mine |-> TRUE] \in Job
      BY DEF Job, JobAsked
    <3> QED
      BY <1>9, <3>1 DEF Send
  <2> QED
    BY <1>9, <2>1 DEF Send, GraceEnds
<1>10. ASSUME NEW v \in Versions, View(v) \/ Loaded(v) PROVE TypeOK'
  BY <1>10 DEF View, Loaded, server, listing, dialog
<1>11. ASSUME NEW j \in Jobs, Run(j) PROVE TypeOK'
  <2>1. job' \in [Jobs -> {None} \cup Job] /\ applied' \subseteq Versions
    BY <1>11 DEF Run, Job
  <2> QED
    BY <1>11, <2>1 DEF Run, listing, dialog
<1>12. ASSUME NEW j \in Jobs, RunAnswered(j) PROVE TypeOK'
  <2>1. job' \in [Jobs -> {None} \cup Job]
    BY <1>12 DEF RunAnswered, Job
  <2> QED
    BY <1>12, <2>1 DEF RunAnswered, StartListing, Answered, dialog
<1> QED
  BY <1>1, <1>2, <1>4, <1>5, <1>6, <1>7, <1>8, <1>9, <1>10, <1>11, <1>12
     DEF MigrationsNext, JobsNext

\* So do the editor and the runner.
LEMMA ExecuteTypes ==
    ASSUME TypeOK, OwnRequests, route \in {"sql", "tools"},
           \/ route = "sql" /\ EditorNext(readonly)
           \/ route = "tools" /\ RunnerNext
           \/ RunsNext,
           UNCHANGED <<migrations, route, readonly>>
    PROVE  TypeOK'
<1> USE DEF TypeOK, migrations, server, listing
<1>1. ASSUME NEW tool \in Tools \cup {Script}, NEW blocked \in BOOLEAN,
             AskToExecute(tool, blocked)
      PROVE  TypeOK'
  BY <1>1 DEF AskToExecute, AskByKey, ToolAsked, executing, hook
<1>2. ASSUME NEW tool \in Tools \cup {Script}, NEW viaDialog \in BOOLEAN,
             Execute(tool, viaDialog), UNCHANGED <<activeTool, outcomes>>,
             UNCHANGED dialog \/ GraceEnds
      PROVE  TypeOK'
  <2>1. run' \in [Runs -> {None} \cup Execution] /\ running' \in BOOLEAN
    BY <1>2, Executed
  <2> QED
    BY <1>2, <2>1 DEF GraceEnds, dialog
<1>3. CASE route = "sql" /\ RunScript(readonly)
  BY <1>1, <1>2, <1>3 DEF RunScript, RunAtOnce
<1>4. CASE RunTool
  BY <1>1, <1>2, <1>4 DEF RunTool, RunAtOnce
<1>5. CASE ClearResult \/ ClearOutcomes \/ \E t \in Tools : SelectTool(t)
  BY <1>5 DEF ClearResult, ClearOutcomes, SelectTool, hook, dialog
<1>6. CASE StartAsked
  <2>1. CASE GraceEndsDone \/ (GraceEnds /\ UNCHANGED executing)
    BY <1>6, <2>1 DEF StartAsked, GraceEnds, GraceEndsDone, executing, hook
  <2>2. CASE asked # None /\ GraceEnds /\ Execute(asked.tool, TRUE)
             /\ UNCHANGED <<activeTool, outcomes>>
    <3>1. asked.tool \in Tools \cup {Script}
      BY <2>2 DEF OwnRequests
    <3> QED
      BY <1>2, <2>2, <3>1
  <2> QED
    BY <1>6, <2>1, <2>2 DEF StartAsked
<1>7. ASSUME NEW r \in Runs, RunEnds(r) PROVE TypeOK'
  <2>1. run' \in [Runs -> {None} \cup Execution]
    BY <1>7 DEF RunEnds, Execution
  <2>2. outcomes' \in [Tools -> Runs \cup {None}]
    BY <1>7 DEF RunEnds, Keep
  <2> QED
    BY <1>7, <2>1, <2>2 DEF RunEnds, Answered, dialog
<1> QED
  BY <1>3, <1>4, <1>5, <1>6, <1>7 DEF EditorNext, RunnerNext, RunsNext

\* No step leaves the types.
LEMMA TypeStep == TypeOK /\ ListingsFollow /\ OwnRequests /\ [Next]_vars => TypeOK'
<1> SUFFICES ASSUME TypeOK, ListingsFollow, OwnRequests, [Next]_vars PROVE TypeOK'
  OBVIOUS
<1>1. CASE DialogNext /\ UNCHANGED <<route, readonly, migrations, executing>>
  BY <1>1, TypesKept DEF DialogNext, ClickConfirm, Cancel, ExitEnds, TypeOK
<1>2. CASE PageStep
  <2>1. CASE route = "migrations" /\ MigrationsNext(readonly) /\ UNCHANGED executing
    BY <1>2, <2>1, MigrationsTypes DEF PageStep
  <2> QED
    BY <1>1, <1>2, <2>1, ExecuteTypes DEF PageStep
<1>3. CASE RequestStep
  <2>1. CASE JobsNext /\ UNCHANGED executing
    <3>1. route = "migrations"
      BY <2>1 DEF JobsNext, Run, RunAnswered, OwnRequests
    <3> QED
      BY <1>3, <2>1, <3>1, MigrationsTypes DEF RequestStep
  <2>2. CASE RunsNext /\ UNCHANGED migrations
    <3>1. route \in {"sql", "tools"}
      BY <2>2 DEF RunsNext, RunEnds, OwnRequests, TypeOK, Routes
    <3> QED
      BY <1>3, <2>2, <3>1, ExecuteTypes DEF RequestStep
  <2> QED
    BY <1>3, <2>1, <2>2 DEF RequestStep
<1>4. CASE LeaveAndReturn
  <2>1. run' \in [Runs -> {None} \cup Execution] /\ outcomes' \in [Tools -> Runs \cup {None}]
        /\ running' \in BOOLEAN /\ activeTool' \in Tools
    BY <1>4, ExecutePagesAssumption DEF LeaveAndReturn, RemountExecute, TypeOK, Execution
  <2>2. /\ job' \in [Jobs -> {None} \cup Job] /\ applied' \subseteq Versions
        /\ lists' \in [Listings -> {None, Asked} \cup SUBSET Versions]
        /\ listed' = None \/ listed' \subseteq Versions
        /\ selected' \subseteq Versions
    <3>1. CASE route = "migrations"
      <4>1. /\ DOMAIN job' = Jobs /\ job' = [j \in Jobs |-> job'[j]]
            /\ \A j \in Jobs : j \notin Unfinished => job'[j] = job[j]
            /\ \A j \in Unfinished :
                 job'[j] = [job[j] EXCEPT !.mine = FALSE,
                                          !.state = IF @ = "listing" THEN "done" ELSE @]
        BY <1>4, <3>1 DEF LeaveAndReturn, RemountMigrations, Unfinished
      <4>2. \A j \in Unfinished : job'[j] \in Job
        <5> SUFFICES ASSUME NEW j \in Unfinished PROVE job'[j] \in Job
          OBVIOUS
        <5>1. job[j] \in Job
          BY DEF Unfinished, TypeOK
        <5>2. CASE job[j].state = "listing"
          <6>1. job'[j] = [job[j] EXCEPT !.mine = FALSE, !.state = "done"]
            BY <4>1, <5>2
          <6> QED
            BY <5>1, <6>1 DEF Job
        <5>3. CASE job[j].state # "listing"
          <6>1. job'[j] = [job[j] EXCEPT !.mine = FALSE, !.state = job[j].state]
            BY <4>1, <5>3
          <6> QED
            BY <5>1, <6>1 DEF Job
        <5> QED
          BY <5>2, <5>3
      <4>3. job' \in [Jobs -> {None} \cup Job]
        BY <4>1, <4>2 DEF TypeOK
      <4> QED
        BY <1>4, <3>1, <4>3 DEF LeaveAndReturn, RemountMigrations, TypeOK
    <3>2. CASE route # "migrations"
      BY <1>4, <3>2 DEF LeaveAndReturn, migrations, server, listing, TypeOK
    <3> QED
      BY <3>1, <3>2
  <2> QED
    BY <1>4, <2>1, <2>2 DEF LeaveAndReturn, Unmounted, TypeOK
<1>5. CASE ReadonlyChanges \/ UNCHANGED vars
  BY <1>5
     DEF ReadonlyChanges, vars, TypeOK, migrations, server, listing, executing, hook, dialog
<1> QED
  BY <1>2, <1>3, <1>4, <1>5 DEF Next

\* What is ticked stays pending, and what is shown is what was looked at last.
LEMMA ShownStep ==
    SelectionIsPending /\ ContentOfSelection /\ [Next]_vars
        => SelectionIsPending' /\ ContentOfSelection'
<1> SUFFICES ASSUME SelectionIsPending, ContentOfSelection, [Next]_vars
             PROVE  SelectionIsPending' /\ ContentOfSelection'
  OBVIOUS
<1> USE DEF SelectionIsPending, Pending, ContentOfSelection
<1>1. CASE UNCHANGED <<selected, listed>> /\ UNCHANGED reading
  BY <1>1 DEF reading
<1>2. CASE MigrationsNext(readonly)
  <2>1. CASE ClickRefresh \/ AskToApply(readonly) \/ AskToRerun(readonly) \/ Send
             \/ \E l \in Listings : ReadLedger(l) \/ ListingFails(l)
    BY <1>1, <2>1 DEF ClickRefresh, AskToApply, AskToRerun, AskFor, Send, ReadLedger,
                      ListingFails, listing
  <2>2. CASE \E l \in Listings : Listed(l)
    BY <2>2 DEF Listed, ShowList, reading
  <2>3. CASE SelectAll(readonly) \/ \E v \in Versions : ToggleSelection(v, readonly)
    BY <2>3 DEF SelectAll, ToggleSelection, Tick, reading
  <2>4. ASSUME NEW v \in Versions, View(v) PROVE SelectionIsPending' /\ ContentOfSelection'
    BY <2>4 DEF View, listing
  <2>5. ASSUME NEW v \in Versions, Loaded(v) PROVE SelectionIsPending' /\ ContentOfSelection'
    BY <2>5 DEF Loaded, LoadFails, listing
  <2> QED
    BY <1>2, <2>1, <2>2, <2>3, <2>4, <2>5 DEF MigrationsNext
<1>3. CASE PageStep
  BY <1>1, <1>2, <1>3 DEF PageStep, migrations, listing
<1>4. CASE RequestStep
  <2>1. CASE JobsNext
    BY <2>1 DEF JobsNext, Run, RunAnswered, listing, reading
  <2> QED
    BY <1>1, <1>4, <2>1 DEF RequestStep, migrations, listing
<1>5. CASE LeaveAndReturn
  BY <1>5 DEF LeaveAndReturn, RemountMigrations, migrations, listing, reading
<1>6. CASE ReadonlyChanges \/ UNCHANGED vars
  BY <1>1, <1>6 DEF ReadonlyChanges, vars, migrations, listing
<1> QED
  BY <1>3, <1>4, <1>5, <1>6 DEF Next

-----------------------------------------------------------------------------
(***************************************************************************)
(* Theorems.                                                               *)
(***************************************************************************)

\* What the pages know of their requests, and what can still start one: whatever is clicked,
\* asked, confirmed, cancelled or left, and whenever answers come.
THEOREM Invariance == Spec => []IInv
<1>1. Init => IInv
  <2> SUFFICES ASSUME Init PROVE IInv
    OBVIOUS
  <2>1. TypeOK
    BY MigrationsPageAssumption, ExecutePagesAssumption
       DEF Init, MigrationsInit, ExecuteInit, DialogInit, TypeOK, Routes
  <2>2. OwnRequests /\ ConfirmedOnce
    BY DEF Init, MigrationsInit, ExecuteInit, DialogInit, OwnRequests, ConfirmedOnce
  <2>3. ListingsFollow /\ OneJob
    BY MigrationsPageAssumption
       DEF Init, MigrationsInit, ListingsFollow, OneJob, Unfinished, Listings
  <2>4. OneRun /\ ResultIsLatest /\ OutcomesBelong
    BY DEF Init, ExecuteInit, OneRun, Active, ResultIsLatest, OutcomesBelong
  <2>5. SelectionIsPending /\ ContentOfSelection
    BY DEF Init, MigrationsInit, SelectionIsPending, Pending, ContentOfSelection
  <2> QED
    BY <2>1, <2>2, <2>3, <2>4, <2>5 DEF IInv
<1>2. IInv /\ [Next]_vars => IInv'
  BY TypeStep, RequestsStep, ConfirmedStep, JobsStep, ResultsStep, ShownStep DEF IInv
<1> QED
  BY <1>1, <1>2, PTL DEF Spec

\* Every variable keeps its type.
THEOREM TypeCorrect == Spec => []TypeOK
<1>1. IInv => TypeOK
  BY DEF IInv
<1> QED
  BY <1>1, Invariance, PTL

\* A page that was never left while a request was under way has one under way at most: the
\* button that asks heeds what the page knows, and the dialog lasts as long as its action.
THEOREM NoSecondJob == Spec => []OneJobAtATime
<1>1. IInv => OneJobAtATime
  <2> SUFFICES ASSUME IInv, ~left PROVE Cardinality(Unfinished) <= 1
    BY DEF OneJobAtATime
  <2>1. CASE Unfinished = {}
    BY <2>1, FS_EmptySet
  <2>2. CASE Unfinished # {}
    <3>1. PICK j : Unfinished = {j}
      BY <2>2 DEF IInv, OneJob
    <3>2. Cardinality({j}) = 1
      BY FS_Singleton
    <3> QED
      BY <3>1, <3>2
  <2> QED
    BY <2>1, <2>2
<1> QED
  BY <1>1, Invariance, PTL

\* What is asked for by its ticks is pending in the list that is shown.
THEOREM TicksArePending == Spec => []SelectionIsPending
<1>1. IInv => SelectionIsPending
  BY DEF IInv
<1> QED
  BY <1>1, Invariance, PTL

\* The SQL that is shown belongs to the migration it is shown under, as long as no late
\* answer has overtaken it.
THEOREM ShownContent == Spec => []ContentOfSelection
<1>1. IInv => ContentOfSelection
  BY DEF IInv
<1> QED
  BY <1>1, Invariance, PTL

\* A result is that of the last script, unless it was cleared or a script was run under the
\* dialog, and an outcome is that of its tool, for any number of runs, whenever they are
\* answered and however often the page is left meanwhile.
THEOREM OwnResults == Spec => []ResultsBelong
<1>1. IInv => ResultsBelong
  BY DEF IInv, ResultIsLatest, OutcomesBelong, ResultsBelong
<1> QED
  BY <1>1, Invariance, PTL
=============================================================================
