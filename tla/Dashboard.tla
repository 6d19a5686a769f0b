----------------------------- MODULE Dashboard -----------------------------
(***************************************************************************)
(* The pages of the dashboard that run migrations, scripts and tools.  A   *)
(* page has the confirm dialog of its own, and loses its state when it is  *)
(* left, while its requests go on.  The user stays with one page, but for  *)
(* leaving it and coming back.  (The table browser, whose rows are cached  *)
(* across pages, is in module TablesPage, the settings in ApiServer.)      *)
(***************************************************************************)
EXTENDS MigrationsPage, ExecutePages

CONSTANT MaxVisits  \* bound: how often the user leaves the page and comes back

ASSUME DashboardAssumption == MaxVisits \in Nat

VARIABLES
    route,     \* the page
    readonly,  \* the read-only flag, as the pages know it
    visits

migrations == <<server, listing, reading, left>>
vars == <<route, readonly, visits, migrations, executing, dialog>>

Routes == {"migrations", "sql", "tools"}

Init ==
    /\ route \in Routes /\ readonly = FALSE /\ visits = 0
    /\ MigrationsInit
    /\ lists = [l \in Listings |-> IF l = 0 /\ route = "migrations" THEN Asked ELSE None]
    /\ ExecuteInit /\ DialogInit

LeaveAndReturn ==
    /\ visits < MaxVisits /\ visits' = visits + 1
    /\ Unmounted
    /\ IF route = "migrations" THEN RemountMigrations ELSE UNCHANGED migrations
    /\ RemountExecute
    /\ UNCHANGED <<route, readonly>>

\* The page that is up.
PageStep ==
    /\ \/ route = "migrations" /\ MigrationsNext(readonly) /\ UNCHANGED executing
       \/ route = "sql" /\ EditorNext(readonly) /\ UNCHANGED migrations
       \/ route = "tools" /\ RunnerNext /\ UNCHANGED migrations
       \/ DialogNext /\ UNCHANGED <<migrations, executing>>
    /\ UNCHANGED <<route, readonly, visits>>

\* What is under way, of a page that has been left, too.
RequestStep ==
    /\ \/ JobsNext /\ UNCHANGED executing
       \/ RunsNext /\ UNCHANGED migrations
    /\ UNCHANGED <<route, readonly, visits>>

\* The flag is polled, and has changed.
ReadonlyChanges ==
    /\ readonly' = ~readonly
    /\ UNCHANGED <<route, visits, migrations, executing, dialog>>

Next == PageStep \/ RequestStep \/ LeaveAndReturn \/ ReadonlyChanges

Spec == Init /\ [][Next]_vars

-----------------------------------------------------------------------------

TypeOK ==
    /\ route \in Routes /\ readonly \in BOOLEAN
    /\ asked \in {None} \cup (IF route = "migrations" THEN JobAsked ELSE ToolAsked)
    /\ grace \in {"off", "on", "dropped"} /\ confirming \in BOOLEAN
    /\ applied \subseteq Versions /\ job \in [Jobs -> {None} \cup Job]
    /\ lists \in [Listings -> {None, Asked} \cup SUBSET Versions]
    /\ listed = None \/ listed \subseteq Versions
    /\ selected \subseteq Versions
    /\ run \in [Runs -> {None} \cup Execution] /\ running \in BOOLEAN
    /\ activeTool \in Tools /\ outcomes \in [Tools -> Runs \cup {None}]
=============================================================================
