----------------------------- MODULE Migrations -----------------------------
(***************************************************************************)
(* The dashboard's migration runner (web/packages/core/src/migrations.ts,  *)
(* web/apps/api/src/routes/migrations.ts): requests to apply the pending   *)
(* files, to apply chosen versions, or to re-run chosen versions, several  *)
(* of them at once, against one database and its schema_migrations table.  *)
(*                                                                         *)
(* A step is one query or file operation of one run.  Every file of a run  *)
(* is its own transaction; PostgreSQL runs them at READ COMMITTED, so a    *)
(* row another transaction has inserted or deleted makes a statement on it *)
(* wait until that transaction is over.                                    *)
(*                                                                         *)
(* A file whose up SQL has a BEGIN and a COMMIT of its own, as all that    *)
(* the repository ships have (web/apps/api/migrations/001_initial_schema   *)
(* .sql:25, :517), ends the run's transaction: what follows it, the INSERT *)
(* into schema_migrations among it, is committed statement by statement.   *)
(***************************************************************************)
EXTENDS Naturals, SchemaCache

CONSTANTS
    Files,       \* the migration files of the directory
    Version,     \* the number a file's name starts with
    HasDown,     \* the files that have a .down.sql
    OwnCommit,   \* the files whose up SQL ends with its own COMMIT
    Runs,        \* concurrent requests
    None         \* null / undefined

ASSUME VersionAssumption == Version \in [Files -> Nat]
ASSUME HasDownAssumption == HasDown \subseteq Files
ASSUME OwnCommitAssumption == OwnCommit \subseteq Files
ASSUME NoneAssumption == None \notin Files \cup Runs

VARIABLES
    ledger,    \* schema_migrations: the file whose name a version's row has
    effects,   \* how often a file's up SQL is in effect: not, once, over itself
    rowLock,   \* the run whose open transaction inserted or deleted a version's row
    cut,       \* the files a run failed with after their own COMMIT, before their row
    phase,     \* where each run is
    kind,      \* what it was asked to do
    force,     \* re-run even without a .down.sql
    todo,      \* the files it was asked for, then those it has still to go through
    file,      \* the file whose transaction is open
    readonly   \* the server refuses new runs

ledgerVars == <<ledger, effects, rowLock, cut>>
runVars == <<phase, kind, force, todo, file>>
vars == <<ledgerVars, runVars, readonly, cacheVars>>

Versions == {Version[f] : f \in Files}
Times == 0..2
Kind == {"pending", "selected", "rerun"}
Open == {"altering", "deleting", "waiting", "recreating", "inserting", "committing",
         "committed", "rollback"}
Phase == {"idle", "reading", "planned", "next"} \cup Open

TypeOK ==
    /\ ledger \in [Versions -> Files \cup {None}]
    /\ effects \in [Files -> Times]
    /\ rowLock \in [Versions -> Runs \cup {None}]
    /\ cut \subseteq Files
    /\ phase \in [Runs -> Phase]
    /\ kind \in [Runs -> Kind]
    /\ force \in [Runs -> BOOLEAN]
    /\ todo \in [Runs -> SUBSET Files]
    /\ file \in [Runs -> Files \cup {None}]
    /\ readonly \in BOOLEAN
    /\ CacheTypeOK

Init ==
    /\ ledger = [v \in Versions |-> None]
    /\ effects = [f \in Files |-> 0]
    /\ rowLock = [v \in Versions |-> None]
    /\ cut = {}
    /\ phase = [r \in Runs |-> "idle"]
    /\ kind = [r \in Runs |-> "pending"]
    /\ force = [r \in Runs |-> FALSE]
    /\ todo = [r \in Runs |-> {}]
    /\ file = [r \in Runs |-> None]
    /\ readonly = FALSE
    /\ CacheInit

-----------------------------------------------------------------------------

Applied(f) == ledger[Version[f]] # None

\* The row of the file a run is working on.
Row(r) == Version[file[r]]

\* The run's file ends the transaction it runs in.
Own(r) == file[r] \in OwnCommit

GoTo(r, p) == phase' = [phase EXCEPT ![r] = p]

\* A run's request is answered.
Leave(r) ==
    /\ phase' = [phase EXCEPT ![r] = "idle"]
    /\ kind' = [kind EXCEPT ![r] = "pending"]
    /\ force' = [force EXCEPT ![r] = FALSE]
    /\ todo' = [todo EXCEPT ![r] = {}]
    /\ file' = [file EXCEPT ![r] = None]

\* Mutant of IsNext: the files are not sorted.
IsAny(r, f) == f \in todo[r]

\* The lower versions first, for a re-run the higher ones.
IsNext(r, f) ==
    /\ f \in todo[r]
    /\ \A g \in todo[r] : IF kind[r] = "rerun" THEN Version[g] <= Version[f]
                                               ELSE Version[f] <= Version[g]

-----------------------------------------------------------------------------
(***************************************************************************)
(* A request comes, reads what there is, and decides what to do.           *)
(***************************************************************************)

\* The route looks at the read-only switch once, here.  A file stands for a version
\* asked for; of two files with one version fileByVersion keeps either.
StartRun(r) ==
    /\ phase[r] = "idle"
    /\ ~readonly
    /\ GoTo(r, "reading")
    /\ \E k \in Kind, S \in SUBSET Files, b \in BOOLEAN :
         /\ k = "pending" <=> S = {}
         /\ \A f, g \in S : Version[f] = Version[g] => f = g
         /\ b => k = "rerun"
         /\ kind' = [kind EXCEPT ![r] = k]
         /\ force' = [force EXCEPT ![r] = b]
         /\ todo' = [todo EXCEPT ![r] = S]
    /\ UNCHANGED <<ledgerVars, file, readonly, cacheVars>>

\* What the checks after reading schema_migrations let through.
Admitted(r) ==
    CASE kind[r] = "pending" -> \E f \in Files : ~Applied(f)
      [] kind[r] = "selected" -> \A f \in todo[r] : ~Applied(f)
      [] kind[r] = "rerun" -> /\ \A f \in todo[r] : Applied(f)
                              /\ force[r] \/ todo[r] \subseteq HasDown

\* The applied versions are read, without a lock: the plan is made from them.
Plan(r) ==
    /\ phase[r] = "reading"
    /\ Admitted(r)
    /\ GoTo(r, "planned")
    /\ todo' = [todo EXCEPT ![r] = IF kind[r] = "pending" THEN {f \in Files : ~Applied(f)}
                                                          ELSE todo[r]]
    /\ UNCHANGED <<ledgerVars, kind, force, file, readonly, cacheVars>>

\* Nothing to do, a check fails, a version is unknown, or a query fails.
Refuse(r) ==
    /\ phase[r] = "reading"
    /\ Leave(r)
    /\ UNCHANGED <<ledgerVars, readonly, cacheVars>>

\* The snapshot is taken, or skipped when it fails; then a client is checked out.
Snapshot(r) ==
    /\ phase[r] = "planned"
    /\ GoTo(r, "next")
    /\ UNCHANGED <<ledgerVars, kind, force, todo, file, readonly, cacheVars>>

-----------------------------------------------------------------------------
(***************************************************************************)
(* One transaction per file.                                               *)
(***************************************************************************)

Begin(r) ==
    /\ phase[r] = "next"
    /\ \E f \in Files : IsNext(r, f) /\ file' = [file EXCEPT ![r] = f]
    /\ GoTo(r, "altering")
    /\ UNCHANGED <<ledgerVars, kind, force, todo, readonly, cacheVars>>

\* No client to be had, a file that cannot be read or is empty, BEGIN fails.
GiveUp(r) ==
    /\ phase[r] \in {"planned", "next"}
    /\ Leave(r)
    /\ UNCHANGED <<ledgerVars, readonly, cacheVars>>

\* Mutant of EffectsAfter: every run of the up SQL adds to what is there.
EffectsAlwaysAdd(r) == effects[file[r]] + 1

\* How often the file is in effect once its up SQL is committed: it runs over what is
\* there, unless the down SQL has undone it.
EffectsAfter(r) ==
    IF (kind[r] = "rerun" /\ file[r] \in HasDown) \/ effects[file[r]] = 0 THEN 1 ELSE 2

\* The up SQL of a file being applied; the down SQL, if any, of one being re-run.
Alter(r) ==
    /\ phase[r] = "altering"
    /\ kind[r] = "rerun" \/ ~Own(r)
    /\ GoTo(r, IF kind[r] = "rerun" THEN "deleting" ELSE "inserting")
    /\ UNCHANGED <<ledgerVars, kind, force, todo, file, readonly, cacheVars>>

\* The up SQL of a file being applied commits itself: in effect, and not recorded.
AlterAndCommit(r) ==
    /\ phase[r] = "altering" /\ kind[r] # "rerun" /\ Own(r)
    /\ effects' = [effects EXCEPT ![file[r]] = EffectsAfter(r)]
    /\ GoTo(r, "inserting")
    /\ StructureChanges
    /\ UNCHANGED <<ledger, rowLock, cut, kind, force, todo, file, readonly>>

\* Mutant of Delete: the row is deleted outside the transaction.
DeleteAtOnce(r) ==
    /\ phase[r] \in {"deleting", "waiting"}
    /\ rowLock[Row(r)] = None
    /\ rowLock' = [rowLock EXCEPT ![Row(r)] = r]
    /\ ledger' = [ledger EXCEPT ![Row(r)] = None]
    /\ GoTo(r, "recreating")
    /\ UNCHANGED <<effects, cut, kind, force, todo, file, readonly, cacheVars>>

\* DELETE of the version's row, also after waiting for a transaction that was undone; a
\* row that is gone by then is not locked.
Delete(r) ==
    /\ phase[r] \in {"deleting", "waiting"}
    /\ rowLock[Row(r)] = None
    /\ rowLock' = [rowLock EXCEPT ![Row(r)] = IF Applied(file[r]) THEN r ELSE None]
    /\ GoTo(r, "recreating")
    /\ UNCHANGED <<ledger, effects, cut, kind, force, todo, file, readonly, cacheVars>>

\* The row is being deleted by another run: the statement waits for it.
DeleteWaits(r) ==
    /\ phase[r] = "deleting"
    /\ rowLock[Row(r)] # None
    /\ GoTo(r, "waiting")
    /\ UNCHANGED <<ledgerVars, kind, force, todo, file, readonly, cacheVars>>

\* A version's row is free again: a DELETE that waited for it finds it gone.
ReleaseRow(r, p) ==
    /\ rowLock' = [v \in Versions |-> IF rowLock[v] = r THEN None ELSE rowLock[v]]
    /\ phase' = [q \in Runs |->
                   IF q = r THEN p
                   ELSE IF phase[q] = "waiting" /\ rowLock[Row(q)] = r THEN "recreating"
                   ELSE phase[q]]

\* The up SQL of a file being re-run.
Recreate(r) ==
    /\ phase[r] = "recreating" /\ ~Own(r)
    /\ GoTo(r, "inserting")
    /\ UNCHANGED <<ledgerVars, kind, force, todo, file, readonly, cacheVars>>

\* The up SQL of a file being re-run commits itself, the down SQL and the DELETE: the
\* file is in effect, and its row gone.
RecreateAndCommit(r) ==
    /\ phase[r] = "recreating" /\ Own(r)
    /\ ledger' = [v \in Versions |-> IF rowLock[v] = r THEN None ELSE ledger[v]]
    /\ effects' = [effects EXCEPT ![file[r]] = EffectsAfter(r)]
    /\ ReleaseRow(r, "inserting")
    /\ StructureChanges
    /\ UNCHANGED <<cut, kind, force, todo, file, readonly>>

\* Mutant of Insert: ON CONFLICT DO NOTHING.
InsertOrKeep(r) ==
    /\ phase[r] = "inserting" /\ ~Own(r)
    /\ rowLock[Row(r)] \in {None, r}
    /\ rowLock' = [rowLock EXCEPT ![Row(r)] = r]
    /\ GoTo(r, "committing")
    /\ UNCHANGED <<ledger, effects, cut, kind, force, todo, file, readonly, cacheVars>>

\* INSERT, which waits while another run holds the row ...
Insert(r) ==
    /\ phase[r] = "inserting" /\ ~Own(r)
    /\ \/ rowLock[Row(r)] = r
       \/ rowLock[Row(r)] = None /\ ~Applied(file[r])
    /\ rowLock' = [rowLock EXCEPT ![Row(r)] = r]
    /\ GoTo(r, "committing")
    /\ UNCHANGED <<ledger, effects, cut, kind, force, todo, file, readonly, cacheVars>>

\* ... outside any transaction, if the file has ended it ...
InsertAtOnce(r) ==
    /\ phase[r] = "inserting" /\ Own(r)
    /\ rowLock[Row(r)] = None /\ ~Applied(file[r])
    /\ ledger' = [ledger EXCEPT ![Row(r)] = file[r]]
    /\ cut' = cut \ {file[r]}
    /\ GoTo(r, "committing")
    /\ UNCHANGED <<effects, rowLock, kind, force, todo, file, readonly, cacheVars>>

\* What a run that fails leaves behind: a file that has committed itself stays in effect,
\* and nobody throws the cache away.
LeaveBehind(r) ==
    IF Own(r) /\ phase[r] \in {"inserting", "committing"}
    THEN /\ cut' = cut \cup (IF phase[r] = "inserting" THEN {file[r]} ELSE {})
         /\ ChangeUnnoticed
    ELSE UNCHANGED <<cut, cacheVars>>

\* ... and violates the primary key when the row is there.
InsertConflict(r) ==
    /\ phase[r] = "inserting"
    /\ rowLock[Row(r)] = None /\ Applied(file[r])
    /\ GoTo(r, "rollback")
    /\ LeaveBehind(r)
    /\ UNCHANGED <<ledger, effects, rowLock, kind, force, todo, file, readonly>>

\* Any statement can fail: the SQL itself, a deadlock over the tables it alters, a
\* timeout, the connection.
StatementFails(r) ==
    /\ phase[r] \in {"altering", "deleting", "waiting", "recreating", "inserting", "committing"}
    /\ GoTo(r, "rollback")
    /\ LeaveBehind(r)
    /\ UNCHANGED <<ledger, effects, rowLock, kind, force, todo, file, readonly>>

\* PostgreSQL commits.  The row a waiting DELETE was after is gone: it deletes nothing.
Commit(r) ==
    /\ phase[r] = "committing" /\ ~Own(r)
    /\ ledger' = [ledger EXCEPT ![Row(r)] = file[r]]
    /\ effects' = [effects EXCEPT ![file[r]] = EffectsAfter(r)]
    /\ ReleaseRow(r, "committed")
    /\ StructureChanges
    /\ UNCHANGED <<cut, kind, force, todo, file, readonly>>

\* COMMIT after the file's own: there is no transaction to end, which is no error.
CommitNothing(r) ==
    /\ phase[r] = "committing" /\ Own(r)
    /\ GoTo(r, "committed")
    /\ UNCHANGED <<ledgerVars, kind, force, todo, file, readonly, cacheVars>>

\* Mutant of Answered: the schema cache is kept.
AnsweredKeepsCache(r) ==
    /\ phase[r] = "committed"
    /\ \/ /\ todo[r] # {file[r]}
          /\ GoTo(r, "next")
          /\ todo' = [todo EXCEPT ![r] = todo[r] \ {file[r]}]
          /\ file' = [file EXCEPT ![r] = None]
          /\ UNCHANGED <<kind, force>>
       \/ /\ todo[r] = {file[r]}
          /\ Leave(r)
    /\ UNCHANGED <<ledgerVars, readonly, cacheVars>>

\* The run learns that its COMMIT succeeded: the next file, if there is one.
Answered(r) ==
    /\ phase[r] = "committed"
    /\ Invalidate
    /\ \/ /\ todo[r] # {file[r]}
          /\ GoTo(r, "next")
          /\ todo' = [todo EXCEPT ![r] = todo[r] \ {file[r]}]
          /\ file' = [file EXCEPT ![r] = None]
          /\ UNCHANGED <<kind, force>>
       \/ /\ todo[r] = {file[r]}
          /\ Leave(r)
    /\ UNCHANGED <<ledgerVars, readonly>>

\* The connection is lost before COMMIT is answered: the run takes it for a failure.
AnswerLost(r) ==
    /\ phase[r] = "committed"
    /\ GoTo(r, "rollback")
    /\ ChangeUnnoticed
    /\ UNCHANGED <<ledgerVars, kind, force, todo, file, readonly>>

\* Mutant of RollBack: the file that failed is tried again, as often as it takes.
RollBackAndRetry(r) ==
    /\ phase[r] = "rollback"
    /\ rowLock' = [v \in Versions |-> IF rowLock[v] = r THEN None ELSE rowLock[v]]
    /\ GoTo(r, "next")
    /\ file' = [file EXCEPT ![r] = None]
    /\ UNCHANGED <<ledger, effects, cut, kind, force, todo, readonly, cacheVars>>

\* ROLLBACK, and the run ends with an error: the files after this one are not tried.
RollBack(r) ==
    /\ phase[r] = "rollback"
    /\ rowLock' = [v \in Versions |-> IF rowLock[v] = r THEN None ELSE rowLock[v]]
    /\ Leave(r)
    /\ UNCHANGED <<ledger, effects, cut, readonly, cacheVars>>

-----------------------------------------------------------------------------

\* POST /config/readonly.
SwitchReadonly ==
    /\ readonly' = ~readonly
    /\ UNCHANGED <<ledgerVars, runVars, cacheVars>>

\* The server dies and starts again: PostgreSQL undoes the open transactions.
Crash ==
    /\ phase' = [r \in Runs |-> "idle"]
    /\ kind' = [r \in Runs |-> "pending"]
    /\ force' = [r \in Runs |-> FALSE]
    /\ todo' = [r \in Runs |-> {}]
    /\ file' = [r \in Runs |-> None]
    /\ rowLock' = [v \in Versions |-> None]
    /\ cut' = cut \cup {file[r] : r \in {q \in Runs : Own(q) /\ phase[q] = "inserting"}}
    /\ readonly' = FALSE
    /\ CacheLost
    /\ UNCHANGED <<ledger, effects>>

\* What a run does when nothing goes wrong, and the end of one that went wrong.
Step(r) ==
    \/ Plan(r) \/ Refuse(r) \/ Snapshot(r)
    \/ Begin(r) \/ Alter(r) \/ AlterAndCommit(r) \/ Delete(r) \/ DeleteWaits(r)
    \/ Recreate(r) \/ RecreateAndCommit(r) \/ Insert(r) \/ InsertAtOnce(r)
    \/ InsertConflict(r) \/ Commit(r) \/ CommitNothing(r) \/ Answered(r) \/ RollBack(r)

Mishap(r) == GiveUp(r) \/ StatementFails(r) \/ AnswerLost(r)

Next ==
    \/ \E r \in Runs : StartRun(r) \/ Step(r) \/ Mishap(r)
    \/ Reading /\ UNCHANGED <<ledgerVars, runVars, readonly>>
    \/ SwitchReadonly
    \/ Crash

Spec == Init /\ [][Next]_vars

\* Every query is answered in the end; a statement that waits for a row is granted it
\* when the row is free again and again, as PostgreSQL queues those that wait.
FairSpec == Spec /\ \A r \in Runs : SF_vars(Step(r))

-----------------------------------------------------------------------------
(***************************************************************************)
(* Safety.                                                                 *)
(***************************************************************************)

\* A file is in effect and has no row: its own COMMIT was before the INSERT, and the run
\* is between the two or came to its end there.
Ahead(f) == f \in OwnCommit /\ (f \in cut \/ \E r \in Runs : file[r] = f /\ phase[r] = "inserting")

\* When no two files share a version, schema_migrations and the database agree, whatever
\* runs overlap, fail, lose an answer or die: a file has its own row, a recorded file is in
\* effect, and one in effect is recorded, except where its own COMMIT has put it ahead.  A
\* file without its own COMMIT is in effect over itself only where a re-run without down
\* SQL was forced.
LedgerMatchesSchema ==
    \A f \in Files :
        /\ ledger[Version[f]] \in {None, f}
        /\ Applied(f) => effects[f] # 0
        /\ effects[f] # 0 => Applied(f) \/ Ahead(f)
        /\ f \in HasDown \ OwnCommit => effects[f] <= 1

\* Some file of a version is in effect.
InEffect(v) == \E f \in Files : Version[f] = v /\ effects[f] # 0

\* In this step the run's file takes effect.
TakesEffect(r) ==
    \/ phase[r] = "committing" /\ phase'[r] = "committed" /\ ~Own(r)
    \/ phase[r] = "altering" /\ phase'[r] = "inserting" /\ Own(r)

\* Applying the pending files never gets ahead of itself: it puts a file into effect only
\* over every lower version, although it read schema_migrations long before, and other
\* runs have applied, re-run and failed files, and have taken rows away, since.
PendingInOrder ==
    [][\A r \in Runs :
         TakesEffect(r) /\ kind[r] = "pending" =>
             \A g \in Files : Version[g] < Row(r) => InEffect(Version[g])]_vars

\* A version's row goes only in the COMMIT that a file being re-run has of its own, which
\* commits the DELETE before it: no failure, lost answer or crash takes it, and the re-run
\* of a file that leaves the transaction to the runner never shows it gone.
RecordsAreKept ==
    [][\A v \in Versions :
         ledger[v] # None /\ ledger'[v] = None =>
             \E r \in Runs : /\ Own(r) /\ kind[r] = "rerun" /\ Row(r) = v
                            /\ phase[r] = "recreating" /\ phase'[r] = "inserting"]_vars

\* Each run, with its plan, its transactions and what can go wrong in between, is to the
\* database the one step after the other that MigrationLedger has (migrations.ts:158-200,
\* :306-345), when no two files share a version.
Recorded == {f \in Files : ledger[Version[f]] = f}

Ledger == INSTANCE MigrationLedger WITH recorded <- Recorded, times <- effects

ImplementsLedger == Ledger!Spec

\* Of all the runs that race for a version's row in a transaction at most one gets to its
\* COMMIT, and not while the row it inserts is there already, unless it has deleted it.
OneWinner ==
    /\ \A r, q \in Runs :
         /\ phase[r] = "committing" /\ phase[q] = "committing" /\ Row(r) = Row(q)
         /\ ~Own(r) /\ ~Own(q)
         => r = q
    /\ \A r \in Runs :
         phase[r] = "committing" /\ kind[r] # "rerun" /\ ~Own(r) => ~Applied(file[r])

\* A run whose COMMIT, or whose file's own, is done, and not yet answered.
Committed(r) ==
    phase[r] = "committed" \/ (Own(r) /\ phase[r] \in {"inserting", "committing"})

\* The cache is behind the database only between a COMMIT and its answer, unless a load
\* was overtaken by the change, or the run failed after the change.
CacheFollowsCommits == cache = "outdated" => \E r \in Runs : Committed(r)

(***************************************************************************)
(* Liveness.                                                               *)
(***************************************************************************)

\* No run is left waiting for ever for the row of another: each one ends.
EveryRunEnds == \A r \in Runs : phase[r] # "idle" ~> phase[r] = "idle"

(***************************************************************************)
(* What the code does not ensure.                                          *)
(***************************************************************************)

\* web/apps/api/migrations/README.md:54: the endpoint applies "all pending migrations
\* in order"; line 53: the list has each file's "applied status".  With two files of
\* one version the list says of both that they are applied once one is, and the other
\* is never pending again.
AppliedMeansRun ==
    (\A r \in Runs : phase[r] = "idle") =>
        \A f \in Files : Applied(f) => effects[f] # 0

\* web/apps/api/migrations/README.md:67: "applied migrations are tracked in
\* schema_migrations and skipped on re-apply".  A file that commits itself and whose run
\* fails before the INSERT is not tracked, and is run again with the next apply; two runs
\* at once both run it.
AppliedIsTracked ==
    (\A r \in Runs : phase[r] = "idle") =>
        \A f \in Files : effects[f] # 0 => Applied(f)

\* migrations.ts:188, :256, :333: the cache is thrown away once a file has been applied,
\* and not when the run fails after the file's own COMMIT.
CacheFollowsOwnCommits == cache # "unnoticed"
=============================================================================
