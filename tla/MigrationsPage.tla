--------------------------- MODULE MigrationsPage ---------------------------
(***************************************************************************)
(* The migrations page of the dashboard (routes/migrations.tsx with        *)
(* useMigrations, useMigrationContent and useRiskConfirm).  What the API   *)
(* does with a request is in module Migrations; here it runs at some time  *)
(* before it is answered.                                                  *)
(***************************************************************************)
EXTENDS ConfirmDialog, FiniteSets

CONSTANTS
    Versions,  \* the migrations that exist
    InitiallyApplied,
    Jobs,      \* bound: the requests to apply or revert, numbers from 1
    Asked, AllPending

ASSUME MigrationsPageAssumption == Jobs \subseteq Nat \ {0} /\ InitiallyApplied \subseteq Versions

\* A request to apply `versions`.
Job == [versions : {AllPending} \cup SUBSET Versions,
        state : {"sent", "ok", "failed", "listing", "done"}, mine : BOOLEAN]

\* What the dialog asks for.
JobAsked == [versions : {AllPending} \cup SUBSET Versions]

ASSUME NoneAssumption == None \notin Job \cup JobAsked \cup {Asked}

VARIABLES
    applied,     \* the database: the migrations that are applied
    job,         \* the requests to apply: a Job, or None
    lists,       \* the listings under way: what the API has read, Asked before, or None; 0 is the
                 \* page's own and j follows job j
    listed,      \* the migrations shown as applied, or None before the first listing
    loading, applying,
    selected,    \* the ticked migrations
    viewed,      \* the migration whose SQL is looked at, or None
    content,     \* the migration whose SQL is shown, or None
    loadingSql, sqlError,
    loads,       \* the migrations whose SQL is being read
    overtaken,   \* history: SQL of another migration than the viewed one has arrived
    left         \* history: the page was left while a request was under way

server == <<applied, job>>
listing == <<lists, listed, loading, applying, selected>>
reading == <<viewed, content, loadingSql, sqlError, loads, overtaken>>

Listings == {0} \cup Jobs
Unfinished == {j \in Jobs : job[j] # None /\ job[j].state # "done"}

MigrationsInit ==
    /\ applied = InitiallyApplied
    /\ job = [j \in Jobs |-> None]
    /\ listed = None /\ loading = TRUE /\ applying = FALSE /\ selected = {}
    /\ viewed = None /\ content = None /\ loadingSql = FALSE /\ sqlError = FALSE
    /\ loads = {} /\ overtaken = FALSE
    /\ left = FALSE

-----------------------------------------------------------------------------
(***************************************************************************)
(* The list.                                                               *)
(***************************************************************************)

\* refresh, also when the page comes up.
StartListing(l) ==
    /\ lists' = [lists EXCEPT ![l] = Asked]
    /\ loading' = TRUE

\* The button is disabled while the list is loading or a request runs.
ClickRefresh ==
    /\ ~loading /\ ~applying
    /\ StartListing(0)
    /\ UNCHANGED <<server, listed, applying, selected, reading, left, dialog>>

\* The API reads the ledger.
ReadLedger(l) ==
    /\ lists[l] = Asked
    /\ lists' = [lists EXCEPT ![l] = applied]
    /\ UNCHANGED <<server, listed, loading, applying, selected, reading, left, dialog>>

\* The action of job l is over with its listing.
JobEnds(l) ==
    IF l = 0 THEN UNCHANGED <<job, dialog>>
    ELSE job' = [job EXCEPT ![l].state = "done"] /\ Answered

\* Mutant of ShowList: what was ticked stays ticked.
ShowListKeepsTicks(l) ==
    /\ listed' = lists[l]
    /\ loading' = FALSE /\ applying' = FALSE
    /\ UNCHANGED selected

\* The answer replaces the whole state of the list: the ticks, and that a request runs, too.
ShowList(l) ==
    /\ listed' = lists[l]
    /\ loading' = FALSE /\ applying' = FALSE
    /\ selected' = {}

Listed(l) ==
    /\ lists[l] \notin {None, Asked}
    /\ ShowList(l)
    /\ lists' = [lists EXCEPT ![l] = None]
    /\ JobEnds(l)
    /\ UNCHANGED <<applied, reading, left>>

ListingFails(l) ==
    /\ lists[l] # None
    /\ lists' = [lists EXCEPT ![l] = None]
    /\ loading' = FALSE
    /\ JobEnds(l)
    /\ UNCHANGED <<applied, listed, applying, selected, reading, left>>

-----------------------------------------------------------------------------
(***************************************************************************)
(* Requests.                                                               *)
(***************************************************************************)

Pending == IF listed = None THEN {} ELSE Versions \ listed

Tick(s) ==
    /\ selected' = s
    /\ UNCHANGED <<server, lists, listed, loading, applying, reading, left, dialog>>

\* The checkbox of a pending migration.
ToggleSelection(v, readonly) ==
    /\ v \in Pending /\ ~readonly
    /\ Tick(IF v \in selected THEN selected \ {v} ELSE selected \cup {v})

SelectAll(readonly) ==
    /\ Pending # {} /\ ~readonly /\ ~applying
    /\ Tick(IF Pending \subseteq selected THEN {} ELSE Pending)

AskFor(versions) ==
    /\ ~applying
    /\ \E j \in Jobs : job[j] = None
    /\ AskByKey([versions |-> versions])
    /\ UNCHANGED <<server, listing, reading, left>>

\* "Apply selected", "Apply pending" and the button of a pending migration: what is asked
\* for is what the page has at the click.  The API decides itself what is pending when all
\* of it is asked for.
AskToApply(readonly) ==
    /\ ~readonly
    /\ \/ selected # {} /\ AskFor(selected)
       \/ Pending # {} /\ AskFor(AllPending)
       \/ \E v \in Pending : AskFor({v})

\* "Rerun" of an applied one.
AskToRerun(readonly) ==
    /\ ~readonly
    /\ listed # None
    /\ \E v \in listed : AskFor({v})

\* The grace is over: the request is sent.
Send ==
    /\ GraceEnds
    /\ \/ asked = None /\ UNCHANGED <<job, applying>>
       \/ /\ asked # None
          /\ \E j \in Jobs :
               /\ job[j] = None /\ \A k \in Jobs : job[k] = None => j <= k
               /\ job' = [job EXCEPT ![j] =
                            [versions |-> asked.versions, state |-> "sent", mine |-> TRUE]]
          /\ applying' = TRUE
    /\ UNCHANGED <<applied, lists, listed, loading, selected, reading, left>>

\* The API carries it out, or as much of it as it can: a rerun that fails may leave the
\* migration reverted.
Run(j) ==
    /\ job[j] # None /\ job[j].state = "sent"
    /\ LET versions == IF job[j].versions = AllPending THEN Versions \ applied ELSE job[j].versions
       IN  \/ /\ applied' = applied \cup versions
              /\ job' = [job EXCEPT ![j].state = "ok"]
           \/ /\ \E change \in SUBSET versions :
                   applied' = IF versions \subseteq applied THEN applied \ change
                              ELSE applied \cup change
              /\ job' = [job EXCEPT ![j].state = "failed"]
    /\ UNCHANGED <<listing, reading, left, dialog>>

\* Its answer arrives, or is lost.  A page that is still there lists the migrations again;
\* the errors are caught, so the dialog closes in any case.
RunAnswered(j) ==
    /\ job[j] # None /\ job[j].state \in {"ok", "failed"}
    /\ applying' = (applying /\ ~job[j].mine)
    /\ \/ /\ job[j].state = "ok" /\ job[j].mine
          /\ job' = [job EXCEPT ![j].state = "listing"]
          /\ selected' = {}
          /\ StartListing(j)
          /\ UNCHANGED dialog
       \/ /\ job' = [job EXCEPT ![j].state = "done"]
          /\ IF job[j].mine THEN Answered ELSE UNCHANGED dialog
          /\ UNCHANGED <<lists, loading, selected>>
    /\ UNCHANGED <<applied, listed, reading, left>>

-----------------------------------------------------------------------------
(***************************************************************************)
(* The SQL of a migration.                                                 *)
(***************************************************************************)

\* A click on a migration: another click on it closes it.
View(v) ==
    /\ PageIsFree /\ listed # None
    /\ IF viewed = v
         THEN /\ viewed' = None /\ content' = None /\ loadingSql' = FALSE
              /\ UNCHANGED loads
         ELSE /\ viewed' = v /\ loadingSql' = TRUE
              /\ loads' = loads \cup {v}
              /\ UNCHANGED content
    /\ sqlError' = FALSE
    /\ overtaken' = (overtaken /\ loads # {})
    /\ UNCHANGED <<server, listing, left, dialog>>

\* Mutant of LoadFails: what was shown stays.
LoadFailsKeeps == sqlError' = TRUE /\ UNCHANGED content

LoadFails == content' = None /\ sqlError' = TRUE

\* The SQL of v arrives, or the request fails.  Whichever arrives last is shown.
Loaded(v) ==
    /\ v \in loads
    /\ loads' = loads \ {v}
    /\ loadingSql' = FALSE
    /\ \/ content' = v /\ UNCHANGED sqlError
       \/ LoadFails
    /\ overtaken' = (overtaken \/ v # viewed)
    /\ UNCHANGED <<server, listing, viewed, left, dialog>>

-----------------------------------------------------------------------------

MigrationsNext(readonly) ==
    \/ ClickRefresh \/ SelectAll(readonly) \/ AskToApply(readonly) \/ AskToRerun(readonly) \/ Send
    \/ \E l \in Listings : ReadLedger(l) \/ Listed(l) \/ ListingFails(l)
    \/ \E v \in Versions : ToggleSelection(v, readonly) \/ View(v) \/ Loaded(v)

\* What goes on when the page is left.
JobsNext == \E j \in Jobs : Run(j) \/ RunAnswered(j)

\* The page is left and comes up again: what is under way at the API goes on.
RemountMigrations ==
    /\ lists' = [l \in Listings |-> IF l = 0 THEN Asked ELSE None]
    /\ listed' = None /\ loading' = TRUE /\ applying' = FALSE /\ selected' = {}
    /\ viewed' = None /\ content' = None /\ loadingSql' = FALSE /\ sqlError' = FALSE
    /\ loads' = {} /\ overtaken' = FALSE
    /\ job' = [j \in Jobs |->
                 IF j \in Unfinished
                   THEN [job[j] EXCEPT !.mine = FALSE,
                                       !.state = IF @ = "listing" THEN "done" ELSE @]
                   ELSE job[j]]
    /\ left' = (left \/ Unfinished # {})
    /\ UNCHANGED applied

-----------------------------------------------------------------------------

\* A page has one request under way at a time, unless it was left meanwhile
\* (migrations.tsx; useMigrations.ts:89-198; ConfirmDialog.tsx:76-84).
OneJobAtATime == left \/ Cardinality(Unfinished) <= 1

\* What "Apply selected" asks for is shown as pending (useMigrations.ts:72-79).
SelectionIsPending == selected \subseteq Pending

\* When nothing is loading, the SQL on the screen is that of the migration it is shown
\* under, unless the SQL of another one has arrived late (useMigrationContent.ts:15-36).
ContentOfSelection ==
    viewed # None /\ content # None /\ ~loadingSql => content = viewed \/ overtaken
=============================================================================
