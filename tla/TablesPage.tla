----------------------------- MODULE TablesPage -----------------------------
(***************************************************************************)
(* The table browser of the dashboard (routes/tables.tsx with              *)
(* useTableData, useTableMutations and the confirm dialog): rows are shown *)
(* page by page out of the query cache, ticked and edited by their place   *)
(* on the page, and written by their key.                                  *)
(*                                                                         *)
(* A row is its primary key, a number: the rows are ordered by it, in the  *)
(* one direction or the other.  The same key occurs in several tables.     *)
(* Effects of React run before the next event and are part of the step     *)
(* that causes them, but for the one that corrects the page.               *)
(***************************************************************************)
EXTENDS ConfirmDialog, FiniteSets, Functions, Sequences

CONSTANTS
    Tables, First,  \* the tables, and the one that is shown first
    Initially,      \* how many rows a table has at first
    MaxRows,        \* bound: how many rows are ever inserted into a table
    PageSize,
    MaxMoves,       \* bound: how often the user goes to other rows
    MaxAsks,        \* bound: how often the dialog is opened
    MaxUpsets       \* bound: how often another program writes a row, or a read fails

ASSUME TablesPageAssumption ==
    /\ First \in Tables
    /\ Initially \in [Tables -> Nat] /\ MaxRows \in [Tables -> Nat]
    /\ \A t \in Tables : Initially[t] <= MaxRows[t]
    /\ PageSize \in Nat \ {0} /\ {MaxMoves, MaxAsks, MaxUpsets} \subseteq Nat

VARIABLES
    rows,       \* the keys of the rows of a table
    inserted,   \* how many rows a table has ever had
    readonly,   \* the read-only flag, as the page knows it
    active, page, order,
    cache,      \* the query cache: what was last read for <<table, page, order>>, or None
    inflight,   \* the reads under way
    shown,      \* the rows on the screen: those of the cache, or what was shown before
    selected,   \* the places of the ticked rows
    editing,    \* the place of the row whose cell is being edited, or None
    work,       \* the rows a confirmed request still has to write, or None
    meant,      \* history: the rows the user has ticked, by their places; None for one of
                \* another table, and for one into whose place another row has come
    begun,      \* history: the row whose cell the user has begun to edit, or None likewise
    moves, asks, upsets

database == <<rows, inserted, upsets>>
place == <<active, page, order, moves>>
marks == <<selected, editing>>
history == <<meant, begun>>
request == <<work, asks>>
vars == <<database, readonly, place, cache, inflight, shown, marks, history, request, dialog>>

Orders == {"asc", "desc"}
Pages == UNION {0..MaxRows[t] : t \in Tables}
Keys == Tables \X Pages \X Orders

current == <<active, page, order>>

\* A read that fails is kept as one that has found nothing.
Nothing(key) == [key |-> key, rows |-> <<>>, total |-> 0]

\* What db_find_many answers: a page of the rows, and how many there are.
Answer(key) ==
    LET table == rows[key[1]]
        Before(k) == {l \in table : IF key[3] = "asc" THEN l < k ELSE k < l}
        skip == key[2] * PageSize
    IN  [key |-> key,
         rows |-> [i \in {i \in 1..PageSize : skip + i <= Cardinality(table)} |->
                     CHOOSE k \in table : Cardinality(Before(k)) = skip + i - 1],
         total |-> Cardinality(table)]

PageCount(answer) ==
    IF answer = None \/ answer.total = 0 THEN 1 ELSE (answer.total - 1) \div PageSize + 1

\* The page is one of the pages the shown answer has.
Settled == page + 1 <= PageCount(shown)

OnScreen == IF shown = None THEN <<>> ELSE shown.rows

TablesInit ==
    /\ rows = [t \in Tables |-> 1..Initially[t]]
    /\ inserted = Initially
    /\ upsets = 0 /\ readonly = FALSE
    /\ active = First /\ page = 0 /\ order = "asc" /\ moves = 0
    /\ cache = [k \in Keys |-> None]
    /\ inflight = {<<First, 0, "asc">>}
    /\ shown = None
    /\ selected = {} /\ editing = None
    /\ meant = <<>> /\ begun = None
    /\ work = None /\ asks = 0
    /\ DialogInit

TypeOK ==
    /\ \A t \in Tables : rows[t] \subseteq 1..inserted[t] /\ inserted[t] \in Initially[t]..MaxRows[t]
    /\ current \in Keys /\ inflight \subseteq Keys
    /\ selected \subseteq 1..PageSize /\ editing \in {None} \cup 1..PageSize
    /\ \A k \in Keys : cache[k] # None => cache[k].key = k
    /\ grace \in {"off", "on", "dropped"} /\ confirming \in BOOLEAN

-----------------------------------------------------------------------------
(***************************************************************************)
(* What is shown.                                                          *)
(***************************************************************************)

\* The rows of `key` are shown if they are cached, and else what was shown before; they
\* are read, if they are not cached or what is cached is old.
Look(key, before) ==
    /\ shown' = IF cache[key] # None THEN cache[key] ELSE before
    /\ \E again \in IF cache[key] # None THEN BOOLEAN ELSE {TRUE} :
         inflight' = IF again THEN inflight \cup {key} ELSE inflight

\* The effect on [active, page, orderBy].
ResetMarks ==
    /\ selected' = {} /\ editing' = None
    /\ meant' = <<>> /\ begun' = None

Move ==
    /\ moves < MaxMoves /\ moves' = moves + 1
    /\ ResetMarks
    /\ UNCHANGED <<database, readonly, cache, request, dialog>>

\* The user takes up another table.  It is first looked at on the page and in the order of
\* the last one; the effects go to its first page - or, if that page of it is known and
\* beyond its end, to its last one.
ShowTable(t) ==
    LET stray == <<t, page, order>>
        seen == IF cache[stray] # None THEN cache[stray] ELSE shown
    IN  /\ PageIsFree /\ Settled
        /\ t # active
        /\ active' = t
        /\ order' = "asc"
        /\ page' = IF page + 1 > PageCount(seen) THEN PageCount(seen) - 1 ELSE 0
        /\ LET key == <<t, page', "asc">>
           IN  /\ shown' = IF cache[key] # None THEN cache[key] ELSE seen
               /\ inflight' = inflight \cup {k \in {stray, key} : cache[k] = None}
        /\ Move

GoToPage(p) ==
    /\ PageIsFree /\ Settled
    /\ shown # None /\ p # page /\ p \in 0..(PageCount(shown) - 1)
    /\ page' = p
    /\ Look(<<active, p, order>>, shown)
    /\ UNCHANGED <<active, order>>
    /\ Move

\* A click on the header of the key column.
ToggleSort ==
    /\ PageIsFree /\ Settled
    /\ shown # None
    /\ page' = 0
    /\ order' = IF order = "asc" THEN "desc" ELSE "asc"
    /\ Look(<<active, 0, order'>>, shown)
    /\ UNCHANGED active
    /\ Move

LastPage == PageCount(shown) - 1

\* The effect that corrects a page beyond the last one.
Correct ==
    /\ ~Settled
    /\ page' = LastPage
    /\ Look(<<active, page', order>>, shown)
    /\ ResetMarks
    /\ UNCHANGED <<database, readonly, active, order, moves, cache, request, dialog>>

\* The shown rows are read again: a change is reported, the window gets the focus, or the
\* button is pressed.
Refetch ==
    /\ Settled
    /\ current \notin inflight
    /\ inflight' = inflight \cup {current}
    /\ UNCHANGED <<database, readonly, place, cache, shown, marks, history, request, dialog>>

Upset == upsets < MaxUpsets /\ upsets' = upsets + 1

\* What the user means by a place, unless another row has come there.
Still(row, i) ==
    IF row # None /\ i \in DOMAIN shown'.rows /\ row # <<shown'.key[1], shown'.rows[i]>>
      THEN None ELSE row

\* Rows arrive, or the read fails.  They are shown if the page still asks for them.
Arrive(key) ==
    /\ Settled
    /\ key \in inflight
    /\ inflight' = inflight \ {key}
    /\ \E answer \in {Answer(key), Nothing(key)} :
         /\ IF answer = Answer(key) THEN UNCHANGED upsets ELSE Upset
         /\ cache' = [cache EXCEPT ![key] = answer]
         /\ shown' = IF key = current THEN answer ELSE shown
    /\ meant' = [i \in DOMAIN meant |-> Still(meant[i], i)]
    /\ begun' = Still(begun, editing)
    /\ UNCHANGED <<rows, inserted, readonly, place, marks, request, dialog>>

-----------------------------------------------------------------------------
(***************************************************************************)
(* Ticks and edits.                                                        *)
(***************************************************************************)

\* The row at a place, as the user takes it.
RowAt(i) == IF shown.key[1] = active THEN <<active, shown.rows[i]>> ELSE None

Mark == UNCHANGED <<database, readonly, place, cache, inflight, shown, request, dialog>>

\* The checkbox of a row.  A place that is ticked and whose row has changed is unticked
\* with what the user has ticked there before.
ToggleRow(i) ==
    /\ PageIsFree /\ Settled /\ ~readonly /\ editing = None
    /\ i \in DOMAIN OnScreen
    /\ selected' = IF i \in selected THEN selected \ {i} ELSE selected \cup {i}
    /\ meant' = [j \in selected' |-> IF j \in selected THEN meant[j] ELSE RowAt(j)]
    /\ UNCHANGED <<editing, begun>>
    /\ Mark

ToggleAll ==
    /\ PageIsFree /\ Settled /\ ~readonly /\ editing = None
    /\ shown # None
    /\ LET all == shown.rows # <<>> /\ Cardinality(selected) = Len(shown.rows)
       IN  selected' = IF all THEN {} ELSE DOMAIN shown.rows
    /\ meant' = [i \in selected' |-> RowAt(i)]
    /\ UNCHANGED <<editing, begun>>
    /\ Mark

\* A click on a cell; the ticks stay.
StartEdit(i) ==
    /\ PageIsFree /\ Settled /\ ~readonly /\ editing = None
    /\ i \in DOMAIN OnScreen
    /\ editing' = i
    /\ begun' = RowAt(i)
    /\ UNCHANGED <<selected, meant>>
    /\ Mark

\* Escape, or a click elsewhere.
CancelEdit ==
    /\ editing # None
    /\ editing' = None /\ begun' = None
    /\ UNCHANGED <<selected, meant>>
    /\ Mark

\* A request to write the rows that are at these places now is put before the user.
\* History: how many rows the table had ever had then.
AskFor(kind, places) ==
    /\ asks < MaxAsks /\ asks' = asks + 1
    /\ Ask([kind |-> kind, table |-> active, keys |-> [i \in places |-> shown.rows[i]],
            known |-> inserted[active]])
    /\ UNCHANGED <<database, readonly, place, cache, inflight, shown, work>>

\* Enter, with another text than the row has now.  The focus goes to the dialog.
SubmitEdit ==
    /\ Settled
    /\ editing # None /\ editing \in DOMAIN OnScreen
    /\ AskFor("update", {editing})
    /\ editing' = None /\ begun' = None
    /\ UNCHANGED <<selected, meant>>

\* Mutant of Ticked: the places are taken for numbers from zero.
TickedShifted == {i \in DOMAIN OnScreen : i - 1 \in selected}

\* The ticked places that have rows now.
Ticked == {i \in DOMAIN OnScreen : i \in selected}

OpenDeleteConfirm ==
    /\ Settled /\ ~readonly /\ editing = None
    /\ selected # {} /\ shown # None
    /\ AskFor("delete", Ticked)
    /\ UNCHANGED <<marks, history>>

-----------------------------------------------------------------------------
(***************************************************************************)
(* The writes.                                                             *)
(***************************************************************************)

\* The grace is over, and the request is carried out.  (One that goes on from a page the
\* user has left is waited for: a bound.)
RunConfirm ==
    /\ Settled
    /\ asked # None => work = None
    /\ GraceEnds
    /\ work' = IF asked # None
                 THEN [request |-> asked, left |-> DOMAIN asked.keys, mine |-> TRUE] ELSE work
    /\ UNCHANGED <<database, readonly, place, cache, inflight, shown, marks, history, asks>>

working == work # None /\ work.left # {}

\* The rows are written in the order they had on the screen.
upcoming == CHOOSE i \in work.left : \A j \in work.left : i <= j

\* The rows of the table are read again if they are shown.
Invalidate(t) ==
    inflight' = IF t = active THEN inflight \cup {current} ELSE inflight

Effect == IF work.request.kind = "delete"
            THEN [rows EXCEPT ![work.request.table] = @ \ {work.request.keys[upcoming]}]
            ELSE rows

\* A row is written.  That it does not exist any more is no error.
Write ==
    /\ Settled
    /\ working
    /\ rows' = Effect
    /\ Invalidate(work.request.table)
    /\ work' = [work EXCEPT !.left = @ \ {upcoming}]
    /\ UNCHANGED <<inserted, upsets, readonly, place, cache, shown, marks, history, asks, dialog>>

\* Mutant of AfterFailure: the next row is written.
GoOn == work' = [work EXCEPT !.left = @ \ {upcoming}] /\ UNCHANGED dialog

\* The loop ends with the first failure; the dialog can be confirmed again then.
AfterFailure ==
    /\ work' = None
    /\ IF work.mine THEN StaysOpen ELSE UNCHANGED dialog

\* The tool refuses the write, or it is done and its answer is lost.
WriteFails ==
    /\ Settled
    /\ working
    /\ rows' \in {rows, Effect}
    /\ AfterFailure
    /\ UNCHANGED <<inserted, upsets, readonly, place, cache, inflight, shown, marks, history,
                   asks>>

\* Every row is written: the ticks are taken away, and the message is shown.
Finish ==
    /\ Settled
    /\ work # None /\ ~working
    /\ work' = None
    /\ IF work.mine
         THEN /\ Answered
              /\ IF work.request.kind = "delete"
                   THEN selected' = {} /\ meant' = <<>>
                   ELSE UNCHANGED <<selected, meant>>
         ELSE UNCHANGED <<dialog, selected, meant>>
    /\ UNCHANGED <<database, readonly, place, cache, inflight, shown, editing, begun, asks>>

\* The user leaves the page and comes back: what is under way goes on.
LeaveAndReturn ==
    /\ Settled
    /\ moves < MaxMoves /\ moves' = moves + 1
    /\ active' = First /\ page' = 0 /\ order' = "asc"
    /\ Look(<<First, 0, "asc">>, None)
    /\ ResetMarks
    /\ Unmounted
    /\ work' = IF work = None THEN None ELSE [work EXCEPT !.mine = FALSE]
    /\ UNCHANGED <<database, readonly, cache, asks>>

-----------------------------------------------------------------------------
(***************************************************************************)
(* Other programs, and the read-only flag.                                 *)
(***************************************************************************)

Insert(t) ==
    /\ Upset
    /\ inserted[t] < MaxRows[t]
    /\ inserted' = [inserted EXCEPT ![t] = @ + 1]
    /\ rows' = [rows EXCEPT ![t] = @ \cup {inserted'[t]}]
    /\ UNCHANGED <<readonly, place, cache, inflight, shown, marks, history, request, dialog>>

Delete(t) ==
    /\ Upset
    /\ \E k \in rows[t] : rows' = [rows EXCEPT ![t] = @ \ {k}]
    /\ UNCHANGED <<inserted, readonly, place, cache, inflight, shown, marks, history, request, dialog>>

PollReadonly ==
    /\ readonly' = ~readonly
    /\ UNCHANGED <<database, place, cache, inflight, shown, marks, history, request, dialog>>

DialogStep ==
    /\ Settled
    /\ DialogNext
    /\ UNCHANGED <<database, readonly, place, cache, inflight, shown, marks, history, request>>

Next ==
    \/ \E t \in Tables : ShowTable(t) \/ Insert(t) \/ Delete(t)
    \/ \E p \in Pages : GoToPage(p)
    \/ \E k \in Keys : Arrive(k)
    \/ \E i \in 1..PageSize : ToggleRow(i) \/ StartEdit(i)
    \/ ToggleSort \/ Correct \/ Refetch \/ ToggleAll \/ CancelEdit \/ SubmitEdit
    \/ OpenDeleteConfirm \/ RunConfirm \/ Write \/ WriteFails \/ Finish
    \/ LeaveAndReturn \/ PollReadonly \/ DialogStep

\* Timers fire, requests are answered, effects are run.
Fairness ==
    /\ WF_vars(RunConfirm) /\ WF_vars(Correct)
    /\ WF_vars(Write \/ WriteFails \/ Finish)

Spec == TablesInit /\ [][Next]_vars /\ Fairness

-----------------------------------------------------------------------------

\* Each row the page asks to write is the one the user has ticked there, or has begun to
\* edit, of the table it was shown for - unless another row has come into its place since, or
\* it was shown while the rows of another table still were (tables.tsx:198-260, :403-407;
\* useTableData.ts:64-102).
WritesReachMeantRows ==
    [][asked = None /\ asked' # None =>
         \A i \in DOMAIN asked'.keys :
           LET written == {None, <<asked'.table, asked'.keys[i]>>}
           IN  IF asked'.kind = "update" THEN begun \in written
               ELSE i \in DOMAIN meant /\ meant[i] \in written]_vars

\* When a deletion is reported, after failures and retries, too, none of its rows is left.
\* (The rows other programs insert have keys of their own; a row they insert after the
\* request may have a key that was asked for, when the page still showed the rows of
\* another table: tables.tsx:249-258.)
ReportedDeletionsHold ==
    [][work # None /\ Finish /\ work.request.kind = "delete" =>
         \A k \in Range(work.request.keys) :
           k <= work.request.known => k \notin rows[work.request.table]]_vars

=============================================================================
