---------------------------- MODULE ServerTools ----------------------------
(***************************************************************************)
(* The tool handlers of the MCP server (server/src/toolHandlers.ts) on the *)
(* pool of one database: the writes with their count, warning and          *)
(* confirmation, raw statements and EXPLAIN, the overview, and the backup  *)
(* that is read page by page; with the two caches of the pool (schema.ts), *)
(* which every handler reads and every write throws away.                  *)
(*                                                                         *)
(* A step is one answer of PostgreSQL, or of a child process, with what    *)
(* the handler does until its next await.  The database is one table, of   *)
(* which the model has the rows, in the order of their first column; other *)
(* programs write to it, too.                                              *)
(***************************************************************************)
EXTENDS Naturals, FiniteSets

CONSTANTS
    Calls,      \* concurrent tool calls
    MaxRow,     \* rows are numbered in the order of their first column
    Bulk,       \* BULK_WARN_THRESHOLD
    PageSize    \* BATCH_SIZE of the built-in dump

ASSUME RowAssumption == MaxRow \in Nat
ASSUME BulkAssumption == Bulk \in Nat
ASSUME PageAssumption == PageSize \in Nat \ {0}

Rows == 1..MaxRow

VARIABLES
    readonly,   \* SafetyState.readonly, for the life of the server
    blocked,    \* the table is in blockedTables (highRiskTables only add a warning)
    rows,       \* the rows of the table
    structure,  \* schemaCache of the pool
    counts,     \* countCache of the pool
    tool,       \* which handler a call runs
    stage,      \* where it is
    filter,     \* what kind of `where` it has
    keys,       \* the rows its `where`, or the key of its data, names
    sees,       \* how old the structure, or the count, is that it has read
    map,        \* which map of counts it has taken
    warned,     \* its answer will warn of the number of rows
    confirmed,  \* it has confirmAll
    raced,      \* rows came or went between its count and its write, or during its dump
    touched,    \* the rows it has created, changed or deleted
    offset,     \* the OFFSET of the next page of its dump
    dumped      \* the rows in its dump

server == <<readonly, blocked>>
caches == <<structure, counts>>
request == <<tool, filter, keys, warned, confirmed>>
dump == <<offset, dumped>>
vars == <<server, rows, caches, request, stage, sees, map, raced, touched, dump>>

Tool == {"create", "upsert", "update", "delete", "select", "statement", "explain",
         "overview", "read", "backup"}
Stage == {"idle", "resolving", "loading", "counting", "counted", "writing", "running",
          "written", "querying", "estimating", "tallying", "tallied", "dumping", "paging",
          "dumped"}

\* "blank" is a filter of columns without operators, such as {"id": {}}; "renamed" the
\* `where` of an upsert whose `create` has another key.
Filter == {"none", "blank", "some", "renamed"}

\* What is cached, or being read, against what the database has: "outdated" by a write of
\* this server, "missed" when the server does not know of it, "overtaken" when it was
\* stored by a load that a write had outrun, "partial" when a table could not be read.
Structure == {"none", "current", "partial", "outdated", "missed", "overtaken"}
Counts == {"none", "empty", "current", "outdated", "missed"}
Age == {"nothing", "current", "outdated", "missed"}

TypeOK ==
    /\ readonly \in BOOLEAN
    /\ blocked \in BOOLEAN
    /\ rows \in SUBSET Rows
    /\ structure \in Structure
    /\ counts \in Counts
    /\ tool \in [Calls -> Tool]
    /\ stage \in [Calls -> Stage]
    /\ filter \in [Calls -> Filter]
    /\ keys \in [Calls -> SUBSET Rows]
    /\ sees \in [Calls -> Age]
    /\ map \in [Calls -> {"none", "attached", "detached"}]
    /\ warned \in [Calls -> BOOLEAN]
    /\ confirmed \in [Calls -> BOOLEAN]
    /\ raced \in [Calls -> BOOLEAN]
    /\ touched \in [Calls -> SUBSET Rows]
    /\ offset \in [Calls -> 0..MaxRow]
    /\ dumped \in [Calls -> SUBSET Rows]

Init ==
    /\ readonly \in BOOLEAN
    /\ blocked \in BOOLEAN
    /\ rows \in SUBSET Rows
    /\ structure = "none"
    /\ counts = "none"
    /\ tool = [c \in Calls |-> "read"]
    /\ stage = [c \in Calls |-> "idle"]
    /\ filter = [c \in Calls |-> "none"]
    /\ keys = [c \in Calls |-> {}]
    /\ sees = [c \in Calls |-> "nothing"]
    /\ map = [c \in Calls |-> "none"]
    /\ warned = [c \in Calls |-> FALSE]
    /\ confirmed = [c \in Calls |-> FALSE]
    /\ raced = [c \in Calls |-> FALSE]
    /\ touched = [c \in Calls |-> {}]
    /\ offset = [c \in Calls |-> 0]
    /\ dumped = [c \in Calls |-> {}]

-----------------------------------------------------------------------------

GoTo(c, s) == stage' = [stage EXCEPT ![c] = s]

\* The call is answered, or refused.
Leave(c) ==
    /\ GoTo(c, "idle")
    /\ tool' = [tool EXCEPT ![c] = "read"]
    /\ filter' = [filter EXCEPT ![c] = "none"]
    /\ keys' = [keys EXCEPT ![c] = {}]
    /\ warned' = [warned EXCEPT ![c] = FALSE]
    /\ confirmed' = [confirmed EXCEPT ![c] = FALSE]
    /\ raced' = [raced EXCEPT ![c] = FALSE]
    /\ touched' = [touched EXCEPT ![c] = {}]
    /\ offset' = [offset EXCEPT ![c] = 0]
    /\ dumped' = [dumped EXCEPT ![c] = {}]

\* What c has read last is of no use to it any more.
Forget(c) ==
    /\ sees' = [sees EXCEPT ![c] = "nothing"]
    /\ map' = [map EXCEPT ![c] = "none"]

\* Mutant of Matching: the filter goes into the count only.
MatchingAll(c) == rows

\* The rows a `where` selects: buildWhere gives a filter without operators no text.
Matching(c) == IF filter[c] = "some" THEN rows \cap keys[c] ELSE rows

\* Mutant of Warns: off by one.
WarnsLate(n) == n > Bulk + 1

Warns(n) == n > Bulk

\* Mutant of MayWrite: an upsert is taken for a raw statement.
MayWriteRaw(c) == ~readonly /\ (blocked => tool[c] \in {"statement", "backup", "upsert"})

\* checkWriteAccess: a blocked table takes no structured write.  Raw statements, and the
\* backup, name no table.
MayWrite(c) ==
    /\ ~readonly
    /\ blocked => tool[c] \in {"statement", "backup"}

-----------------------------------------------------------------------------
(***************************************************************************)
(* What a change makes of that which has been read before.                 *)
(***************************************************************************)

\* The rows become `new`, after which counts are `how`; those of the calls `others` that
\* are between their count and their write, or whose dump is not saved yet, are raced.
RowsBecome(new, others, how) ==
    /\ rows' = new
    /\ counts' = IF new # rows /\ counts = "current" THEN how ELSE counts
    /\ raced' = [d \in Calls |-> \/ raced[d]
                                 \/ /\ new # rows /\ d \in others
                                    /\ stage[d] \in {"counted", "paging", "dumped"}]

\* Readers in one of the stages S have read what is `how` now.
Outrun(S, how) ==
    sees' = [d \in Calls |->
               IF stage[d] \in S /\ sees[d] = "current" THEN how ELSE sees[d]]

StructureBecomes(how) ==
    structure' = IF structure \in {"current", "partial"} THEN how ELSE structure

\* Mutant of TakeMap: looks the map up again when it stores.
TakeMapAgain(c) == map[c] \in {"attached", "detached"}

\* The map a call has taken is the one the pool still has.
TakeMap(c) == map[c] = "attached"

\* invalidateSchemaCache: whoever has taken the map of counts keeps a map of its own.
Invalidate(c) ==
    /\ structure' = "none"
    /\ counts' = "none"
    /\ sees' = [sees EXCEPT ![c] = "nothing"]
    /\ map' = [d \in Calls |-> IF map[d] = "attached" THEN "detached" ELSE map[d]]

\* Nobody will invalidate on account of this change.
Unnoticed ==
    /\ structure' = IF structure = "outdated" THEN "missed" ELSE structure
    /\ counts' = IF counts = "outdated" THEN "missed" ELSE counts
    /\ sees' = [d \in Calls |-> IF sees[d] = "outdated" THEN "missed" ELSE sees[d]]

-----------------------------------------------------------------------------
(***************************************************************************)
(* A call comes in, and its table is looked up in the structure.           *)
(***************************************************************************)

Begin(c) ==
    /\ stage[c] = "idle"
    /\ \E t \in Tool : tool' = [tool EXCEPT ![c] = t]
    /\ GoTo(c, IF tool'[c] = "backup" THEN "dumping"
               ELSE IF tool'[c] \in {"select", "statement", "explain"} THEN "running"
               ELSE "resolving")
    /\ UNCHANGED <<server, rows, caches, filter, keys, sees, map, warned, confirmed, raced,
                   touched, dump>>

\* The name is found and, for a write, checkWriteAccess lets it pass.  Its data name a key:
\* that of the new row, or the one `where` names, which `create` may name again.
Proceed(c) ==
    \/ /\ tool[c] = "create" /\ MayWrite(c)
       /\ GoTo(c, "writing")
       /\ UNCHANGED <<filter, keys>>
    \/ /\ tool[c] = "upsert" /\ MayWrite(c)
       /\ \E k \in Rows, f \in {"some", "renamed"} :
            /\ keys' = [keys EXCEPT ![c] = {k}]
            /\ filter' = [filter EXCEPT ![c] = f]
       /\ GoTo(c, "writing")
    \/ /\ tool[c] \in {"update", "delete"} /\ MayWrite(c)
       /\ \E f \in {"none", "blank", "some"}, named \in SUBSET Rows :
            /\ f # "some" => named = {}
            /\ filter' = [filter EXCEPT ![c] = f]
            /\ keys' = [keys EXCEPT ![c] = named]
       /\ GoTo(c, "counting")
    \/ /\ tool[c] \in {"read", "overview"}
       /\ GoTo(c, IF tool[c] = "read" THEN "querying" ELSE "estimating")
       /\ UNCHANGED <<filter, keys>>

\* resolveTableName answers from the cache if it is not older than five minutes ...
Resolve(c) ==
    /\ stage[c] = "resolving"
    /\ structure # "none"
    /\ Proceed(c)
    /\ UNCHANGED <<server, rows, caches, tool, sees, map, warned, confirmed, raced, touched,
                   dump>>

\* ... or reads all tables ...
Load(c) ==
    /\ stage[c] = "resolving"
    /\ sees' = [sees EXCEPT ![c] = "current"]
    /\ GoTo(c, "loading")
    /\ UNCHANGED <<server, rows, caches, request, map, raced, touched, dump>>

\* ... and keeps them.  A table that could not be read is kept without its columns.
Loaded(c) ==
    /\ stage[c] = "loading"
    /\ \E table \in {"read", "unread"} :
         structure' = IF sees[c] # "current" THEN "overtaken"
                      ELSE IF table = "read" THEN "current" ELSE "partial"
    /\ sees' = [sees EXCEPT ![c] = "nothing"]
    /\ Proceed(c)
    /\ UNCHANGED <<server, rows, counts, tool, map, warned, confirmed, raced, touched, dump>>

\* The call is refused or fails before it has changed anything: no such table or one that
\* could not be read, no access, bad JSON, a dry run, a failed query, no client in time.
Refused(c) ==
    /\ stage[c] \in {"resolving", "loading", "counting", "writing", "running", "querying",
                     "estimating", "tallying", "dumping", "paging"}
    /\ Leave(c)
    /\ Forget(c)
    /\ UNCHANGED <<server, rows, caches>>

-----------------------------------------------------------------------------
(***************************************************************************)
(* The structured writes.                                                  *)
(***************************************************************************)

\* PostgreSQL counts the rows that match; the answer will warn if they are many.
CountMatching(c) ==
    /\ stage[c] = "counting"
    /\ warned' = [warned EXCEPT ![c] = Warns(Cardinality(Matching(c)))]
    /\ GoTo(c, "counted")
    /\ UNCHANGED <<server, rows, caches, tool, filter, keys, confirmed, sees, map, raced,
                   touched, dump>>

\* A dry run ends with the count; so does a write of all rows without confirmAll.
CountOnly(c) ==
    /\ stage[c] = "counted"
    /\ Leave(c)
    /\ UNCHANGED <<server, rows, caches, sees, map>>

\* Mutant of NeedsConfirmation: any `where` will do.
NeedsNoConfirmation(c) == FALSE

\* No `where`, or one without columns, needs confirmAll.
NeedsConfirmation(c) == filter[c] = "none"

\* The statement of c takes effect: it touches `changed` and leaves `new`.
Write(c, new, changed) ==
    /\ RowsBecome(new, Calls \ {c}, "outdated")
    /\ touched' = [touched EXCEPT ![c] = changed]
    /\ GoTo(c, "written")

\* A statement on the rows that match takes effect.
WriteMatching(c, new) ==
    /\ stage[c] = "counted"
    /\ \E all \in BOOLEAN :
         /\ NeedsConfirmation(c) => all
         /\ confirmed' = [confirmed EXCEPT ![c] = all]
    /\ Write(c, new, Matching(c))
    /\ Outrun(IF new = rows THEN {} ELSE {"tallied"}, "outdated")
    /\ UNCHANGED <<server, structure, tool, filter, keys, warned, map, dump>>

UpdateMany(c) == tool[c] = "update" /\ WriteMatching(c, rows)

DeleteMany(c) == tool[c] = "delete" /\ WriteMatching(c, rows \ Matching(c))

\* INSERT, with ON CONFLICT (the columns of `where`) DO UPDATE for an upsert.  The row that
\* counts is the one with the key in the data: `create` overrides the key `where` has, and
\* a key in a sensitive column is stripped.
Insert(c) ==
    /\ stage[c] = "writing"
    /\ \E r \in Rows :
         /\ tool[c] = "create" => r \notin rows
         /\ filter[c] = "some" => r \in keys[c]
         /\ Write(c, rows \cup {r}, {r})
         /\ Outrun(IF r \in rows THEN {} ELSE {"tallied"}, "outdated")
    /\ UNCHANGED <<server, structure, request, map, dump>>

-----------------------------------------------------------------------------
(***************************************************************************)
(* Raw statements and EXPLAIN, in a transaction of their own.              *)
(***************************************************************************)

\* The text passes and the transaction commits.  SET LOCAL default_transaction_read_only
\* comes after BEGIN and does not bind it: also a SELECT can change rows, by a function
\* or by SELECT INTO, and EXPLAIN ANALYZE runs its SELECT.  A statement that is no SELECT
\* is refused while read-only; it can change the structure.
RunRaw(c) ==
    /\ stage[c] = "running"
    /\ tool[c] = "statement" => MayWrite(c)
    /\ \E new \in SUBSET Rows :
         /\ Write(c, new, (rows \ new) \cup (new \ rows))
         /\ \/ /\ Outrun(IF new = rows THEN {} ELSE {"tallied"}, "outdated")
               /\ UNCHANGED structure
            \/ /\ tool[c] = "statement"
               /\ StructureBecomes("outdated")
               /\ Outrun(IF new = rows THEN {"loading"} ELSE {"loading", "tallied"},
                         "outdated")
    /\ UNCHANGED <<server, request, map, dump>>

\* It fails and is rolled back; for an unknown name, in development, the known ones are
\* listed, which reads the structure if it is not cached.
FailRaw(c) ==
    /\ stage[c] = "running"
    /\ tool[c] \in {"select", "statement"}
    /\ tool' = [tool EXCEPT ![c] = "read"]
    /\ GoTo(c, "resolving")
    /\ UNCHANGED <<server, rows, caches, filter, keys, warned, confirmed, sees, map, raced,
                   touched, dump>>

\* The write is answered, and both caches of the pool are dropped.
Answered(c) ==
    /\ stage[c] = "written"
    /\ tool[c] \notin {"select", "explain"}
    /\ Invalidate(c)
    /\ Leave(c)
    /\ UNCHANGED <<server, rows>>

\* The answer is an error although the write took effect, or the tool is one that does
\* not expect changes.
AnsweredInVain(c) ==
    /\ stage[c] = "written"
    /\ Unnoticed
    /\ Leave(c)
    /\ UNCHANGED <<server, rows, map>>

-----------------------------------------------------------------------------
(***************************************************************************)
(* Reads.                                                                  *)
(***************************************************************************)

\* db_find_many, db_find_first, db_count, db_aggregate, db_table_info, db_schema.
ReadRows(c) ==
    /\ stage[c] = "querying"
    /\ Leave(c)
    /\ UNCHANGED <<server, rows, caches, sees, map>>

\* The planner's estimates are there.  A table it believes empty is counted, unless the
\* pool's map of counts, which is made if there is none, has a count.
Estimated(c) ==
    /\ stage[c] = "estimating"
    /\ \/ Leave(c) /\ UNCHANGED <<counts, map>>
       \/ /\ GoTo(c, "tallying")
          /\ map' = [map EXCEPT ![c] = "attached"]
          /\ counts' = IF counts = "none" THEN "empty" ELSE counts
          /\ UNCHANGED <<request, raced, touched, dump>>
    /\ UNCHANGED <<server, rows, structure, sees>>

\* PostgreSQL counts ...
Tally(c) ==
    /\ stage[c] = "tallying"
    /\ sees' = [sees EXCEPT ![c] = "current"]
    /\ GoTo(c, "tallied")
    /\ UNCHANGED <<server, rows, caches, request, map, raced, touched, dump>>

\* ... and the count goes into the map the call has taken.
Tallied(c) ==
    /\ stage[c] = "tallied"
    /\ counts' = IF TakeMap(c) THEN sees[c] ELSE counts
    /\ Forget(c)
    /\ Leave(c)
    /\ UNCHANGED <<server, rows, structure>>

-----------------------------------------------------------------------------
(***************************************************************************)
(* db_backup.                                                              *)
(***************************************************************************)

\* pg_dump, here or in the container, reads everything in one snapshot.
DumpWhole(c) ==
    /\ stage[c] = "dumping"
    /\ MayWrite(c)
    /\ dumped' = [dumped EXCEPT ![c] = rows]
    /\ GoTo(c, "dumped")
    /\ UNCHANGED <<server, rows, caches, request, sees, map, raced, touched, offset>>

\* Without pg_dump, or when the container's fails, the built-in dump starts.  The first
\* column may have equal values: then every page has an order of its own.
FallBack(c) ==
    /\ stage[c] = "dumping"
    /\ MayWrite(c)
    /\ \E ties \in BOOLEAN : raced' = [raced EXCEPT ![c] = ties]
    /\ GoTo(c, "paging")
    /\ UNCHANGED <<server, rows, caches, request, sees, map, touched, dump>>

\* Mutant of NextOffset: the last row of a page comes again.
NextOffsetLess(o, n) == o + n - 1

NextOffset(o, n) == o + n

\* The rows with the positions o+1 .. o+PageSize in the order of the first column.
Page(o) == {r \in rows : Cardinality({q \in rows : q =< r}) \in (o + 1)..(o + PageSize)}

\* A page is read.  A short one is the last.
ReadPage(c) ==
    /\ stage[c] = "paging"
    /\ \E page \in SUBSET rows :
         /\ IF raced[c] THEN Cardinality(page) = Cardinality(Page(offset[c]))
                        ELSE page = Page(offset[c])
         /\ dumped' = [dumped EXCEPT ![c] = @ \cup page]
         /\ IF Cardinality(page) < PageSize
              THEN GoTo(c, "dumped") /\ UNCHANGED offset
              ELSE /\ offset' = [offset EXCEPT ![c] = NextOffset(@, PageSize)]
                   /\ UNCHANGED stage
    /\ UNCHANGED <<server, rows, caches, request, sees, map, raced, touched>>

\* The dump is written to its file.
Save(c) ==
    /\ stage[c] = "dumped"
    /\ Leave(c)
    /\ UNCHANGED <<server, rows, caches, sees, map>>

-----------------------------------------------------------------------------

\* Another program adds or removes a row, or changes one so that it matches what it did
\* not match before.
OtherWrites ==
    /\ \E r \in Rows :
         RowsBecome(IF r \in rows THEN rows \ {r} ELSE rows \cup {r}, Calls, "missed")
    /\ Outrun({"tallied"}, "missed")
    /\ UNCHANGED <<server, structure, request, stage, map, touched, dump>>

\* Another program changes the structure.
OtherAlters ==
    /\ StructureBecomes("missed")
    /\ Outrun({"loading"}, "missed")
    /\ UNCHANGED <<server, rows, counts, request, stage, map, raced, touched, dump>>

Next ==
    \/ \E c \in Calls :
         \/ Begin(c) \/ Resolve(c) \/ Load(c) \/ Loaded(c) \/ Refused(c)
         \/ CountMatching(c) \/ CountOnly(c) \/ UpdateMany(c) \/ DeleteMany(c) \/ Insert(c)
         \/ RunRaw(c) \/ FailRaw(c) \/ Answered(c) \/ AnsweredInVain(c)
         \/ ReadRows(c) \/ Estimated(c) \/ Tally(c) \/ Tallied(c)
         \/ DumpWhole(c) \/ FallBack(c) \/ ReadPage(c) \/ Save(c)
    \/ OtherWrites
    \/ OtherAlters

Spec == Init /\ [][Next]_vars

-----------------------------------------------------------------------------
(***************************************************************************)
(* Safety.                                                                 *)
(***************************************************************************)

\* A write reaches only rows its arguments name - the one new row, the row of the upsert's
\* key, the rows that match - unless confirmAll was given or the filter has columns but no
\* operators; and on a read-only server, or on a blocked table, none (toolHandlers.ts:1084).
WritesStayInScope ==
    \A c \in Calls : stage[c] = "written" =>
        /\ tool[c] \in {"update", "delete"} =>
             touched[c] \subseteq keys[c] \/ confirmed[c] \/ filter[c] = "blank"
        /\ tool[c] = "upsert" => touched[c] = keys[c] \/ filter[c] = "renamed"
        /\ readonly \/ blocked =>
             touched[c] = {} \/ tool[c] \in {"select", "explain", "statement"}
        /\ readonly => tool[c] # "statement"

\* A write of more rows than the threshold is answered with a warning, unless rows came or
\* went between its count and its statement (toolHandlers.ts:1206-1241).
WarnedUnlessRaced ==
    \A c \in Calls :
        /\ stage[c] = "written" /\ tool[c] \in {"update", "delete"}
        /\ Cardinality(touched[c]) > Bulk
        => warned[c] \/ raced[c]

\* What the caches hold is behind the server's own answered writes in one case only: a
\* load of the structure that a write overtook.  A count cannot be, although it is stored
\* after an await, because the map it goes to is detached by then (schema.ts:190-251).
CachesFollowWrites ==
    structure = "outdated" \/ counts = "outdated" => \E c \in Calls : stage[c] = "written"

\* The built-in dump, as far as it has got, has the first rows of the table, each once; in
\* the end it has the table - if no row came or went since its start and the first column
\* has no equal values (sqlDump.ts:71-110).
DumpMatchesTable ==
    \A c \in Calls : ~raced[c] =>
        /\ stage[c] = "paging" =>
             /\ Cardinality(dumped[c]) = offset[c]
             /\ \A r \in dumped[c], q \in rows \ dumped[c] : r < q
        /\ stage[c] = "dumped" => dumped[c] = rows
=============================================================================
