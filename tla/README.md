# pgautopilot in TLA+

pgautopilot is a PostgreSQL toolset of two programs: an MCP server (`src/server`) that
gives an AI agent tools on one or several databases, and a web dashboard (`src/web`)
with a core library (`packages/core`), an HTTP API (`apps/api`) and a React front end
(`apps/web`). This directory specifies the parts of them whose correctness depends on
order: what overlaps, what fails half way, what is stale when it is used.

Paths below are relative to `src/`.

## The system

### MCP server

| Component | State | Operations | Hard behaviour | What makes it correct |
|---|---|---|---|---|
| Connection manager, `connectionManager.ts`, `db.ts` | per database an entry (pool, status, error), the `connecting` map of attempts in flight, the default name | `register`, `get`, `connectDefault`, `connect`, `closeAll` (called by nobody) | `get` awaits a probe, `end()` of a broken pool and a connection with three tries; several gets overlap at every await and re-read the shared entry | one attempt at a time per database; status, pool and map agree; every get returns; no pool is lost |
| Routing, `index.ts`, `toolHandlers.ts` | the pool given to `createHandlers`, the default name, the schema list of each pool (`schema.ts`) | start-up, background probes, `resolveDb`, `db_use_database`, `db_health` | the entry a call got may change before it reads the pool | a call works on the database it names, with that database's schema list |
| Tool handlers, `toolHandlers.ts`, `sqlBuilder.ts`, `sqlDump.ts` | none of their own | thirty-odd tools that build SQL | counting and writing are separate statements; dumps read page by page | limits and confirmations hold; SQL means what the arguments say; a dump is the table |
| Safety, `safety.ts`, `sanitizer.ts` | none | `checkWriteAccess`, read-only verdicts | order of the checks | read-only means no writes |
| Configuration, `config.ts`, `configWatcher.ts` | the loaded configuration, `process.env` | load, parse, resolve | precedence of flags, environment and files; `process.env` is filled up by every set-up and outlives it | a server is what its files say |
| HTTP transport, `httpTransport.ts` | the map of sessions | one handler, a set-up per client in one process | sessions share the process and its environment; the session id exists only after the first request was handled | a client's server does not depend on those before it |
| Schema cache, `schema.ts` | cache per pool, schema list per pool | `getSchema`, `invalidateSchemaCache`, `resolveTableName` | an invalidation during a load | no stale structure for ever |

The server is one Node.js thread: calls interleave only where the code awaits. The
connection manager is shared by all tool calls; they share no other lock.

### Web dashboard

| Component | State | Operations | Hard behaviour | What makes it correct |
|---|---|---|---|---|
| Migrations, `core/migrations.ts`, `api/routes/migrations.ts` | the `schema_migrations` table, the files of a directory | list, apply pending, apply chosen, re-run chosen | two requests at once, a transaction per file, a statement that fails, a COMMIT without an answer, a crash between two files | the table says exactly what is in effect, in order |
| Schema cache, `core/schema.ts` | one cached structure | `getSchema`, `invalidateSchemaCache` | a load overtaken by a change | stale only in the windows the code has |
| Snapshots, `core/snapshots.ts`, `sqlSnapshot.ts`, `sqlDump.ts` | files of a directory and their index | create, list, read, restore | the index is read, changed and written back with awaits in between; ids have a resolution of a second; a restore truncates with CASCADE | every snapshot taken can be found and restored |
| Handlers, `core/handlers.ts`, `sqlBuilder.ts`, `safety.ts` | session settings of pooled clients | row edits, SQL editor, scripts, backup | a setting left on a client that goes back to the pool; an error path that wants a second client | read-only means no writes; a client is returned as it was |
| Live events, `api/routes/live.ts`, `changeHub.ts`, `changeDetector.ts` | last counters, listeners, open streams | poll, broadcast, subscribe, write, close | failed polls, counter resets, a write error before the close event | a change is announced; a closed stream leaves nothing behind |
| Read-only switch, `api/routes/config.ts`, `middleware/readonly.ts` | one flag | `POST /config/readonly`, the guard | a request admitted before the switch | no write is admitted after it |
| Process, `api/index.ts`, `app.ts`, `config.ts`, `env.ts`, `auth.ts`, `cors.ts` | the configuration, the flag it starts with | start, stop, the handlers in front of the routes | restarts over edited files | production is not exposed, and not made writable |
| Plumbing, `db.ts`, `rateLimit.ts`, `logger.ts` | retries, rate counters | `queryWithRetry`, logging | a retry of a statement that took effect | |
| Table browser, `routes/tables.tsx` and its hooks | query cache, page, ticks, edit, dialog | show, page, sort, tick, edit, delete, refetch | rows move under ticks kept by place; a deletion fails half way | a write reaches the rows the user meant |
| Migrations page, SQL editor, tool runner | listings, selection, content, results, dialog | list, select, apply, re-run, view; run, clear | answers of a page that was left, or that come out of order | what is shown belongs to what was asked |
| Read-only context and settings, `ReadonlyContext.tsx`, `settings.tsx` | what the pages take the flag for | poll, read, switch | stale polls, lost answers, refused switches, restarts | the pages come back to the flag |
| Confirm dialog, `packages/ui/ConfirmDialog.tsx` | pending, timers | ask, confirm, cancel | two timers and an action that outlive each other | it answers |

All of the web components share one `pg.Pool`; the core's schema cache is one variable
that migrations and write handlers invalidate.

## Modules

| Module | Models | Extends |
|---|---|---|
| `ConnectionManager` | the connection manager and the life of its pools | |
| `ToolRouting` | start-up, requests, the default and the schema lists, composed with every step of the connection manager | `ConnectionManager` |
| `SchemaCache` | the dashboard's structure cache and the loads in progress | |
| `Migrations` | the migration runner, PostgreSQL's side of its transactions, the read-only flag, crashes; composed with the cache it invalidates | `SchemaCache` |
| `ToolRequests` | the dashboard's handlers that can change the database, their clients and sessions, the read-only switch; composed with the cache | `SchemaCache` |
| `Snapshots` | the snapshot directory, its index and the inodes behind a rename, creations, restores, crashes | |
| `MigrationLedger` | what the migration runner promises: a ledger whose steps are whole applications, or two for a file with a COMMIT of its own; `Migrations` implements it | |
| `ServerTools` | the MCP server's tool handlers on one database and its two caches, beside other programs | |
| `Statements` | the SQL the builders make of a call and what PostgreSQL makes of it | |
| `LiveEvents` | detector, hub, streams, and the page that listens | |
| `ConfirmDialog` | the dialog in front of every change of the dashboard | |
| `TablesPage` | the table browser | `ConfirmDialog` |
| `MigrationsPage`, `ExecutePages` | the migrations page; SQL editor and tool runner | `ConfirmDialog` |
| `Dashboard` | these two composed, left and entered again | `MigrationsPage`, `ExecutePages` |
| `Settings` | the environment and the files that configure both servers | |
| `McpServer` | start of the MCP server, set-ups by HTTP clients | `Settings` |
| `ApiServer` | the process of the API, its flag, the dashboard's view of it | `Settings` |
| `Deployment` | both servers over the same files | `McpServer`, `ApiServer` |
| `ConnectionManagerProofs`, `MigrationsProofs`, `ToolRequestsProofs`, `SnapshotsProofs`, `DeploymentProofs`, `ServerToolsProofs`, `TablesPageProofs`, `DashboardProofs` | theorems and proofs | the modules they are named after (`ConnectionManagerProofs`: `ToolRouting`, too), `TLAPS` |
| `MC*` | constants and a view for TLC | the modules they are named after |

### ConnectionManager

A step runs from the answer of one I/O operation (or a new call) to the next await on
I/O. Settled promises continue inside the step, because Node drains the microtask queue
before the next I/O callback: this is why `ConnectOk` resumes everyone who joined the
attempt in the same step, and why there is no state between the `await existing` of
`get` (line 86) and its return.

- `status`, `pool` are the two fields of `DatabaseEntry` the code decides on.
  `connecting[d]` is the call whose promise the map holds for `d`; the promise itself has
  no other state.
- `phase`, `target`, `held` are the suspended frames: where a call waits, for which
  database, and the local pool it has. `Main` is the start-up sequence; from
  `CreateHandlers` on `held[Main]` is the pool the tool handlers captured.
- `poolPhase` is the life of a `pg.Pool`: `end()` makes it `ending` and resolves when it
  has let its clients go; a second `end()` rejects. A `pg.Pool` is external: the model
  has only what `get` and `connect` can see of it.
- Every query can succeed or fail while the pool is not ended. `waitForConnection`'s
  three tries are one step with two outcomes; so is a probe.

`GetProbe`/`GetConnect` are the two ways into `get` (lines 64-93). A probe's answer is
`ProbeOk`, or one of three failures according to what the entry holds by the time the
`catch` block runs: no pool (`null.end()` throws and the call rejects), an open pool
(`end()` is awaited) or one whose `end()` was called (the second call rejects at once and
is swallowed). `EndDone` and `ProbeFailReset` are lines 81-93: the entry is reset
whatever it holds, and the call joins the attempt in the map or starts one.

Left out: `closeAll` (never called), single-database mode, the logged text. A pool
nothing refers to any more gives its identity back (`FreePools`): the number of pools
ever created is unbounded, the number referred to is not.

### ToolRouting

Extends the manager with what a call was for. `Deliver` is what happens when `get`
returns: `resolveDb` and `db_use_database` write the database's schema list onto the pool
of the entry (`setSchemas`), `db_use_database` also moves `defaultName`. A call without a
`database` argument does not go through `get`: `DefaultRequest` takes `held[Main]`.
`schemasOf[p]` is the database whose list pool `p` carries, `None` for the fallback
`["public"]`. When the default database is unreachable at start-up `createHandlers` is
never called: the server then only probes the others and stops, which is why these runs
set `CHECK_DEADLOCK FALSE`. `SwitchOnlyOnSuccess` is what the code does; the description of
`db_use_database` says that a switch to an unreachable database succeeds
(`SwitchAlwaysSucceeds`, see below).

### SchemaCache and Migrations

`cache` abstracts the cached structure to whether it still is the database's: `outdated`
(a commit is newer), `unnoticed` (newer, and whoever committed never learnt of it),
`overtaken` (stored by a load that had started before the commit).

`Migrations` has one step per query or file operation of a run. A run is a request of one
of three kinds: `pending` (`applyPendingMigrations`), `selected` (`applyMigrations`),
`rerun` (`revertMigrations`, which re-applies what it reverts). `Plan` reads the applied
versions outside any transaction; then each file is `Begin`, `Alter`, for a re-run
`Delete` and `Recreate`, then `Insert`, `Commit` and `Answered`. PostgreSQL is external:
`rowLock[v]` is the open transaction that inserted or deleted the row of version `v`; a
DELETE of that row waits and, if the row is gone afterwards, deletes nothing; an INSERT
waits and then violates the primary key, or not. `effects[f]` counts how often the up SQL
of a file is in effect: 0, 1, or 2 for "ran over its own effects".

`OwnCommit` are the files whose up SQL has a BEGIN and a COMMIT of its own, as all three the
repository ships have (`001_initial_schema.sql:25`, `:517`). The runner sends it as it is
(`migrations.ts:182`, `:328`): the file's BEGIN is a warning inside the runner's transaction,
its COMMIT ends that transaction, what the runner sends next runs in none, and the runner's
own COMMIT ends nothing. For such a file `AlterAndCommit` puts it into effect, for a re-run
`RecreateAndCommit` with the DELETE of its row, `InsertAtOnce` records it in a later step, and
`CommitNothing` follows. A failure or a crash in between leaves the file in effect without a
row: `cut` is the history of these, and `Ahead` the files in that state, which the properties
name as the one exception. For the other files they hold without one.

Abstractions: a file stands for the version a request names, and an unknown version is a
`Refuse`; of the same version named twice in one request the second behaves like another
request right behind it; the directory does not change during a run; a file's own COMMIT is the
last of its statements, and a `.down.sql` has none (the repository ships no `.down.sql`);
statements other than those on `schema_migrations` conflict only through `StatementFails`. Not
modelled is a file that drops `schema_migrations` itself, as `003_reset_database.sql` does with
the whole schema (line 3): its INSERT fails after everything has been dropped. `SwitchReadonly`
flips freely as `POST /config/readonly` does outside production (in production it can only be
switched on); a run admitted before the switch continues, as in the code.

### ToolRequests

A step is one answer of PostgreSQL and what the handler does until its next await. Requests run
one of four shapes of handler: `edit` (`db_create`, `db_upsert`, `db_update_many`,
`db_delete_many`: one statement, its own transaction, `pool.query`), `select` and `statement`
(`db_raw_query`) and `script` (`db_run_script`). `Admit` is the guard with the handler's own
check, which follow each other without an await; `Take` is `pool.connect()` with the BEGIN and
the SET LOCALs behind it. `session[c]` is `default_transaction_read_only` of connection `c`'s
session; `txnReadonly[r]` what it was when the transaction of `r` began, which is when
PostgreSQL looks at it; `isSet[r]` a SET SESSION by the handler whose transaction has not
committed, so that `Fail` forgets it and `CommitTransaction` keeps it. `session[c]` says who
has made it so: `handler`, by the SET of `db_run_script`, or `caller`, by SQL of the request.
`ownSetting[r]` is a request whose SQL handles the read-only settings itself (SET, RESET,
`set_config`, or a ROLLBACK that undoes the handler's SET): while the server is not read-only
nothing refuses that, and while it is, `READ_WRITE_OVERRIDE_RE` (`handlers.ts:59`) refuses
`READ WRITE`, `= off` and `= false` but not `TO off`, `= 0`, RESET ALL or `set_config`. Such a
request leaves the session either way (`SetBy`), and a script can make its read-only
transaction writable. A script can contain COMMITs of its own; `InnerCommit` admits one, which
is enough to have a transaction before and one behind the session setting. `changed[r]` says in
which of the two the request has committed a change.

`Fail` is a statement that fails (its own error, the timeout, a write in a read-only
transaction), `Break` a connection that breaks at any point, before or after a COMMIT it
does not answer: `pg` drops such a connection when it is released. For an unknown table or
column `db_raw_query` lists the known names in its error, in development: `suggesting`
is that request waiting for a second client while it holds the first.

Abstractions: `confirmed`, `ALLOW_RAW_WRITES`, `BLOCKED_TABLES` and the text checks only
refuse requests and are left out, which admits more; the counting query of
`db_update_many` and `db_delete_many`, dry runs and `confirmAll` end as `TurnedAway` or
change nothing; settings other than `default_transaction_read_only` and the access mode of a
transaction are left out; a crash of the API needs no action, because sessions
and cache end with it. Change events (`onChange`) are left to `LiveEvents`.

### Snapshots

A step is one file operation, query or child process. A creation is one call of
`createSnapshot`, by a user or before a migration, and stands for its dump as well; a
call that is retried (`queryWithRetry`) is another creation. `TakeId` follows the listing
of the tables: the id is the second, and the file is named after it. `OpenFile` and
`FillFile` are the two halves of `writeFile`, `OpenTmp`, `FillTmp` and `Rename` those of
`writeIndex`. `handle[c]` is the inode a creation has open: a rename by another moves it
from under the name `index.json.tmp` to `index.json`, and the next rename out of the
directory. Two writes of different length to one inode can leave a mixture (`Garbled`).
A missing index reads as one without entries, as in `readIndex`, whose catch also takes
every error for that (`MisreadIndex`). `Find` is the listing and the search for the id,
`ReadDump` the file; showing a snapshot stops there, a restore commits what it has read.

`mishap` is a history variable: it records which of the three things the code does not
guard against have happened so far - two creations in one second, index updates that
overlap, an index misread. Each property names the ones that can break it, which says
that nothing else can, in particular no failure and no crash.

Left out: what a dump captures of tables that change meanwhile, which tables TRUNCATE
CASCADE reaches, and the read-only check of the routes, which only refuses requests.

### MigrationLedger

The abstract specification of the runner: `Apply(f)` records a file and puts it into
effect in one step, `Rerun(f)` puts a recorded one into effect anew. A file with its own
COMMIT takes two: `TakeEffect(f)`, which for a re-run takes its record away, and `Record(f)`.
Requests, plans, locks, failures and crashes do not occur in it. `Migrations` maps
`recorded` to the files whose version has a row and `times` to `effects`; `ImplementsLedger`
says that every behaviour of the runner is one of the ledger under this mapping: `Commit` is
the one step, `AlterAndCommit` or `RecreateAndCommit` and `InsertAtOnce` are the two, all
others stutter.

### ServerTools

One database of the MCP server, one table, any number of calls in flight. A step is one
answer of PostgreSQL or of `pg_dump` with what the handler does until its next await.
`Begin` picks a tool and its arguments (`filter`: no `where`, one whose column has no
operators, one that selects `keys`, or an upsert whose `create` names another key than
its `where`); `Resolve`, `Load` and `Loaded` are `resolveTableName` and `getSchema`;
`CountMatching` is the COUNT before `db_update_many` and `db_delete_many` with
`bulkWarning`, `WriteMatching` and `Insert` the writes, `RunRaw` and `FailRaw`
`db_raw_query`. `readonly` and `blocked` are the server's protection of the table;
`MayWrite` is `checkWriteAccess` and what the handlers check before it.

`structure` and `counts` are the two caches of a pool, abstracted to how old they are:
`outdated` behind a write of this server, `missed` behind another program's, `overtaken`
stored by a load that a write has overtaken. `map[c]` is the map of counts a call has
taken before its queries: `invalidateSchemaCache` detaches it, so that what is stored in
it afterwards reaches nobody. `DumpWhole`, `FallBack`, `ReadPage`, `Save` are
`db_backup`: `pg_dump`, or the built-in dump page by page with LIMIT and OFFSET, where
other calls and programs write between pages. `raced` is the history of such writes.

### Statements

The data side of the same tools. A call's JSON is a sequence of entries; the builders
make a statement with clauses and numbered parameters of it, and `Effect` runs it by
PostgreSQL's rules (three-valued comparisons, ON CONFLICT). `Meant` says, without SQL,
what a filter means; the properties compare the two. `PrepareUpdate` and `PrepareDelete`
count and build, `RunWrite` runs what was built, `Repeat` calls an upsert again, `NextPage`
follows `hasMore`. `Only` is the filtering of columns that `sanitizeWriteData` and
`buildUpsert` both do. Filters and data are the constants `Where` and `Data`: any sequences
of legal entries (`LegalEntry`, `LegalData`), of which TLC is given those of `MCStatements`;
ILIKE is not modelled. TLC starts from every table of up to two rows. Nobody else writes
here: interleavings are in `ServerTools`.

### LiveEvents

`last` is the detector's baseline, `counter` what `pg_stat_user_tables` shows. `Poll`
compares and broadcasts in one step, as the code does after its one await; a failed poll
is one that does not happen. `listeners` are the hub's; a listener and a heartbeat timer
exist together. `BeatThrows` is a heartbeat whose write throws, which marks the stream
closed before `cleanup` runs; `Cleanup` then returns early. On the page's side: `Connect`,
`Disconnect`, `Receive` (the event invalidates the cached rows of its table), `Read` and
`Arrive` (the query), `Show` (another table), `GoStale` (TanStack Query's 30 seconds).
`lost` is a history of changes that cannot reach the page, each cause written into the
action that is one: no baseline yet, a reset of the statistics, nobody connected, another
table shown, a read that failed.

### ConfirmDialog, TablesPage, MigrationsPage, ExecutePages, Dashboard

`ConfirmDialog` is the component with both ways its pages own it. `grace` is its pending
mark and timer, which the code drops at different times: opening a dialog while the timer
of the last one runs clears the timer, and the mark stays (`dropped`). Its overlay takes
clicks and nothing else: the effect that should move the focus into the dialog
(`ConfirmDialog.tsx:86-94`) runs while its ref is still null (line 96), so what had the
keyboard focus keeps it. Hence two ways to ask, `Ask` by a click on a free page and
`AskByKey`, also over an open dialog, where the newer request replaces the older one, and a
grace that runs starts the newer.

`TablesPage`: `cache` is TanStack Query's, by table, page and order; `shown` what is on
the screen, which are the rows before as long as the new ones load. Ticks (`selected`) and
the edited cell (`editing`) are places on the page. `OpenDeleteConfirm` and `SubmitEdit`
look the rows up, by what is on the screen then; `RunConfirm`, `Write`, `WriteFails` and
`Finish` are the confirmed action, row by row in the order on the screen. A cell can be
edited with rows ticked. A read that fails is stored as an answer without rows
(`Nothing`, `useTableData.ts:77-88`), which may take the page back to the first. `meant` and
`begun` are histories: the row the user has ticked at a place, and the one whose cell is
edited, or `None` once another row has come into that place (or when it was a row of the table
shown before); so is `known` of a request, how many rows the table had ever had when it was
asked. `Answer` takes the page and the count at one moment; the code sends two queries.
Left out: controls under the dialog reached with Tab and Enter, and ticking while the input
of an edit whose row has left the screen is gone but the edit still pending.

`MigrationsPage` and `ExecutePages` have one variable per `useState` that decides
something, and the requests under way, which go on when the page is left (`mine` becomes
false). Ctrl+Enter in the editor and in the runner works under an open dialog
(`CodeEditor.tsx:244-249`), and so does Enter on a button that has kept the focus: `RunScript`,
`RunTool` and the asking of `MigrationsPage` need no free page. `under` is the history of a run
that was started in this way; two runs can be under way then, and `ResultsBelong` names it as
the exception. `Dashboard` composes them: the pages share nothing but the flag, a page left loses
its state.

### Settings, McpServer, ApiServer, Deployment

`Settings` has what an operator controls: the environment the servers are started in and
the two files, edited while they run. `McpServer!Resolved` is `detectConfigMode`,
`loadMultiDbConfig` and `createManagerFromConfig` as an operator of `process.env` and the
files; `SetUp` is one set-up, which also fills `process.env` up (`FillEnv`: everything but
`DATABASE_URL`, and nothing that is there already). With the HTTP transport every client's
first request is one, in the same process, so that a later one finds the environment an
earlier one has left: this is what `SetupsFollowFiles` is about. `ConnectFails` ends the
whole process in single-database mode, `SetUpThrows` only the request. A URL in
`pgautopilot.json` that is none is refused with the file, and the server is not configured;
one that comes from a `$NAME` or from `DATABASE_URL` is not looked at until the pools are made,
and throws there (`HasBadEntry`). In single-database mode the code reads `.env` twice in one
synchronous go (`config.ts:450`, then `:165`); the model reads it once, so an edit between the
two is not in it.

`ApiServer` starts from the same files (`Filled` with all keys), refuses to listen where
`index.ts` does, and keeps the read-only flag. The dashboard's side: `Poll` every three
seconds whether or not the last is answered, answers in any order, the settings page's
configuration cache, and the switch, which shows its result before it is known and goes
back to the opposite when it fails.

## Runs

| Run | Instance | Shows |
|---|---|---|
| `connection_manager` | 1 database, start-up + 3 calls, 6 pools | the entry, its status and the attempts agree under every interleaving; every get returns |
| `tool_routing` | 2 databases, start-up + 2 calls, 5 pools | calls keep to their database and its schema list; of overlapping switches each moves the default only to the database whose entry it has got |
| `migrations` | 2 files (one with a COMMIT of its own and no down SQL, one with down SQL), 2 runs, 1 cache reader | the ledger is exact, except where a file's own COMMIT has put it ahead, and ordered; the runner implements `MigrationLedger`; the cache is behind only between COMMIT and its answer; every run ends |
| `tool_requests` | 2 requests (one of any kind, one a statement or a script), 2 clients, 1 cache reader, both modes | in production the session setting made for one script reaches no other request, and what a script does after its own COMMIT does not escape it unless the script handles the setting itself; the cache follows the writes; every request is answered, also when all hold a client and wait for another |
| `readonly_blocks_writes` | as `tool_requests` | (violation) a script, or a SELECT, let in while the server is read-only commits a change |
| `snapshots` | 3 creations, 3 seconds, 1 restore | snapshots are lost, or restored from the wrong dump, only by the three mishaps; the index survives every failure and crash |
| `server_tools` | 2 calls, 2 rows, pages of 1, threshold 1 | writes keep to their filter, their confirmation and the server's protection; bulk writes are warned of unless raced; the caches follow the server's own writes; an undisturbed dump is the table |
| `statements` | 2 keys, 2 values and NULL, filters of up to two columns with up to two tests, data of up to two columns, pages of up to two rows | update and delete reach exactly the rows meant; an upsert concerns its key alone and changes nothing from the third call on; pages cover the table |
| `live_events` | 2 tables, one of which changes twice, 2 streams | a change reaches the page that shows the table unless one of the listed causes lost it; streams that are gone are forgotten, unless a write to them threw |
| `tables_page` | a table of 2 pages and an empty one that may get a row with the same key, 2 dialogs | each row written is the one meant at its place unless another has come there; a reported deletion was done; the dialog answers unless it was clicked while closing |
| `dashboard` | 2 migrations, 2 jobs, 2 tools, 2 executions, one departure | one job at a time per visit; ticks only on pending migrations; the SQL shown is that of the migration viewed unless overtaken; results belong to their run unless cleared meanwhile or run by a key under a dialog |
| `deployment` | 3 versions of the files, 1 edit, 2 HTTP clients, 2 starts of the API | the databases of a set-up follow the files of its time, its protection as well if the process has read no others; the pages come back to the flag |

**Bounds.** Three calls on one database are the smallest number with a call that ends a pool, a
second that overtakes it and a third that meets what the two left; the calls are reused for
ever, so the number of gets is unbounded. Each activity and each entry refers to at most one
pool, so one pool more than those is enough for `OpenPool` never to wait: 6 for the four
activities and one entry; with two databases five, because of two calls only one can have lost
the pool of its entry. Two databases are the fewest between which a call can go astray. Two
runs over two files are the fewest in which plans overlap, an order exists and the first file
of a run can succeed before the second fails; `Times` caps `effects` at 2, a cap the code
cannot tell from more. One of the two files commits itself and the other does not, so that each
kind runs before, after and against the other. One reader suffices for the cache: readers do
not look at each other. In `tool_requests` two requests on two clients are the fewest that can
hold all clients and wait for one more, and give one a client that another has left; requests
start again for ever and the switch turns any number of times. `Handlers` lets one of them be
any request and the other a statement or a script, and `Setters` lets scripts alone set the
session; the theorems have neither restriction. In `snapshots` three creations are the fewest
of which two can overlap on what a third has left, and three seconds let each have its own; all
creations are alike, hence the symmetry. Two calls of `server_tools` are the fewest that can
overtake each other, and other programs write besides; two rows are the fewest of which one can
be in a dump and one not, and more than the threshold. `statements` needs two keys for a row
that is not meant, and two values besides NULL for an order. In `live_events` the second change
falls into what the first one has set off, and the second stream is the reconnection.
`tables_page` has one row more than a page and a second table that is empty at first, so that
rows of the first are deleted from it by their keys, and one with such a key may come in
between; two dialogs are the fewest of which one closes while the next opens; `MaxMoves` and
`MaxUpsets` (inserts and deletions of other programs, and reads that fail) keep it finite.
`dashboard` needs two of everything for an answer that comes late. In `deployment` the three
versions differ in every key the properties read, one edit gives two clients different files,
and a second start of the API a flag that is set back. `MaxUnderWay` has one poll under way at
a time, which is stale when the switch, another client or a restart comes before its answer;
two polls that cross are not in the run. The proofs remove these bounds for what they prove. In
`MCToolRouting` a view leaves out what became of pools nothing refers to; no liveness is
checked with it.

**Fairness.** `ConnectionManager`: weak fairness of start-up and of each call's next
step. Probes and connections end by the statement and connection timeouts the pools are
configured with, retries are counted, and `end()` waits for clients whose queries end
likewise. New calls need not come. `Migrations`: strong fairness of `Step(r)`, because a
step can be blocked and unblocked by other runs' locks again and again; PostgreSQL
queues those who wait for a row. `ToolRequests`: weak fairness of `Step(r)`: a query ends by
`statement_timeout`, waiting for a client by `connectionTimeoutMillis`. Failures that are
not part of these, lost answers, crashes, new requests and the switch are never fair.
`LiveEvents`: weak fairness of the detector's timer (a poll that fails is not one), of
reads, of events on a connection that lasts and of the close the API hears of; changes,
disconnections and heartbeats that throw are not fair. `TablesPage`: the dialog's timers
fire, requests are answered with success or failure, effects run. `Deployment`: polls are
sent again and again, and strongly fair is that one of each value is answered when such
polls are under way for ever, because an answer may fail, or be overtaken, any number of
times but not always.

**Statements in no run.** Each module keeps a `TypeOK`; those of `ConnectionManager`,
`ToolRouting`, `Migrations`, `ToolRequests`, `Snapshots`, `ServerTools`, `TablesPage` and
`Dashboard` are theorems, as is `StatementsTypeOK`, so are `MapTracksAttempt`,
`NeverPolls`, `OneWinner` and `RecordsAreKept`. The rest of them hold on the runs'
instances and guard the models, not the code.

## Proofs

All theorems hold for any number of databases, calls, pools, files, versions, runs, requests,
clients, creations, restores, tables, rows, filters and data, from the assumptions named in the
modules (`DefaultAssumption`, `MainAssumption`, `NoneAssumption`; `VersionAssumption`,
`HasDownAssumption`, `OwnCommitAssumption`, `NoneAssumption`; `NoneAssumption`,
`HandlersAssumption` and `SettersAssumption` of `ToolRequests`; `SecondAssumption`,
`NoneAssumption` and `TextAssumption` of `Snapshots`). `ServerToolsProofs` needs, for the dumps
alone, that rows are finitely many numbers and a page is not empty (`RowAssumption`,
`PageAssumption`), and for `Statements` that filters and data are legal, keys and values
numbers, and NULL and a hidden value neither (`WhereAssumption`, `DataAssumption`,
`IdsAssumption`, `NullAssumption`, `BoundsAssumption`); `TablesPageProofs` uses
`TablesPageAssumption`; `DashboardProofs` uses `MigrationsPageAssumption` and
`ExecutePagesAssumption`, and that `None` is no request, no run and not `Asked`
(`NoneAssumption`, `NoExecutionAssumption`).

**ConnectionManagerProofs.** The properties are not inductive. `MapTracksAttempt` needs
to know that nothing but start-up runs before `serving` (`StartupAlone`) and that start-up
runs no attempt afterwards (`StartupOver`): `connectDefault` is the one caller that
bypasses the map. `StatusMatchesPool` needs `AttemptShape`: while an attempt runs the
entry has no pool, so neither its success nor its failure contradicts the status a late
reset has written. `CallShape` gives each suspended frame its database and pool. `IInv`
is their conjunction; `Invariance` proves it by one lemma per conjunct over the actions,
and the properties follow. `PoolsAreSeparate` rests on a second invariant, `Separated`:
calls and entries of different databases never refer to one pool, which holds because
`OpenPool` takes a pool nobody refers to and a pool is handed on only within a database.
`NoReplacement` is proved from `IInv` for the action property.

The same module proves the routing, which changes what a call is for while the manager's
steps go on. `RoutingSteps` shows that every step of the routing is a step of the manager, or
a request for the pool of start-up (`DefaultRequestInv`), so that `IInv` and `Separated` carry
over. `RoutingInv` adds `Kinds` (before there are handlers only background probes run) and
`HandlersPool` (the pool of start-up belongs to the database of start-up for ever, wherever the
default moves). `SchemasFollowDatabase` follows: what `Deliver` labels is the pool it hands
out, or, when a switch has lost its pool, that of start-up, which no call for another database
has; and a new pool gets no label of an old one as long as a call uses it (`LabelsKept`).

**MigrationsProofs.** `IInv` adds to the properties `PlanShape` (every file of a version
that is not in effect is still ahead of a pending run, whatever its plan was made from, and
what a run has committed is in effect), `RowShape` (a row names a file of its version that is
in effect), `LockShape` (who may hold a row lock, and that a run about to commit does, unless
the file has committed by itself), `RerunShape` and `InsertsOnce`. `RecordsAreKept` and
`PendingInOrder` are action properties that follow from it. `RecordsAreKept` says that a row
goes only with the file's own COMMIT in a re-run: for the shipped files the record is lost if
the run ends before the INSERT, and for no other file. `LedgerIsExact` is a second induction,
under the assumption that no two files share a version, which the divergence on duplicate
versions below shows to be necessary. `NextAhead` shows that a file in effect has a row or is `Ahead`,
`NextOnce` that one with a down file and no COMMIT of its own is in effect at most once.

**Refinement.** `LedgerIsImplemented` proves `ImplementsLedger` under the same assumption:
`NextImplements` shows, from `IInv` and `LedgerMatchesSchema`, that `Commit` is `Apply` of
its file if the version had no row and `Rerun` otherwise, that `AlterAndCommit` and
`RecreateAndCommit` are `TakeEffect` of a file with its own COMMIT and `InsertAtOnce` its
`Record`, and that every other action leaves `Recorded` and `effects` alone.
`LedgerMatchesSchema` is needed because `Apply` says that the file was not in effect before,
which the row alone does not.

**ToolRequestsProofs.** `IInv` adds three parts. `Checkout`: every request past the wait
has a client and no two have the same. `Progress`: what a request can have done by the
time it is at a stage. `Protection` is the argument for production, where the switch only goes
on: whoever has seen the server read-only still sees it so, hence a script whose session the
handler has set finds the switch on in its `finally`; a session set by the handler is in the
hands of a script on its way there, so a client nobody holds has none; and a script let in
read-only that leaves the setting alone (`~ownSetting`) has had its session set before it can
commit by itself. Nothing is claimed of a session the SQL of a caller has set or taken back:
`Setters` are the requests whose SQL does either, and the theorems hold for any such set,
`EveryClientComesBackClean` and `EveryScriptIsProtected` below being what fails when there are
some. In development the switch can go off in between, and the property is false there:
`SwitchFreely`, the mutant of `ClientsComeBackClean`, is that behaviour.

**SnapshotsProofs.** `OneUpdate` says what holds while index updates do not overlap: one
creation is between its read and its rename, the temporary file is its own, and the index
is a set of entries. `WholeIndex` adds, unless an index was misread, that this creation
has read all of the index, so that its rename loses nothing. `OwnFile` says for distinct
seconds that everything the index, the temporary file, a creation or a restore mentions is
`Written`, that is, has its dump in its file; `WrittenStays` is the lemma that no step
undoes that. It does not need the other parts: a damaged index loses entries but never
lists one that is not whole.

**DeploymentProofs.** `SetupsFollow` rests on `EnvFollows`: `DATABASE_URL` in
`process.env` is always that of the start, and while the process has read one version of
the files only, the rest is the start's environment filled up from them. `SameDatabases`
says that which databases there are depends on no more than `DATABASE_URL`, `FilledOnce`
that filling up twice from one file is filling up once. `FollowsFiles` is the property for
one client; it stays true because `readFrom` only grows while the client is there.

**ServerToolsProofs.** A write is decided steps before its statement: `Underway` says what is
certain of a call on its way (let in, arguments read, and counted for the warning unless it
was raced), and `Written` is what the statement makes of that. `OthersKeep` is the lemma that
the steps of other calls take none of it away. `Readers` is the argument for
`CachesFollowWrites`, which is not inductive: a count is stored after an await, by a call
that may have counted before another's write; that does no harm because the answer of the
write detaches the map of every such call, so an outdated count has a map to go to only while
the write is unanswered.

`DumpMatchesTable` is about positions. `Dumping` says that what an undisturbed dump has read
are the first rows of the table, as many as its offset; `NextRows` is the step: the page at an
offset that is a row's position has the rows of the next positions, and if it is short there
are none behind it. The positions are cardinalities of sets of smaller rows; that the next row
exists (`SmallestRow`) comes from the well-founded order of the numbers, not from induction.

The same module proves the properties of `Statements`. What a builder computes is a
concatenation (`FlattenSeq`) of what each entry contributes; `JoinedPlaces` says at which
place each part lies and that nothing else does, by the least length at which that would
fail. `ParametersAreOperands` follows: wherever the numbering starts, the parameters of a
clause are its operands, so that a statement selects what its filter means
(`SelectedIsMeant`), with the values of a SET in front or without. `OnlyKeeps`,
`CleanedKeeps` and `AssignIs` do the same for data, and `Prepared` carries them from the count
to the write. For the pages, `Continues` says that the ids seen are the beginning of an
order of the rows that are meant; there is one such order by the key (`OneOrderByKey`), so
the next page continues it, and without an ORDER BY at least the number is right. For upserts,
`Settled` says what each call has settled: the first one that the key's row is there, the
second one what is set of it; one that sets nothing is refused (`UpsertedRows`).

**TablesPageProofs.** `MarksAreMeant` says of each marked place that the row the user pointed
at is the one it holds, or that other rows have come into that very place since; `DialogHolds`,
that the request under way keeps its dialog and no cell is edited below one, is why a finished
request may take the marks away. `WrittenAreGone` is the deletion half way: what it is done
with has left the table, and rows that come have keys beyond `known`. Without `known` the
property is false as soon as a table grows from which rows were deleted by another table's
keys. `AnswersArePages` shows that the answer of the database is well defined in both orders:
for every number there is a row with as many rows before it (`RowWithSoManyBefore`).

**DashboardProofs.** Both kinds of page rest on the dialog: `DialogMoves` lists what any step
does to it, and `ConfirmedOnce` follows, that no grace runs while an action does. A request of
a page that was not left keeps its dialog confirming (`OneJob`), hence no second one is sent.
Of the editor's runs less is true, because Ctrl+Enter works under an open dialog: while one
run is waited for, an open dialog is its own, unless "Clear" has hidden that it runs
(`cleared`) or a script was run by the key under the dialog (`under`). `OneRun` is stated for
the histories without either, and so is what `ResultsBelong` says of the editor; what it says
of the tools needs no such exception, since an outcome is stored under the tool it was run
for. `ListingsFollow` says that a listing closes the request it follows and no other.
`OwnRequests` keeps the pages apart.

**Only model-checked**: liveness (`EveryGetReturns`, `EveryRunEnds`, `EveryRequestEnds`,
`ChangesReachPage`, `StreamsAreForgotten`, `DialogAnswers`, `ContextFollowsFlag`),
which the prover does not handle. Every safety property of the runs that is expected to hold
is a theorem.

## Where code and documents part

`readonly_blocks_writes` is a run. The following statements are kept in their modules, at
the end; TLC refutes each within seconds when it is given as an invariant of the run named
(`SwitchAlwaysSucceeds` as a property, `AppliedMeansRun` with a third file of the second's
version). They are what the properties of the runs except by name.

| Statement | Run | What happens |
|---|---|---|
| `NoOrphanedPool` | `connection_manager` | a get that ended a broken pool resets the entry (`connectionManager.ts:81`) after another get has reconnected it: the new pool is in no entry and never ended |
| `SwitchAlwaysSucceeds` | `tool_routing` | `db_use_database` of a database that cannot be reached fails in `get` and switches nothing (`toolHandlers.ts:488`); `toolDefinitions.ts:217` says that "the switch succeeds but subsequent tools will return a connection error" |
| `DefaultToolsFollowSwitch` | `tool_routing` | after `db_use_database` tools without `database` use the pool of start-up (`toolHandlers.ts:433`); `server/skills/multi-database/SKILL.md:70` says otherwise |
| `DefaultToolsFollowReconnect` | `tool_routing` | when the default database's pool is replaced they keep the ended one (`toolHandlers.ts:434`) |
| `SchemasScopedPerPool` | `tool_routing`, 3 calls | `db_use_database` of a database that has just lost its pool labels the default's pool with its schema list (`toolHandlers.ts:490`) |
| `AppliedMeansRun` | `migrations` | of two files of one version the second is listed as applied and never run (`migrations.ts:163`) |
| `AppliedIsTracked` | `migrations` | a file with a COMMIT of its own, as all three shipped ones, is in effect before its row is inserted (`migrations.ts:182-187`): if the run fails or ends in between it is applied and not recorded, and runs again with the next apply; `web/apps/api/migrations/README.md:67` says that applied files are tracked and skipped |
| `CacheFollowsOwnCommits` | `migrations` | the cached structure is thrown away after the COMMIT of the runner only (`migrations.ts:188`, `:256`, `:333`): what such a file has committed by itself is not noticed when the run then fails |
| `EveryClientComesBackClean` | `tool_requests` | a script that sets `default_transaction_read_only` on its session while the server is not read-only leaves it set: the `finally` resets only when the server is read-only (`handlers.ts:531`) |
| `EveryScriptIsProtected` | `tool_requests` | the pattern that refuses scripts which take the read-only setting back (`handlers.ts:59`, used at `:484`) does not know `TO off`, `= 0`, `RESET ALL` or `set_config`: after its own COMMIT such a script writes |
| `ResultIsOfLastScript` | `dashboard` | Ctrl+Enter runs a script under an open dialog (`CodeEditor.tsx:244-249`; the dialog's focus never moves there, `ConfirmDialog.tsx:86-96`); of two scripts under way the one answered last is shown |
| `FailedMeansUnmodified` | `snapshots` | a restore whose COMMIT is not answered is reported as having modified nothing (`snapshots.ts:241`) |
| `UpsertsAreIdempotent` | `statements` | the second `db_upsert` with the same data finds the row of the first and applies `update`, which may differ from `create`; `toolDefinitions.ts:518` says "calling it multiple times with the same data has the same effect as calling it once", and `:520` hints so. From the third call on nothing changes (`UpsertsSettle`) |
| `OmittedUpdateKeepsRow` | `statements` | `db_upsert` without `update` updates with the data of `create`; its description says the row is returned unchanged |
| `UpsertsAreCarriedOut` | `statements` | `db_upsert` with nothing left to set, the data being the key alone or sensitive, makes `SET "id" = "id"` (`sqlBuilder.ts:209`), which PostgreSQL refuses as ambiguous, for a new row as well; `toolDefinitions.ts:517` says it returns the final row |

Others were met while modelling and are what the models do, without a statement of their own.
In the server: a filter `{"id": {}}` matches every row and needs no `confirmAll` (README.md:252
says deletes never do); `db_explain` with `analyze` executes the query; the structure is cached
for five minutes although `toolDefinitions.ts:249` calls it live; the count called exact at
`toolDefinitions.ts:293` is an estimate for large tables; the read-only transaction of
`db_raw_query` is set up by SET LOCAL after BEGIN, as in the dashboard; `take: 0` in
`db_find_many` leaves `hasMore` true for ever; `--readonly` gives way to a `readonly: false` in
`pgautopilot.json`; `$DATABASE_URL` there does not see the `.env` file's; an HTTP session's id
is never stored, so that a client that sends it is answered 404; one session's unreachable
database ends the process of all. In the dashboard: a new request made by key while a dialog's
grace runs replaces the one the dialog was opened for, so that confirming runs the newer;
`003_reset_database.sql` drops `schema_migrations` with the rest of the schema (line 3), so
that its own row cannot be inserted and applying "all pending migrations in order"
(`web/apps/api/migrations/README.md:54`) never completes with the shipped directory; a stream
whose write threw keeps its listener and its timer; a confirmation clicked while its dialog
closes leaves the next dialog busy until the page is left; rows of the table shown before can
be ticked while the next one loads, and are then deleted by their keys from the next one, with
a message that counts those that did not exist.

## Not modelled

`closeAll` and `watchConfig` (no caller); the text of SQL, errors and logs, the
classification of a statement by its text (one nondeterministic verdict); `db_health`'s
report and `db_aggregate`'s grouping; TLS, time-outs and the lists of tables and columns in
the configuration; rate limiting and logging (library configuration, I/O); what TRUNCATE
CASCADE reaches; sessions of the HTTP transport after their set-up, which are never found
again; rendering, and the pages that only read. `PROJECT.json` lists these with their
components.

## Plan

1. Done: every component with state that several activities share, and the SQL builders.
2. Proofs: done for every safety property of the runs.
3. Abstract specifications: a store of snapshots implemented by `Snapshots` as long as no
   mishap happens; a manager (per database: down, connecting, up) implemented by
   `ConnectionManager`.
4. What TRUNCATE CASCADE reaches, with a dump as a set of tables.
