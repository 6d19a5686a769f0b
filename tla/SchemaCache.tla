---------------------------- MODULE SchemaCache ----------------------------
(***************************************************************************)
(* The dashboard core's cache of the database structure                    *)
(* (web/packages/core/src/schema.ts): one module-level entry, filled by    *)
(* getSchema after a load that takes many queries, thrown away by          *)
(* invalidateSchemaCache once a change has been committed.                 *)
(*                                                                         *)
(* The structure itself is abstracted to whether a copy of it is still     *)
(* what the database has, and if it is not, how that came about.  The      *)
(* modules that change the structure extend this one.                      *)
(***************************************************************************)

CONSTANT Readers    \* concurrent getSchema calls

VARIABLES
    cache,   \* the cached structure
    load     \* what each getSchema call in progress is reading

cacheVars == <<cache, load>>

Cached == {"none",        \* empty
           "current",     \* what the database has
           "outdated",    \* was current until a change was committed
           "unnoticed",   \* outdated by a change whose COMMIT was not answered
           "overtaken"}   \* stored by a load that had started before a change
Loaded == {"idle", "current", "overtaken"}

CacheTypeOK ==
    /\ cache \in Cached
    /\ load \in [Readers -> Loaded]

CacheInit ==
    /\ cache = "none"
    /\ load = [l \in Readers |-> "idle"]

\* getSchema that may not answer from the cache: empty, older than its five
\* minutes, or a refresh was asked for.
StartLoad(l) ==
    /\ load[l] = "idle"
    /\ load' = [load EXCEPT ![l] = "current"]
    /\ UNCHANGED cache

\* The last query is answered: store the result over whatever is there.
FinishLoad(l) ==
    /\ load[l] # "idle"
    /\ cache' = load[l]
    /\ load' = [load EXCEPT ![l] = "idle"]

\* One of the queries fails: getSchema throws.
FailLoad(l) ==
    /\ load[l] # "idle"
    /\ load' = [load EXCEPT ![l] = "idle"]
    /\ UNCHANGED cache

Reading == \E l \in Readers : StartLoad(l) \/ FinishLoad(l) \/ FailLoad(l)

\* The database structure changes: what was read before is not what it has now.
StructureChanges ==
    /\ cache' = IF cache = "current" THEN "outdated" ELSE cache
    /\ load' = [l \in Readers |-> IF load[l] = "current" THEN "overtaken" ELSE load[l]]

Invalidate ==
    /\ cache' = "none"
    /\ UNCHANGED load

\* Whoever should have invalidated the cache never learnt of the change.
ChangeUnnoticed ==
    /\ cache' = IF cache = "outdated" THEN "unnoticed" ELSE cache
    /\ UNCHANGED load

\* The cache lives in the process.
CacheLost ==
    /\ cache' = "none"
    /\ load' = [l \in Readers |-> "idle"]
=============================================================================
