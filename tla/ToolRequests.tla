---------------------------- MODULE ToolRequests ----------------------------
(***************************************************************************)
(* The dashboard's tool requests that may change the database              *)
(* (web/packages/core/src/handlers.ts behind middleware/readonly.ts): row  *)
(* edits, raw statements and scripts, on the clients of one pg.Pool, with  *)
(* the read-only switch that may be turned between any two of their steps. *)
(*                                                                         *)
(* A step is one answer of PostgreSQL, with what the handler does until    *)
(* its next await.  PostgreSQL is external.  Of its settings the model has *)
(* default_transaction_read_only, which a transaction reads only when it   *)
(* begins, and which a SET SESSION keeps for the connection only once its  *)
(* transaction has committed.                                              *)
(***************************************************************************)
EXTENDS SchemaCache

CONSTANTS
    Requests,    \* concurrent requests
    Handlers,    \* the handlers that each of them may call
    Clients,     \* the connections of the pool
    Setters,     \* the kinds of requests whose SQL may handle the read-only settings
    None         \* null / undefined

ASSUME NoneAssumption == None \notin Requests \cup Clients

VARIABLES
    mode,         \* SafetyState.mode
    readonly,     \* SafetyState.readonly
    session,      \* who has set every connection's session read-only
    stage,        \* where each request is
    kind,         \* which handler it runs
    client,       \* the connection it has checked out
    txnReadonly,  \* its open transaction began read-only
    isSet,        \* its open transaction has set the session read-only
    ownSetting,   \* its SQL handles the read-only settings itself
    letInReadonly, \* the server was read-only when the request was let in
    changed       \* what it has changed and committed, until its outcome is known

safety == <<mode, readonly>>
requestVars == <<stage, kind, client, txnReadonly, isSet, ownSetting, letInReadonly, changed>>
vars == <<safety, session, requestVars, cacheVars>>

Mode == {"development", "production"}
Kind == {"edit",      \* db_create, db_upsert, db_update_many, db_delete_many
         "select",    \* db_raw_query of a SELECT
         "statement", \* db_raw_query of anything else
         "script"}    \* db_run_script
ASSUME HandlersAssumption == Handlers \in [Requests -> SUBSET Kind]
ASSUME SettersAssumption == Setters \subseteq Kind \ {"edit"}

\* default_transaction_read_only of a session is off, or on: by db_run_script's SET, or
\* by SQL of the caller's own.
Session == {"nobody", "handler", "caller"}
Stage == {"idle", "waiting", "begun", "running", "second", "committed",
          "failed", "suggesting", "resetting"}

\* A script can contain a COMMIT of its own: what it changes before and after that.
Changed == {"nothing", "before", "after"}

TypeOK ==
    /\ mode \in Mode
    /\ readonly \in BOOLEAN
    /\ session \in [Clients -> Session]
    /\ stage \in [Requests -> Stage]
    /\ kind \in [Requests -> Kind]
    /\ client \in [Requests -> Clients \cup {None}]
    /\ txnReadonly \in [Requests -> BOOLEAN]
    /\ isSet \in [Requests -> BOOLEAN]
    /\ ownSetting \in [Requests -> BOOLEAN]
    /\ letInReadonly \in [Requests -> BOOLEAN]
    /\ changed \in [Requests -> Changed]
    /\ CacheTypeOK

Init ==
    /\ mode \in Mode
    /\ readonly \in BOOLEAN
    /\ session = [c \in Clients |-> "nobody"]
    /\ stage = [r \in Requests |-> "idle"]
    /\ kind = [r \in Requests |-> "edit"]
    /\ client = [r \in Requests |-> None]
    /\ txnReadonly = [r \in Requests |-> FALSE]
    /\ isSet = [r \in Requests |-> FALSE]
    /\ ownSetting = [r \in Requests |-> FALSE]
    /\ letInReadonly = [r \in Requests |-> FALSE]
    /\ changed = [r \in Requests |-> "nothing"]
    /\ CacheInit

-----------------------------------------------------------------------------

GoTo(r, s) == stage' = [stage EXCEPT ![r] = s]

Free == {c \in Clients : \A r \in Requests : client[r] # c}

\* Nothing of what the request has done matters any more.
Settle(r) ==
    /\ txnReadonly' = [txnReadonly EXCEPT ![r] = FALSE]
    /\ isSet' = [isSet EXCEPT ![r] = FALSE]
    /\ ownSetting' = [ownSetting EXCEPT ![r] = FALSE]
    /\ letInReadonly' = [letInReadonly EXCEPT ![r] = FALSE]
    /\ changed' = [changed EXCEPT ![r] = "nothing"]

\* The request is answered and its client, if it has one, is back in the pool.
Leave(r) ==
    /\ GoTo(r, "idle")
    /\ kind' = [kind EXCEPT ![r] = "edit"]
    /\ client' = [client EXCEPT ![r] = None]
    /\ Settle(r)

\* It goes on to s with its client.
Stay(r, s) ==
    /\ GoTo(r, s)
    /\ UNCHANGED <<kind, client>>
    /\ Settle(r)

\* What the session of r's client is once its open transaction has committed.
SetBy(r) ==
    IF ownSetting[r] THEN {"nobody", "caller"}
    ELSE IF isSet[r] THEN {"handler"} ELSE {session[client[r]]}

\* A transaction of r commits, with a change in it or without one.  A change needs a
\* transaction that is not read-only; a script can make its own writable again before
\* its first query.  The session keeps what was set last: by the SQL itself, or by the
\* handler.
CommitTransaction(r) ==
    /\ \/ /\ ~txnReadonly[r] \/ (ownSetting[r] /\ kind[r] = "script")
          /\ changed' = [changed EXCEPT ![r] = IF stage[r] = "second" THEN "after" ELSE "before"]
          /\ StructureChanges
       \/ UNCHANGED <<changed, cacheVars>>
    /\ \E s \in SetBy(r) : session' = [session EXCEPT ![client[r]] = s]
    /\ isSet' = [isSet EXCEPT ![r] = FALSE]

-----------------------------------------------------------------------------
(***************************************************************************)
(* A request is let in and gets a client.                                  *)
(***************************************************************************)

\* The guard in front of the routes and the handler's own check, in one go: read-only
\* lets SELECTs and scripts through.
Allowed(k) == readonly => k \in {"select", "script"}

\* SQL of the caller's own can SET, RESET or set_config the read-only settings, and a
\* script can undo the handler's SET by a ROLLBACK.  The check on scripts in read-only
\* mode refuses READ WRITE, `= off` and `= false`, and no other way to say it.
MaySet(k) == k \in Setters

Admit(r) ==
    /\ stage[r] = "idle"
    /\ \E k \in Handlers[r], own \in BOOLEAN :
         /\ Allowed(k)
         /\ own => MaySet(k)
         /\ kind' = [kind EXCEPT ![r] = k]
         /\ ownSetting' = [ownSetting EXCEPT ![r] = own]
    /\ letInReadonly' = [letInReadonly EXCEPT ![r] = readonly]
    /\ GoTo(r, "waiting")
    /\ UNCHANGED <<safety, session, client, txnReadonly, isSet, changed, cacheVars>>

\* The pool hands out a free client.  An edit sends its one statement at once, in a
\* transaction of its own; the others BEGIN one and set their timeout.  A SELECT also
\* gets SET LOCAL default_transaction_read_only, which its transaction, having begun,
\* does not look at.
Take(r) ==
    /\ stage[r] = "waiting"
    /\ \E c \in Free :
         /\ client' = [client EXCEPT ![r] = c]
         /\ txnReadonly' = [txnReadonly EXCEPT ![r] = session[c] # "nobody"]
    /\ GoTo(r, IF kind[r] = "script" THEN "begun" ELSE "running")
    /\ UNCHANGED <<safety, session, kind, isSet, ownSetting, letInReadonly, changed, cacheVars>>

\* No client within connectionTimeoutMillis; or, before that, an edit's table cannot
\* be resolved, its rows cannot be counted, it is a dry run or lacks confirmAll.
TurnedAway(r) ==
    /\ stage[r] = "waiting"
    /\ Leave(r)
    /\ UNCHANGED <<safety, session, cacheVars>>

\* Mutant of Protect: only the admission looks at the switch.
ProtectNobody(r) ==
    /\ stage[r] = "begun"
    /\ GoTo(r, "running")
    /\ UNCHANGED <<safety, session, kind, client, txnReadonly, isSet, ownSetting, letInReadonly,
                   changed, cacheVars>>

\* db_run_script looks at the switch again and sets the session read-only.
Protect(r) ==
    /\ stage[r] = "begun"
    /\ isSet' = [isSet EXCEPT ![r] = readonly]
    /\ GoTo(r, "running")
    /\ UNCHANGED <<safety, session, kind, client, txnReadonly, ownSetting, letInReadonly, changed,
                   cacheVars>>

-----------------------------------------------------------------------------
(***************************************************************************)
(* The SQL runs.                                                           *)
(***************************************************************************)

\* A COMMIT in a script (of which it has at most one here): the rest of the script runs
\* in a transaction that begins under what the session then has.
InnerCommit(r) ==
    /\ kind[r] = "script" /\ stage[r] = "running"
    /\ CommitTransaction(r)
    /\ txnReadonly' = [txnReadonly EXCEPT ![r] = session'[client[r]] # "nobody"]
    /\ GoTo(r, "second")
    /\ UNCHANGED <<safety, kind, client, ownSetting, letInReadonly>>

\* The SQL, or the rest of it, succeeds and its transaction commits: by the handler's
\* COMMIT, at the end of an edit's only statement, or at the end of the script.
Commit(r) ==
    /\ stage[r] \in {"running", "second"}
    /\ CommitTransaction(r)
    /\ GoTo(r, "committed")
    /\ txnReadonly' = [txnReadonly EXCEPT ![r] = FALSE]
    /\ UNCHANGED <<safety, kind, client, ownSetting, letInReadonly>>

\* A statement fails: its own error, the timeout, or a change in a read-only
\* transaction.  What the transaction has set is undone with it.
Fail(r) ==
    /\ stage[r] \in {"begun", "running", "second"}
    /\ IF kind[r] = "edit" THEN Leave(r) ELSE Stay(r, "failed")
    /\ IF changed[r] # "nothing" THEN ChangeUnnoticed ELSE UNCHANGED cacheVars
    /\ UNCHANGED <<safety, session>>

\* The connection breaks, before or after a COMMIT it does not answer.  The pool drops
\* the connection and opens another in its place.
Break(r) ==
    /\ stage[r] \in {"begun", "running", "second", "committed", "failed", "resetting"}
    /\ session' = [session EXCEPT ![client[r]] = "nobody"]
    /\ IF changed[r] # "nothing" THEN ChangeUnnoticed ELSE UNCHANGED cacheVars
    /\ Leave(r)
    /\ UNCHANGED safety

-----------------------------------------------------------------------------
(***************************************************************************)
(* What follows.                                                           *)
(***************************************************************************)

\* The `finally` of db_run_script: in read-only mode, as of now, it sets the session
\* back before the client is released.
ResetOrLeave(r) ==
    IF kind[r] = "script" /\ readonly THEN Stay(r, "resetting") ELSE Leave(r)

\* Mutant of Answered: only what looks like a write drops the cache.
AnsweredKeepsCache(r) ==
    /\ stage[r] = "committed"
    /\ IF kind[r] \in {"select", "script"} THEN UNCHANGED cacheVars ELSE Invalidate
    /\ ResetOrLeave(r)
    /\ UNCHANGED <<safety, session>>

\* The commit is answered.  All but a SELECT drop the cached structure; a SELECT that
\* changed something, through a function or SELECT INTO, leaves it.
Answered(r) ==
    /\ stage[r] = "committed"
    /\ IF kind[r] # "select" THEN Invalidate
       ELSE IF changed[r] # "nothing" THEN ChangeUnnoticed ELSE UNCHANGED cacheVars
    /\ ResetOrLeave(r)
    /\ UNCHANGED <<safety, session>>

\* ROLLBACK.  For an unknown name in raw SQL, in
\* development, the error is to list the known ones: if they are not in a fresh cache
\* they are read through the pool, while the client of the failed transaction is held.
RollBack(r) ==
    /\ stage[r] = "failed"
    /\ \/ ResetOrLeave(r)
       \/ mode = "development" /\ kind[r] \in {"select", "statement"} /\ Stay(r, "suggesting")
    /\ UNCHANGED <<safety, session, cacheVars>>

\* Its queries, those of one more reader of the structure, get another client ...
Suggest(r) ==
    /\ stage[r] = "suggesting"
    /\ Free # {}
    /\ Leave(r)
    /\ UNCHANGED <<safety, session, cacheVars>>

\* Mutant of SuggestInVain: no connectionTimeoutMillis.
SuggestAtAnyPrice(r) ==
    /\ stage[r] = "suggesting"
    /\ Free # {}
    /\ Leave(r)
    /\ UNCHANGED <<safety, session, cacheVars>>

\* ... or one of them fails, at the latest when no client came free in time.
SuggestInVain(r) ==
    /\ stage[r] = "suggesting"
    /\ Leave(r)
    /\ UNCHANGED <<safety, session, cacheVars>>

\* SET SESSION default_transaction_read_only = off, and the client is released.
Reset(r) ==
    /\ stage[r] = "resetting"
    /\ session' = [session EXCEPT ![client[r]] = "nobody"]
    /\ Leave(r)
    /\ UNCHANGED <<safety, cacheVars>>

-----------------------------------------------------------------------------

\* Mutant of SwitchReadonly: the switch works both ways in production too.
SwitchFreely ==
    /\ readonly' = ~readonly
    /\ UNCHANGED <<mode, session, requestVars, cacheVars>>

\* POST /config/readonly: in production it can only be turned on.
SwitchReadonly ==
    /\ ~(mode = "production" /\ readonly)
    /\ readonly' = ~readonly
    /\ UNCHANGED <<mode, session, requestVars, cacheVars>>

\* What the pool, PostgreSQL or a timer makes a request do.
Step(r) ==
    \/ Take(r) \/ TurnedAway(r) \/ Protect(r)
    \/ InnerCommit(r) \/ Commit(r) \/ Fail(r)
    \/ Answered(r) \/ RollBack(r) \/ Suggest(r) \/ SuggestInVain(r) \/ Reset(r)

Next ==
    \/ \E r \in Requests : Admit(r) \/ Step(r) \/ Break(r)
    \/ SwitchReadonly
    \/ Reading /\ UNCHANGED <<safety, session, requestVars>>

Spec == Init /\ [][Next]_vars

\* Every query is answered or times out, and waiting for a client ends by
\* connectionTimeoutMillis.
FairSpec == Spec /\ \A r \in Requests : WF_vars(Step(r))

-----------------------------------------------------------------------------
(***************************************************************************)
(* Safety.                                                                 *)
(***************************************************************************)

\* In production the setting that the handler makes for a script never outlives it:
\* whatever scripts run, fail, commit by themselves or lose their connection, and
\* whenever the switch is turned, a free client's session is read-only only where the
\* SQL of a request has itself made it so (handlers.ts:514 and 531 each read the switch
\* anew).
ClientsComeBackClean ==
    mode = "production" => \A c \in Free : session[c] # "handler"

\* In production the session setting does protect what a script does after a COMMIT of
\* its own: let in while the server is read-only, it changes nothing there unless it
\* handles the setting itself, whatever an earlier user has left on its client.
NoChangeAfterOwnCommit ==
    mode = "production" =>
        \A r \in Requests : letInReadonly[r] /\ ~ownSetting[r] => changed[r] # "after"

\* The cache is behind the database only between a commit and its answer, unless a load
\* was overtaken by the change or the handler took the outcome for one without change.
CacheFollowsWrites ==
    cache = "outdated" =>
        \E r \in Requests : changed[r] # "nothing" /\ stage[r] \in {"second", "committed"}

(***************************************************************************)
(* Liveness.                                                               *)
(***************************************************************************)

\* Every request is answered, also when all clients are held by requests that wait for
\* one more to list the known names in their error (handlers.ts:455-460).
EveryRequestEnds == \A r \in Requests : stage[r] # "idle" ~> stage[r] = "idle"

(***************************************************************************)
(* What the code does not ensure.                                          *)
(***************************************************************************)

\* web/README.md:162, of READONLY: "`true` blocks every write, even with
\* ALLOW_WRITES=true".  A request let in while the server is read-only changes nothing.
ReadonlyBlocksWrites ==
    \A r \in Requests : letInReadonly[r] => changed[r] = "nothing"

\* As ClientsComeBackClean and for every SQL: fails when the SQL sets the session itself
\* while the server is not read-only, since handlers.ts:531 then resets nothing.
EveryClientComesBackClean == mode = "production" => \A c \in Free : session[c] = "nobody"

\* As NoChangeAfterOwnCommit and for every script: fails for COMMIT; SET ... TO off; and
\* the change, which READ_WRITE_OVERRIDE_RE (handlers.ts:59) does not notice.
EveryScriptIsProtected ==
    mode = "production" => \A r \in Requests : letInReadonly[r] => changed[r] # "after"
=============================================================================
