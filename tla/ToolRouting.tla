---------------------------- MODULE ToolRouting ----------------------------
(***************************************************************************)
(* How the MCP server in multi-database mode routes tool calls to pools    *)
(* (server/src/index.ts, server/src/toolHandlers.ts): start-up gives the   *)
(* default database's pool to createHandlers; a tool with a `database`     *)
(* argument goes through ConnectionManager.get; a tool without one uses    *)
(* the pool start-up gave; db_use_database moves the manager's default.    *)
(* Each pool carries the list of schemas its tools look at (setSchemas).   *)
(*                                                                         *)
(* The connection manager's steps are those of ConnectionManager; Main     *)
(* keeps the pool of the handlers in held[Main].                           *)
(***************************************************************************)
EXTENDS ConnectionManager

VARIABLES
    current,    \* ConnectionManager.defaultName
    toProbe,    \* databases start-up has still to probe in the background
    kind,       \* what an activity was started for
    schemasOf   \* whose schema list a pool carries; None is the fallback ["public"]

routingVars == <<current, toProbe, kind, schemasOf>>
allVars == <<vars, routingVars>>

Kind == {"none",    \* idle, or start-up
         "look",    \* background probe or db_health: only looks at the entry
         "tool",    \* a tool with a `database` argument
         "use",     \* db_use_database
         "default"} \* a tool without a `database` argument

RoutingTypeOK ==
    /\ TypeOK
    /\ current \in Databases
    /\ toProbe \subseteq Databases
    /\ kind \in [Calls -> Kind]
    /\ schemasOf \in [Pools -> Databases \cup {None}]

RoutingInit ==
    /\ Init
    /\ current = Default
    /\ toProbe = Databases \ {Default}
    /\ kind = [c \in Calls |-> "none"]
    /\ schemasOf = [p \in Pools |-> None]

\* createHandlers ran: the server has tools.  When the default database could not be
\* reached at start-up there are none, and only the background probes run.
HaveHandlers == phase[Main] = "handlers"

\* The schema lists after a step that leaves them at f: a pool created in the step has
\* none yet, and the list of a pool nothing refers to any more is gone with it.
Labels(f) ==
    LET created == {held'[c] : c \in {x \in Calls : phase'[x] = "connecting"
                                                  /\ phase[x] # "connecting"}}
    IN  schemasOf' = [p \in Pools |->
                        IF p \in created \/ p \in FreePools' THEN None ELSE f[p]]

-----------------------------------------------------------------------------

StartUp ==
    \/ /\ ConnectDefault
       /\ Labels(schemasOf)
       /\ UNCHANGED <<current, toProbe, kind>>
    \/ /\ CreateHandlers
       /\ schemasOf' = [schemasOf EXCEPT ![pool[Default]] = Default]
       /\ UNCHANGED <<current, toProbe, kind>>

\* Mutant of Ask: db_use_database moves the default before get has succeeded.
AskSwitchesFirst(c, d, k) ==
    /\ GetProbe(c, d) \/ GetConnect(c, d)
    /\ kind' = [kind EXCEPT ![c] = k]
    /\ Labels(schemasOf)
    /\ current' = IF k = "use" THEN d ELSE current

\* Any request that goes through get.
Ask(c, d, k) ==
    /\ GetProbe(c, d) \/ GetConnect(c, d)
    /\ kind' = [kind EXCEPT ![c] = k]
    /\ Labels(schemasOf)
    /\ UNCHANGED current

BackgroundProbe(c, d) ==
    /\ d \in toProbe
    /\ Ask(c, d, "look")
    /\ toProbe' = toProbe \ {d}

Request(c, d) ==
    /\ HaveHandlers
    /\ \E k \in {"look", "tool", "use"} : Ask(c, d, k)
    /\ UNCHANGED toProbe

\* A tool without `database`: resolveDb returns what createHandlers was given.
DefaultRequest(c) ==
    /\ HaveHandlers
    /\ c # Main /\ phase[c] = "idle"
    /\ phase' = [phase EXCEPT ![c] = "using"]
    /\ target' = [target EXCEPT ![c] = target[Main]]
    /\ held' = [held EXCEPT ![c] = held[Main]]
    /\ kind' = [kind EXCEPT ![c] = "default"]
    /\ UNCHANGED <<entryVars, poolPhase, serving, current, toProbe, schemasOf>>

-----------------------------------------------------------------------------

\* Mutant of Deliver: only db_use_database sets a pool's schema list.
DeliverLabelsSwitchOnly(S, d, q) ==
    LET uses == {c \in S : kind[c] = "use"}
        label == IF q # None THEN q ELSE IF uses # {} THEN held[Main] ELSE None
    IN  /\ current' = IF uses # {} THEN d ELSE current
        /\ Labels(IF uses # {} /\ label # None
                    THEN [schemasOf EXCEPT ![label] = d] ELSE schemasOf)
        /\ UNCHANGED toProbe

\* Mutant of Deliver: an entry without a pool leaves no default.
DeliverUnsetsDefault(S, d, q) ==
    LET uses == {c \in S : kind[c] = "use"}
    IN  /\ current' = IF uses = {} THEN current ELSE IF q = None THEN None ELSE d
        /\ Labels(IF q # None THEN [schemasOf EXCEPT ![q] = d] ELSE schemasOf)
        /\ UNCHANGED toProbe

\* The calls S get the entry of database d back, with pool q in it (or null).
\* resolveDb labels the pool with the schema list of d; db_use_database also makes d
\* the default, and labels the handlers' own pool when the entry has none.
Deliver(S, d, q) ==
    LET tools == {c \in S : kind[c] = "tool"}
        uses == {c \in S : kind[c] = "use"}
        label == IF q # None THEN q ELSE IF uses # {} THEN held[Main] ELSE None
    IN  /\ current' = IF uses # {} THEN d ELSE current
        /\ Labels(IF tools \cup uses # {} /\ label # None
                    THEN [schemasOf EXCEPT ![label] = d] ELSE schemasOf)
        /\ UNCHANGED toProbe

\* A call that is over forgets what it was for.
KindsOver == kind' = [c \in Calls |-> IF phase'[c] = "idle" THEN "none" ELSE kind[c]]

Progress(c) ==
    \/ /\ ProbeOk(c)
       /\ Deliver({c}, target[c], pool[target[c]])
       /\ KindsOver
    \/ /\ ConnectOk(c)
       /\ Deliver(Resumed(c), target[c], held[c])
       /\ KindsOver
    \/ /\ ProbeFailNoPool(c) \/ ProbeFailEnd(c) \/ ProbeFailReset(c) \/ EndDone(c)
          \/ ConnectFail(c) \/ DiscardDone(c) \/ Finish(c)
       /\ Labels(schemasOf)
       /\ KindsOver
       /\ UNCHANGED <<current, toProbe>>

RoutingNext ==
    \/ StartUp
    \/ \E c \in Calls :
         \/ \E d \in Databases : BackgroundProbe(c, d) \/ Request(c, d)
         \/ DefaultRequest(c)
         \/ Progress(c)

\* The same fairness as the connection manager's: what has started goes on.
RoutingSpec ==
    /\ RoutingInit /\ [][RoutingNext]_allVars
    /\ WF_allVars(StartUp)
    /\ \A c \in Calls : WF_allVars(Progress(c))

-----------------------------------------------------------------------------
(***************************************************************************)
(* Safety.                                                                 *)
(***************************************************************************)

\* A tool call on a database other than the start-up default sees that database's own
\* schema list for as long as it runs, whatever other calls connect, reset, switch or
\* relabel meanwhile (setSchemas in resolveDb and db_use_database).
SchemasOfOtherDatabases ==
    \A c \in Calls :
        kind[c] = "tool" /\ phase[c] = "using" /\ target[c] # Default
            => schemasOf[held[c]] = target[c]

\* The default moves only when a get of db_use_database for the new default succeeds, to
\* the database of the entry that call has got: other switches, resets and connects that
\* run while it awaits get never move it, nor does a call whose get throws
\* (toolHandlers.ts:488-490).  See SwitchAlwaysSucceeds for what the docs say of the latter.
SwitchOnlyOnSuccess ==
    [][current' # current =>
         \E c \in Calls : /\ kind[c] = "use" /\ target[c] = current'
                          /\ phase[c] \in {"probing", "joined", "connecting"}
                          /\ kind'[c] = "use" => held'[c] = pool'[current']]_allVars

(***************************************************************************)
(* What the documentation says and the code does not do.                   *)
(***************************************************************************)

\* server/src/toolDefinitions.ts:217, of db_use_database: "If the target database is
\* unreachable, the switch succeeds but subsequent tools will return a connection error
\* with guidance."  get throws, and setDefault is not reached (toolHandlers.ts:488-489).
SwitchAlwaysSucceeds ==
    [][\A c \in Calls :
         kind[c] = "use" /\ phase[c] # "using" /\ phase'[c] = "idle"
             => current' = target[c]]_allVars

\* server/skills/multi-database/SKILL.md:70, of db_use_database: "After switching, all
\* tools without an explicit `database` parameter use this database."
\* resolveDb gives them the pool of start-up.
DefaultToolsFollowSwitch ==
    HaveHandlers => target[Main] = current

\* server/CHANGELOG.md:149-150: get "verifies pool health with `SELECT 1` and
\* automatically reconnects broken pools".  When it does so for the default database,
\* the tools without `database` keep the pool that was ended.
DefaultToolsFollowReconnect ==
    HaveHandlers /\ status[Default] = "connected" => poolPhase[held[Main]] # "ended"

\* server/CHANGELOG.md:129-130: "`setSchemas()` is now scoped per-pool - different
\* databases can have different schema lists without interfering."
\* db_use_database labels the handlers' pool when the entry it got has none.
SchemasScopedPerPool ==
    HaveHandlers => schemasOf[held[Main]] = Default
=============================================================================
