------------------------- MODULE ConnectionManager -------------------------
(***************************************************************************)
(* The MCP server's connection manager (server/src/connectionManager.ts):  *)
(* one lazily opened pg.Pool per configured database, shared by every tool *)
(* call that is in progress.  A tool call asks for its database with       *)
(* get(name); get probes the pool it finds, ends a pool whose probe fails, *)
(* and reconnects, joining a connection attempt already in flight.         *)
(*                                                                         *)
(* The server is one Node.js thread: a step of this model runs from the    *)
(* answer of one I/O operation (or a new request) to the next await on     *)
(* I/O.  Chains of already settled promises resume within the step, as the *)
(* microtask queue is drained before the next I/O callback.                *)
(*                                                                         *)
(* Queries on a pool may succeed or fail at any time: an outage, a         *)
(* timeout waiting for a free client and a broken socket look the same to  *)
(* this code.  Ending a pool waits for its checked-out clients, so it may  *)
(* take arbitrarily long.                                                  *)
(***************************************************************************)
EXTENDS FiniteSets

CONSTANTS
    Databases,   \* the configured database names
    Default,     \* the default database when the server starts
    Calls,       \* concurrent activities: start-up, background probes, tool calls
    Main,        \* the start-up sequence, later the tool handlers it created
    Pools,       \* identities of pg.Pool objects; one nothing refers to is reused
    None         \* null / undefined

ASSUME DefaultAssumption == Default \in Databases
ASSUME MainAssumption == Main \in Calls
ASSUME NoneAssumption == None \notin Databases \cup Calls \cup Pools

VARIABLES
    status,      \* DatabaseEntry.status of every database
    pool,        \* DatabaseEntry.pool of every database
    connecting,  \* the `connecting` map: which call runs the attempt others join
    poolPhase,   \* life of a pg.Pool: open, ending (end() called), ended
    phase,       \* where each activity is suspended
    target,      \* the database an activity in progress asked for
    held,        \* the pool an activity is probing, ending, connecting or using
    serving      \* start-up is over: probes and tool calls may come

entryVars == <<status, pool, connecting>>
callVars == <<phase, target, held>>
vars == <<entryVars, poolPhase, callVars, serving>>

Status == {"not_connected", "connecting", "connected", "error"}
PoolPhase == {"open", "ending", "ended"}
Phase == {"boot", "idle", "probing", "ending", "joined", "connecting",
          "discarding", "using", "handlers"}

TypeOK ==
    /\ status \in [Databases -> Status]
    /\ pool \in [Databases -> Pools \cup {None}]
    /\ connecting \in [Databases -> Calls \cup {None}]
    /\ poolPhase \in [Pools -> PoolPhase]
    /\ phase \in [Calls -> Phase]
    /\ target \in [Calls -> Databases \cup {None}]
    /\ held \in [Calls -> Pools \cup {None}]
    /\ serving \in BOOLEAN

\* What register and buildDatabaseEntry leave behind, before connectDefault runs.
Init ==
    /\ status = [d \in Databases |-> "not_connected"]
    /\ pool = [d \in Databases |-> None]
    /\ connecting = [d \in Databases |-> None]
    /\ poolPhase = [p \in Pools |-> "ended"]
    /\ phase = [c \in Calls |-> IF c = Main THEN "boot" ELSE "idle"]
    /\ target = [c \in Calls |-> IF c = Main THEN Default ELSE None]
    /\ held = [c \in Calls |-> None]
    /\ serving = FALSE

-----------------------------------------------------------------------------
(***************************************************************************)
(* Steps shared by the operations.                                         *)
(***************************************************************************)

\* Pool identities no entry and no activity refers to.
FreePools ==
    {p \in Pools : /\ \A d \in Databases : pool[d] # p
                   /\ \A c \in Calls : held[c] # p}

\* The activities that resume when the attempt run by c settles: c itself and
\* whoever awaits the promise found in the `connecting` map.
Resumed(c) ==
    {c} \cup {x \in Calls : phase[x] = "joined" /\ target[x] = target[c]}

\* Mutant of OpenPool: a status DatabaseEntry does not know.
OpenPoolOddStatus(c, d, pp) ==
    /\ FreePools # {}
    /\ LET p == CHOOSE q \in FreePools : TRUE IN
        /\ status' = [status EXCEPT ![d] = "opening"]
        /\ poolPhase' = [pp EXCEPT ![p] = "open"]
        /\ phase' = [phase EXCEPT ![c] = "connecting"]
        /\ held' = [held EXCEPT ![c] = p]

\* The body of connect() up to its first query: mark the entry, create a pool.
\* pp is the life of the pools when it runs.
OpenPool(c, d, pp) ==
    /\ FreePools # {}
    /\ LET p == CHOOSE q \in FreePools : TRUE IN
        /\ status' = [status EXCEPT ![d] = "connecting"]
        /\ poolPhase' = [pp EXCEPT ![p] = "open"]
        /\ phase' = [phase EXCEPT ![c] = "connecting"]
        /\ held' = [held EXCEPT ![c] = p]

\* The tail of get(), entered with the entry's status at s and the pools at pp:
\* join the attempt in flight ...
JoinAttempt(c, d, s, pp) ==
    /\ connecting[d] # None
    /\ status' = [status EXCEPT ![d] = s]
    /\ poolPhase' = pp
    /\ phase' = [phase EXCEPT ![c] = "joined"]
    /\ held' = [held EXCEPT ![c] = None]
    /\ UNCHANGED connecting

\* Mutant of StartAttempt: the promise is not put in the map.
StartAttemptUnlisted(c, d, pp) ==
    /\ connecting[d] = None
    /\ OpenPool(c, d, pp)
    /\ UNCHANGED connecting

\* ... or start one and put its promise in the map.
StartAttempt(c, d, pp) ==
    /\ connecting[d] = None
    /\ connecting' = [connecting EXCEPT ![d] = c]
    /\ OpenPool(c, d, pp)

\* Mutant of ConnectOrJoin: the status, not the map, tells whether to join.
JoinByStatus(c, d, s, pp) ==
    \/ s = "connecting" /\ JoinAttempt(c, d, s, pp)
    \/ /\ s # "connecting"
       /\ connecting' = [connecting EXCEPT ![d] = c]
       /\ OpenPool(c, d, pp)

ConnectOrJoin(c, d, s, pp) ==
    \/ JoinAttempt(c, d, s, pp)
    \/ StartAttempt(c, d, pp)

\* get() rejects, or the tool call is over.
Leave(c) ==
    /\ phase' = [phase EXCEPT ![c] = "idle"]
    /\ target' = [target EXCEPT ![c] = None]
    /\ held' = [held EXCEPT ![c] = None]

-----------------------------------------------------------------------------
(***************************************************************************)
(* get(name), called for a tool's `database` argument, for each database   *)
(* by db_health, and for the remaining databases right after start-up.     *)
(***************************************************************************)

\* A new call that finds a connected entry: it verifies the pool with SELECT 1.
GetProbe(c, d) ==
    /\ serving /\ c # Main /\ phase[c] = "idle"
    /\ status[d] = "connected" /\ pool[d] # None
    /\ target' = [target EXCEPT ![c] = d]
    /\ phase' = [phase EXCEPT ![c] = "probing"]
    /\ held' = [held EXCEPT ![c] = pool[d]]
    /\ UNCHANGED <<entryVars, poolPhase, serving>>

\* A new call that finds no usable entry: it connects, or joins who does.
GetConnect(c, d) ==
    /\ serving /\ c # Main /\ phase[c] = "idle"
    /\ ~(status[d] = "connected" /\ pool[d] # None)
    /\ target' = [target EXCEPT ![c] = d]
    /\ ConnectOrJoin(c, d, status[d], poolPhase)
    /\ UNCHANGED <<pool, serving>>

\* Mutant of ProbeOk: reads the default's entry instead of the one asked for.
ProbeOkOfDefault(c) ==
    /\ phase[c] = "probing"
    /\ poolPhase[held[c]] # "ended"
    /\ \/ /\ pool[Default] # None
          /\ held' = [held EXCEPT ![c] = pool[Default]]
          /\ phase' = [phase EXCEPT ![c] = "using"]
          /\ UNCHANGED target
       \/ /\ pool[Default] = None
          /\ Leave(c)
    /\ UNCHANGED <<entryVars, poolPhase, serving>>

\* The probe is answered.  get returns the entry, and the caller reads entry.pool
\* only now: it may be another pool than the probed one, one being ended, or null,
\* for which the call is refused.  A pool that has ended answers nothing.
ProbeOk(c) ==
    /\ phase[c] = "probing"
    /\ poolPhase[held[c]] # "ended"
    /\ \/ /\ pool[target[c]] # None
          /\ held' = [held EXCEPT ![c] = pool[target[c]]]
          /\ phase' = [phase EXCEPT ![c] = "using"]
          /\ UNCHANGED target
       \/ /\ pool[target[c]] = None
          /\ Leave(c)
    /\ UNCHANGED <<entryVars, poolPhase, serving>>

\* The probe failed and the entry has lost its pool meanwhile: null.end() throws
\* inside the catch block, and get rejects.
ProbeFailNoPool(c) ==
    /\ phase[c] = "probing"
    /\ pool[target[c]] = None
    /\ Leave(c)
    /\ UNCHANGED <<entryVars, poolPhase, serving>>

\* The probe failed: end whichever pool the entry has now and wait for its clients.
ProbeFailEnd(c) ==
    /\ phase[c] = "probing"
    /\ LET q == pool[target[c]] IN
        /\ q # None
        /\ poolPhase[q] = "open"
        /\ poolPhase' = [poolPhase EXCEPT ![q] = "ending"]
        /\ held' = [held EXCEPT ![c] = q]
    /\ phase' = [phase EXCEPT ![c] = "ending"]
    /\ UNCHANGED <<entryVars, target, serving>>

\* Mutant of ProbeFailReset: connects without resetting the entry.
ProbeFailNoReset(c) ==
    /\ phase[c] = "probing"
    /\ LET q == pool[target[c]] IN q # None /\ poolPhase[q] # "open"
    /\ ConnectOrJoin(c, target[c], "not_connected", poolPhase)
    /\ UNCHANGED <<pool, target, serving>>

\* The probe failed and the pool is being ended by someone else: the second end()
\* rejects at once, is swallowed, and this call resets the entry and connects.
ProbeFailReset(c) ==
    /\ phase[c] = "probing"
    /\ LET q == pool[target[c]] IN q # None /\ poolPhase[q] # "open"
    /\ pool' = [pool EXCEPT ![target[c]] = None]
    /\ ConnectOrJoin(c, target[c], "not_connected", poolPhase)
    /\ UNCHANGED <<target, serving>>

\* Mutant of EndDone: the entry keeps the ended pool.
EndDoneKeepsPool(c) ==
    /\ phase[c] = "ending"
    /\ ConnectOrJoin(c, target[c], "not_connected",
                     [poolPhase EXCEPT ![held[c]] = "ended"])
    /\ UNCHANGED <<pool, target, serving>>

\* The pool this call ended has let its last client go: reset the entry, whatever
\* it holds by now, and connect.
EndDone(c) ==
    /\ phase[c] = "ending"
    /\ pool' = [pool EXCEPT ![target[c]] = None]
    /\ ConnectOrJoin(c, target[c], "not_connected",
                     [poolPhase EXCEPT ![held[c]] = "ended"])
    /\ UNCHANGED <<target, serving>>

-----------------------------------------------------------------------------
(***************************************************************************)
(* connect(entry): run for get, and for connectDefault at start-up.        *)
(***************************************************************************)

\* connectDefault() calls connect directly, outside the `connecting` map.
ConnectDefault ==
    /\ phase[Main] = "boot"
    /\ OpenPool(Main, Default, poolPhase)
    /\ UNCHANGED <<pool, connecting, target, serving>>

\* waitForConnection succeeded: publish the pool, clear the map, resume everyone.
ConnectOk(c) ==
    /\ phase[c] = "connecting"
    /\ LET d == target[c] IN
        /\ pool' = [pool EXCEPT ![d] = held[c]]
        /\ status' = [status EXCEPT ![d] = "connected"]
        /\ connecting' = [connecting EXCEPT ![d] = None]
    /\ phase' = [x \in Calls |-> IF x \in Resumed(c) THEN "using" ELSE phase[x]]
    /\ held' = [x \in Calls |-> IF x \in Resumed(c) THEN held[c] ELSE held[x]]
    /\ UNCHANGED <<poolPhase, target, serving>>

\* Every retry of waitForConnection failed: record the error, end the new pool.
ConnectFail(c) ==
    /\ phase[c] = "connecting"
    /\ status' = [status EXCEPT ![target[c]] = "error"]
    /\ poolPhase' = [poolPhase EXCEPT ![held[c]] = "ending"]
    /\ phase' = [phase EXCEPT ![c] = "discarding"]
    /\ UNCHANGED <<pool, connecting, target, held, serving>>

\* Mutant of DiscardDone: the map is cleared only on success.
DiscardKeepsPromise(c) ==
    /\ phase[c] = "discarding"
    /\ poolPhase' = [poolPhase EXCEPT ![held[c]] = "ended"]
    /\ phase' = [x \in Calls |-> IF x \in Resumed(c) THEN "idle" ELSE phase[x]]
    /\ target' = [x \in Calls |-> IF x \in Resumed(c) THEN None ELSE target[x]]
    /\ held' = [x \in Calls |-> IF x \in Resumed(c) THEN None ELSE held[x]]
    /\ serving' = TRUE
    /\ UNCHANGED <<status, pool, connecting>>

\* Mutant of DiscardDone: those who joined the attempt are not told.
DiscardForgetsJoined(c) ==
    /\ phase[c] = "discarding"
    /\ connecting' = [connecting EXCEPT ![target[c]] = None]
    /\ poolPhase' = [poolPhase EXCEPT ![held[c]] = "ended"]
    /\ Leave(c)
    /\ serving' = TRUE
    /\ UNCHANGED <<status, pool>>

\* The new pool has ended: clear the map and reject everyone who waited.  A start-up
\* that fails leaves no tool handlers behind.
DiscardDone(c) ==
    /\ phase[c] = "discarding"
    /\ connecting' = [connecting EXCEPT ![target[c]] = None]
    /\ poolPhase' = [poolPhase EXCEPT ![held[c]] = "ended"]
    /\ phase' = [x \in Calls |-> IF x \in Resumed(c) THEN "idle" ELSE phase[x]]
    /\ target' = [x \in Calls |-> IF x \in Resumed(c) THEN None ELSE target[x]]
    /\ held' = [x \in Calls |-> IF x \in Resumed(c) THEN None ELSE held[x]]
    /\ serving' = TRUE
    /\ UNCHANGED <<status, pool>>

\* Start-up has read the server version on its pool: createHandlers keeps the pool
\* the default entry has at that moment for as long as the server runs.
CreateHandlers ==
    /\ phase[Main] = "using"
    /\ phase' = [phase EXCEPT ![Main] = "handlers"]
    /\ held' = [held EXCEPT ![Main] = pool[Default]]
    /\ serving' = TRUE
    /\ UNCHANGED <<entryVars, poolPhase, target>>

\* The tool has finished its queries on the pool it was given.
Finish(c) ==
    /\ c # Main /\ phase[c] = "using"
    /\ Leave(c)
    /\ UNCHANGED <<entryVars, poolPhase, serving>>

-----------------------------------------------------------------------------

Get(c) == \E d \in Databases : GetProbe(c, d) \/ GetConnect(c, d)

\* What I/O or a timer will eventually make an activity do.
Resume(c) ==
    \/ ProbeOk(c) \/ ProbeFailNoPool(c) \/ ProbeFailEnd(c) \/ ProbeFailReset(c)
    \/ EndDone(c)
    \/ ConnectOk(c) \/ ConnectFail(c) \/ DiscardDone(c)
    \/ Finish(c)

Startup == ConnectDefault \/ CreateHandlers

Next == Startup \/ \E c \in Calls : Get(c) \/ Resume(c)

\* New calls need not come.  Every suspended step ends: a connection attempt by its
\* timeout and its three retries, a query by the statement timeout or the loss of
\* its socket, and end() once the checked-out clients' queries are over.
Fairness ==
    /\ WF_vars(Startup)
    /\ \A c \in Calls : WF_vars(Resume(c))

Spec == Init /\ [][Next]_vars
FairSpec == Spec /\ Fairness

-----------------------------------------------------------------------------
(***************************************************************************)
(* Safety.                                                                 *)
(***************************************************************************)

\* What list() and get read as "connected" is exact: an entry has a pool exactly
\* while its status says connected.  Resets and attempts of different calls write
\* the two fields in any interleaving (connectionManager.ts:81-82, 136-137, 142).
StatusMatchesPool ==
    \A d \in Databases : pool[d] # None <=> status[d] = "connected"

\* The activities that run connect() for a database.
Attempts(d) ==
    {c \in Calls : phase[c] \in {"connecting", "discarding"} /\ target[c] = d}

\* Concurrent gets never run two connection attempts for one database, although a
\* late reset can overwrite the status "connecting" of an attempt in flight: the
\* `connecting` map, not the status, is what deduplicates (lines 85-92).
OneAttemptPerDatabase ==
    \A d \in Databases, c1, c2 \in Calls :
        c1 \in Attempts(d) /\ c2 \in Attempts(d) => c1 = c2

\* Once tool calls are served, the `connecting` map names exactly the attempt in
\* flight: a promise in it always belongs to a running attempt, so nobody joins one
\* that will not settle, and no running attempt is missing from it.
MapTracksAttempt ==
    /\ serving => \A d \in Databases, c \in Calls :
                    connecting[d] = c <=> c \in Attempts(d)
    /\ \A c \in Calls : phase[c] = "joined" => connecting[target[c]] # None

\* connect() polls when it meets the status "connecting" without a promise to join
\* (lines 119-129).  Once calls are served that never happens: the status says
\* connecting only while the map has the attempt.
NeverPolls ==
    serving => \A d \in Databases :
                 status[d] = "connecting" => connecting[d] # None

\* The pool a tool call works on never becomes the pool of another database: not
\* through the attempt it joined, nor through a reset and reconnect it raced with.
PoolOfRequestedDatabase ==
    \A c \in Calls, d \in Databases :
        phase[c] = "using" /\ pool[d] = held[c] => target[c] = d

\* A pool is published only over an empty entry: no reconnect silently replaces a
\* pool other calls may be using by another one (the entry is reset in between).
NoSilentReplacement ==
    [][\A d \in Databases :
         pool[d] # None /\ pool'[d] # pool[d] => pool'[d] = None]_vars

(***************************************************************************)
(* Liveness.                                                               *)
(***************************************************************************)

\* Every get comes back, with a pool or with an error, whichever attempt it joined
\* and whoever ended its pool.
EveryGetReturns ==
    \A c \in Calls :
        phase[c] \in {"probing", "ending", "joined", "connecting", "discarding"} ~>
            phase[c] \in {"idle", "using"}

(***************************************************************************)
(* What the code does not ensure.                                          *)
(***************************************************************************)

\* Every open pool is still reachable by someone who may end it: its database's
\* entry or the attempt that opened it.
\* The comment at connectionManager.ts:78 says of the reset path that the pool "is
\* broken" and is destroyed before reconnecting.
NoOrphanedPool ==
    \A p \in Pools : poolPhase[p] = "open" =>
        \/ \E d \in Databases : pool[d] = p
        \/ \E c \in Calls : phase[c] = "connecting" /\ held[c] = p
=============================================================================
