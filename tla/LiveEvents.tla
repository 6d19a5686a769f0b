----------------------------- MODULE LiveEvents -----------------------------
(***************************************************************************)
(* How a change of a table reaches an open page of the dashboard: the      *)
(* change detector and the hub of the API (api/src/services), the event    *)
(* streams (api/src/routes/live.ts), and in the browser useLiveTable,      *)
(* which has the query cache read the rows of the shown table again.       *)
(*                                                                         *)
(* A step is one callback.  Every stream the page ever opens has a number, *)
(* so that what the API keeps of the ones that are gone can be told.       *)
(***************************************************************************)
EXTENDS Naturals

CONSTANTS
    Tables,      \* the tables
    Streams,     \* the streams the page can open
    First,       \* the table shown first
    MaxChanges,  \* bound: how often a table changes
    None

ASSUME TablesAssumption == First \in Tables /\ MaxChanges \in [Tables -> Nat]
ASSUME NoneAssumption == None \notin Tables \cup Streams \cup Nat

Versions == UNION {0..MaxChanges[t] : t \in Tables}

VARIABLES
    version,     \* how often a table has changed
    counter,     \* what pg_stat_user_tables counts of it since the last reset
    last,        \* the counters of the detector's last poll, or None
    stream,      \* "unused", "open", "failed" (a write threw), "closed"
    listeners,   \* ChangeHub.listeners; each of these streams has a heartbeat timer, too
    gone,        \* the streams whose connection is lost, and the API has not heard of it
    pipe,        \* the tables of the events under way on a stream
    current,     \* the stream the page listens to, or None while it waits to reconnect
    active,      \* the table the page shows
    cache,       \* the version of the cached rows of a table, or None
    fresh,       \* the cached rows need not be read again
    reading,     \* the table being read, or None
    answer,      \* the version that read has got, or None
    changed,     \* history: tables that have changed since the last poll that succeeded
    unsettled,   \* history: no poll has succeeded since the start, or a reset of the counters
    lost         \* history: tables that have changed and the event could not reach the page

database == <<version, counter>>
api == <<stream, listeners>>
wire == <<gone, pipe>>
page == <<cache, fresh, reading, answer>>
history == <<changed, unsettled, lost>>
vars == <<database, last, api, wire, current, active, page, history>>

TypeOK ==
    /\ version \in [Tables -> Versions]
    /\ counter \in [Tables -> Versions]
    /\ last \in [Tables -> Versions] \cup {None}
    /\ stream \in [Streams -> {"unused", "open", "failed", "closed"}]
    /\ listeners \subseteq Streams /\ gone \subseteq Streams
    /\ pipe \in [Streams -> SUBSET Tables]
    /\ current \in Streams \cup {None}
    /\ active \in Tables
    /\ cache \in [Tables -> Versions \cup {None}]
    /\ fresh \subseteq Tables
    /\ reading \in Tables \cup {None}
    /\ answer \in Versions \cup {None}
    /\ changed \subseteq Tables /\ unsettled \in BOOLEAN /\ lost \subseteq Tables

Init ==
    /\ version = [t \in Tables |-> 0]
    /\ counter = [t \in Tables |-> 0]
    /\ last = None
    /\ stream = [s \in Streams |-> "unused"]
    /\ listeners = {} /\ gone = {}
    /\ pipe = [s \in Streams |-> {}]
    /\ current = None
    /\ active = First
    /\ cache = [t \in Tables |-> None]
    /\ fresh = {}
    /\ reading = None
    /\ answer = None
    /\ changed = {} /\ unsettled = TRUE /\ lost = {}

-----------------------------------------------------------------------------
(***************************************************************************)
(* The API.                                                                *)
(***************************************************************************)

\* The hub hands events about `tables` to every listener.  A stream that is marked closed
\* writes nothing; a write may throw, which marks the stream.
Broadcast(tables) ==
    /\ \E thrown \in SUBSET {s \in listeners : stream[s] = "open" /\ tables # {}} :
         /\ stream' = [s \in Streams |-> IF s \in thrown THEN "failed" ELSE stream[s]]
         /\ pipe' = [s \in Streams |->
                       IF s \in listeners \ thrown /\ stream[s] = "open" /\ s \notin gone
                         THEN pipe[s] \cup tables ELSE pipe[s]]
    /\ UNCHANGED <<listeners, gone>>

\* The events about `tables` that have just been handed out are on their way to a page
\* that shows the table.
Unreached(tables) ==
    {t \in tables : t # active \/ current = None \/ (current # None /\ stream'[current] = "failed")}

\* Mutant of CountersReset: one smaller counter will do.
AnyCounterReset(t) == counter[t] # last[t]

\* countersReset: each of the three counts is smaller.  Which they are is not modelled: a
\* sum that is smaller may come of three that are.
CountersReset(t) == counter[t] < last[t]

\* A poll succeeds.  The first only sets the baseline; a later one reports the tables with
\* other counts, unless they have been reset.
Poll ==
    /\ IF last = None
         THEN /\ lost' = lost \cup changed
              /\ UNCHANGED <<api, wire>>
         ELSE \E reported \in SUBSET {t \in Tables : counter[t] # last[t]} :
                /\ \A t \in Tables : counter[t] # last[t] /\ ~CountersReset(t) => t \in reported
                /\ Broadcast(reported)
                /\ lost' = lost \cup Unreached(changed \cap reported)
                                \cup (IF unsettled THEN changed \ reported ELSE {})
    /\ last' = counter
    /\ changed' = {} /\ unsettled' = FALSE
    /\ UNCHANGED <<database, current, active, page>>

\* A write throws when the heartbeat is sent.
BeatThrows(s) ==
    /\ s \in listeners /\ stream[s] = "open"
    /\ stream' = [stream EXCEPT ![s] = "failed"]
    /\ lost' = IF s = current THEN lost \cup pipe[s] ELSE lost
    /\ UNCHANGED <<database, last, listeners, wire, current, active, page, changed, unsettled>>

\* Mutant of Cleanup: the listener stays.
CleanupKeepsListener(s) ==
    /\ stream' = [stream EXCEPT ![s] = IF @ = "open" THEN "closed" ELSE @]
    /\ UNCHANGED listeners

\* The connection is closed: a stream that a failed write has marked is left as it is.
Cleanup(s) ==
    IF stream[s] = "failed" THEN UNCHANGED api
    ELSE /\ stream' = [stream EXCEPT ![s] = "closed"]
         /\ listeners' = listeners \ {s}
     
\* The API hears that the connection is gone.
Close(s) ==
    /\ s \in gone
    /\ Cleanup(s)
    /\ gone' = gone \ {s}
    /\ UNCHANGED <<database, last, pipe, current, active, page, history>>

-----------------------------------------------------------------------------
(***************************************************************************)
(* The database.                                                           *)
(***************************************************************************)

\* A program changes a table.
Change(t) ==
    /\ version[t] < MaxChanges[t]
    /\ version' = [version EXCEPT ![t] = @ + 1]
    /\ counter' = [counter EXCEPT ![t] = @ + 1]
    /\ changed' = changed \cup {t}
    /\ UNCHANGED <<last, api, wire, current, active, page, unsettled, lost>>

\* A tool of the API changes it, whose handler reports the change at once.
ToolChange(t) ==
    /\ version[t] < MaxChanges[t]
    /\ version' = [version EXCEPT ![t] = @ + 1]
    /\ counter' = [counter EXCEPT ![t] = @ + 1]
    /\ Broadcast({t})
    /\ changed' = changed \cup {t}
    /\ UNCHANGED <<last, current, active, page, unsettled, lost>>

\* The statistics are reset.
ResetStatistics ==
    /\ \E t \in Tables : counter[t] > 0
    /\ counter' = [t \in Tables |-> 0]
    /\ unsettled' = TRUE
    /\ UNCHANGED <<version, last, api, wire, current, active, page, changed, lost>>

-----------------------------------------------------------------------------
(***************************************************************************)
(* The page.                                                               *)
(***************************************************************************)

\* A stream is opened: the API subscribes it and starts its heartbeat.
Connect(s) ==
    /\ current = None
    /\ stream[s] = "unused"
    /\ stream' = [stream EXCEPT ![s] = "open"]
    /\ listeners' = listeners \cup {s}
    /\ current' = s
    /\ UNCHANGED <<database, last, wire, active, page, history>>

\* The page is without a stream: events that were under way are lost.
HangUp ==
    /\ gone' = IF current = None THEN gone ELSE gone \cup {current}
    /\ pipe' = [s \in Streams |-> IF s = current THEN {} ELSE pipe[s]]
    /\ lost' = IF current = None THEN lost ELSE lost \cup pipe[current]
    /\ current' = None

\* The connection breaks; the page connects again three seconds later.  It does not read
\* the rows again then.
Disconnect ==
    /\ current # None
    /\ HangUp
    /\ UNCHANGED <<database, last, api, active, page, changed, unsettled>>

\* Mutant of Invalidate: rows that are being read are not read again.
InvalidateIdle(t) ==
    IF t = active
      THEN /\ reading' = t
           /\ answer' = IF reading = t THEN answer ELSE None
           /\ fresh' = fresh \ {t}
      ELSE UNCHANGED <<reading, answer, fresh>>

\* invalidateQueries: rows of the shown table are read again, even if they are being read.
Invalidate(t) ==
    IF t = active
      THEN /\ reading' = t
           /\ answer' = None
           /\ fresh' = fresh \ {t}
      ELSE UNCHANGED <<reading, answer, fresh>>

\* An event about another table than the shown one is not heeded.
Receive(t) ==
    /\ current # None
    /\ t \in pipe[current]
    /\ pipe' = [pipe EXCEPT ![current] = @ \ {t}]
    /\ Invalidate(t)
    /\ lost' = IF t = active THEN lost ELSE lost \cup {t}
    /\ UNCHANGED <<database, last, api, gone, current, active, cache, changed, unsettled>>

\* The user takes up another table: a stream of its own is opened, and the rows are read
\* unless the cached ones are fresh.
Show(t) ==
    /\ t # active
    /\ active' = t
    /\ HangUp
    /\ IF cache[t] # None /\ t \in fresh
         THEN reading' = None
         ELSE reading' = t
    /\ answer' = None
    /\ UNCHANGED <<database, last, api, cache, fresh, changed, unsettled>>

\* The rows are first asked for, the refresh button is pressed - it is disabled while rows
\* are read - or the window gets the focus when its rows are not fresh any more.
Refresh ==
    /\ reading = None
    /\ Invalidate(active)
    /\ UNCHANGED <<database, last, api, wire, current, active, cache, history>>

\* staleTime has passed.
GoStale(t) ==
    /\ t \in fresh
    /\ fresh' = fresh \ {t}
    /\ UNCHANGED <<database, last, api, wire, current, active, cache, reading, answer, history>>

\* The API reads the rows: what the page has missed so far does not matter any more.
Read ==
    /\ reading # None /\ answer = None
    /\ answer' = version[reading]
    /\ lost' = lost \ {reading}
    /\ UNCHANGED <<database, last, api, wire, current, active, cache, fresh, reading, changed, unsettled>>

\* The rows arrive ...
Arrive ==
    /\ answer # None
    /\ cache' = [cache EXCEPT ![reading] = answer]
    /\ fresh' = fresh \cup {reading}
    /\ reading' = None /\ answer' = None
    /\ UNCHANGED <<database, last, api, wire, current, active, history>>

\* ... or the request fails, and the page keeps what it has.
Fail ==
    /\ reading # None
    /\ reading' = None /\ answer' = None
    /\ lost' = lost \cup {reading}
    /\ UNCHANGED <<database, last, api, wire, current, active, cache, fresh, changed, unsettled>>

Next ==
    \/ Poll \/ ResetStatistics \/ Disconnect \/ Refresh \/ Read \/ Arrive \/ Fail
    \/ \E s \in Streams : BeatThrows(s) \/ Close(s) \/ Connect(s)
    \/ \E t \in Tables : Change(t) \/ ToolChange(t) \/ Receive(t) \/ Show(t) \/ GoStale(t)

\* The detector polls again and again; what is under way on a connection that lasts
\* arrives; the API hears of a lost connection.  A poll that fails changes nothing.
Fairness ==
    /\ WF_vars(Poll)
    /\ WF_vars(Read) /\ WF_vars(Arrive)
    /\ \A s \in Streams : WF_vars(Close(s))
    /\ \A t \in Tables : WF_vars(Receive(t))

Spec == Init /\ [][Next]_vars /\ Fairness

-----------------------------------------------------------------------------

\* What the page shows, if it is not about to show something else.
Behind(t) == cache[t] # None /\ cache[t] < version[t]

\* A page that shows a table is brought up to date, unless the event could not reach it:
\* the change fell before the detector's first poll or together with a reset of the
\* statistics, another table was shown, the page was not connected when the event was sent
\* or before it arrived, or the rows could not be read (changeDetector.ts, live.ts,
\* useLiveTable.ts).
ChangesReachPage ==
    \A t \in Tables :
        (active = t /\ Behind(t) /\ t \notin lost)
            ~> (active # t \/ ~Behind(t) \/ t \in lost)

\* The API forgets a stream whose connection is gone - its listener and its timer - unless
\* a write to it has failed before (live.ts:43-48).
StreamsAreForgotten ==
    \A s \in Streams :
        s \in gone ~> s \notin listeners \/ stream[s] = "failed"
=============================================================================
