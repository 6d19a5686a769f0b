----------------------------- MODULE ApiServer -----------------------------
(***************************************************************************)
(* The process of the web API (api/src/index.ts, config.ts, app.ts), its   *)
(* read-only flag (routes/config.ts), and the dashboard's view of it: the  *)
(* context every page reads, which polls the flag (ReadonlyContext.tsx),   *)
(* and the settings page with the switch (routes/settings.tsx,             *)
(* useConfig.ts).                                                          *)
(*                                                                         *)
(* A restart puts the flag back to what the configuration says.            *)
(***************************************************************************)
EXTENDS Settings, FiniteSets

CONSTANTS
    Posts,         \* bound: requests of the settings page, one of the numbers from 1 each
    Requests,      \* requests of other clients: [origin, token, readonly]
    MaxUnderWay,   \* bound: polls, and reads of the configuration, under way at a time
    MaxSets,       \* bound: how often another client sets the flag
    MaxApiStarts   \* bound: starts of the process

ASSUME ApiServerAssumption ==
    /\ Requests \subseteq [origin : {"none", "allowed", "other"}, token : BOOLEAN,
                           readonly : BOOLEAN]
    /\ {MaxUnderWay, MaxSets, MaxApiStarts} \subseteq Nat

VARIABLES
    api,        \* "down" or "up"
    apiEnv,     \* process.env as the process has read it
    apiStarts,
    flag,       \* safety.readonly
    sets,
    context,    \* what the pages take the flag for; None before the first answer
    polls,      \* the answers of the polls under way
    config,     \* the flag in the settings page's cached configuration, or None
    reads,      \* the answers of the settings page's reads under way
    asked,      \* what the dialog of the switch asks for, or None
    post        \* per request: None, or [next, state]

apiVars == <<api, apiEnv, apiStarts, flag, sets,
             context, polls, config, reads, asked, post>>
process == <<api, apiEnv, apiStarts, flag, sets>>
page    == <<context, polls, config, reads, asked, post>>

ApiInit ==
    /\ api = "down" /\ apiEnv = started /\ apiStarts = 0 /\ flag = TRUE /\ sets = 0
    /\ context = None /\ polls = {} /\ config = None /\ reads = {}
    /\ asked = None
    /\ post = [p \in Posts |-> None]

-----------------------------------------------------------------------------

Production(env) == env.NODE_ENV = "production"

ConfiguredReadonly(env) == env.READONLY = "true" \/ env.ALLOW_WRITES # "true"

\* The API is not exposed without a token.
MayListen(env) ==
    /\ env.DASHBOARD_TOKEN # None \/ env.HOST \in {None, "127.0.0.1"}
    /\ Production(env) => "token" = env.DASHBOARD_TOKEN \/ env.ALLOW_NO_AUTH = "true"

ApiStart ==
    LET env == Filled(started, files.env, Keys)
    IN  /\ api = "down"
        /\ apiStarts < MaxApiStarts /\ apiStarts' = apiStarts + 1
        /\ IF MayListen(env)
             THEN api' = "up" /\ apiEnv' = env /\ flag' = ConfiguredReadonly(env)
             ELSE UNCHANGED <<api, apiEnv, flag>>
        /\ UNCHANGED sets /\ UNCHANGED page

\* A signal, or a crash: the environment and the flag go with the process.
ApiStop ==
    /\ api = "up" /\ api' = "down"
    /\ apiEnv' = started /\ flag' = TRUE
    /\ UNCHANGED <<apiStarts, sets>> /\ UNCHANGED page

\* In production the flag can be set and not be taken back.
Permitted(next) == ~Production(apiEnv) \/ next

\* The handlers in front of every route: CORS, authentication, the read-only guard, which
\* lets the switch through.
Passes(request) ==
    /\ Production(apiEnv) => request.origin # "other"
    /\ apiEnv.DASHBOARD_TOKEN # None => request.token

SetElsewhere ==
    /\ api = "up" /\ sets < MaxSets
    /\ \E request \in Requests :
         /\ Passes(request) /\ Permitted(request.readonly)
         /\ flag' = request.readonly
    /\ sets' = sets + 1
    /\ UNCHANGED <<api, apiEnv, apiStarts>> /\ UNCHANGED page

-----------------------------------------------------------------------------

\* Every three seconds a poll is sent, whether or not the last one is answered; the API
\* reads the flag for it.  (Two answers under way that are alike are one here.)
Poll ==
    /\ api = "up" /\ Cardinality(polls) < MaxUnderWay
    /\ polls' = polls \cup {flag}
    /\ UNCHANGED <<context, config, reads, asked, post>> /\ UNCHANGED process

\* Mutant of TakePolled: only the first answer is taken.
TakePolledOnce(value) == context' = IF context = None THEN value ELSE context

TakePolled(value) == context' = value

Polled(value) ==
    /\ value \in polls /\ polls' = polls \ {value}
    /\ TakePolled(value)
    /\ UNCHANGED <<config, reads, asked, post>> /\ UNCHANGED process

\* A poll that fails leaves the context as it is.
PollFails ==
    /\ \E value \in polls : polls' = polls \ {value}
    /\ UNCHANGED <<context, config, reads, asked, post>> /\ UNCHANGED process

\* The settings page reads the configuration when it comes up, or by its button; the answer
\* is cached even if the page is left meanwhile.
ReadConfig ==
    /\ api = "up" /\ Cardinality(reads) < MaxUnderWay
    /\ reads' = reads \cup {flag}
    /\ UNCHANGED <<context, polls, config, asked, post>> /\ UNCHANGED process

ConfigRead(value) ==
    /\ value \in reads /\ reads' = reads \ {value}
    /\ config' \in {config, value}
    /\ UNCHANGED <<context, polls, asked, post>> /\ UNCHANGED process

\* The switch asks for the opposite of what the page shows, in a dialog (see
\* ConfirmDialog) ...  It is disabled while an answer is awaited, and no more so when the
\* page has been left and is opened again: at any time, therefore.
RequestToggle ==
    /\ config # None /\ asked = None
    /\ asked' = ~config
    /\ UNCHANGED <<context, polls, config, reads, post>> /\ UNCHANGED process

\* By the button, or by leaving the page.
CancelToggle ==
    /\ asked # None /\ asked' = None
    /\ UNCHANGED <<context, polls, config, reads, post>> /\ UNCHANGED process

\* ... and when that is confirmed, page and context show what is asked for at once.
SendToggle ==
    /\ asked # None /\ asked' = None
    /\ \E p \in Posts :
         /\ post[p] = None
         /\ post' = [post EXCEPT ![p] = [next |-> asked, state |-> "sent"]]
    /\ context' = asked
    /\ config' = IF config = None THEN None ELSE asked
    /\ UNCHANGED <<polls, reads>> /\ UNCHANGED process

\* POST /config/readonly.
SetReadonly(p) ==
    /\ api = "up" /\ post[p] # None /\ post[p].state = "sent"
    /\ IF Permitted(post[p].next)
         THEN flag' = post[p].next /\ post' = [post EXCEPT ![p].state = "ok"]
         ELSE post' = [post EXCEPT ![p].state = "refused"] /\ UNCHANGED flag
    /\ UNCHANGED <<context, polls, config, reads, asked>>
    /\ UNCHANGED <<api, apiEnv, apiStarts, sets>>

\* The answer comes, or is lost, or the request did not get there: page and context go back
\* to the opposite then, whatever the flag of the API is.
ToggleAnswered(p) ==
    /\ post[p] # None /\ post[p].state # "done"
    /\ \E good \in {post[p].state = "ok", FALSE} :
         LET value == IF good THEN post[p].next ELSE ~post[p].next
         IN  /\ config' = IF config = None THEN None ELSE value
             /\ context' = IF good THEN context ELSE value
    /\ post' = [post EXCEPT ![p].state = "done"]
    /\ UNCHANGED <<polls, reads, asked>> /\ UNCHANGED process

ApiNext ==
    \/ ApiStart \/ ApiStop \/ SetElsewhere
    \/ Poll \/ PollFails \/ ReadConfig
    \/ RequestToggle \/ CancelToggle \/ SendToggle
    \/ \E value \in BOOLEAN : Polled(value) \/ ConfigRead(value)
    \/ \E p \in Posts : SetReadonly(p) \/ ToggleAnswered(p)

-----------------------------------------------------------------------------

\* The pages do not take the flag for something else for good, after a lost answer, a
\* refused switch, a switch of another client or a restart (ReadonlyContext.tsx:16-32,
\* settings.tsx:70-79).
ContextFollowsFlag == (api = "up" /\ context # flag) ~> (api = "down" \/ context = flag)
=============================================================================
