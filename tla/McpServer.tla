----------------------------- MODULE McpServer -----------------------------
(***************************************************************************)
(* The start of the MCP server (server/src/index.ts, config.ts): how it    *)
(* comes to the databases it serves and to their protection.               *)
(*                                                                         *)
(* With the stdio transport the process sets itself up once.  With the     *)
(* HTTP transport every client's first request sets up a server of its own *)
(* in the same process (httpTransport.ts), from the files as they are then *)
(* and from the environment of the process, which every set-up fills up.   *)
(***************************************************************************)
EXTENDS Settings

CONSTANTS
    Clients,       \* the stdio transport has one
    Http,          \* --transport=http
    ReadonlyFlag,  \* --readonly
    Chosen,        \* --database, or None
    BadUrls,       \* strings URL() does not take
    Unresolved,    \* one of them: a $NAME that stays as it is
    MaxMcpStarts   \* bound: starts of the process

ASSUME McpServerAssumption ==
    /\ Http \in BOOLEAN /\ ReadonlyFlag \in BOOLEAN
    /\ Chosen \in Names \cup {None} /\ None \notin Names
    /\ BadUrls \subseteq Urls /\ Unresolved \in BadUrls
    /\ MaxMcpStarts \in Nat

Server == [mode     : {"not configured", "single", "multi"},
           url      : [Names -> Urls \cup {None}],
           readonly : [Names -> BOOLEAN]]

VARIABLES
    mcp,        \* "down" or "up"
    mcpEnv,     \* process.env
    session,    \* per client: None, or [server, basis, state, tools]
    mcpStarts,
    readFrom    \* history: the files process.env has been filled up from

mcpVars == <<mcp, mcpEnv, session, mcpStarts, readFrom>>

McpInit ==
    /\ mcp = "down" /\ mcpEnv = started
    /\ session = [c \in Clients |-> None]
    /\ mcpStarts = 0 /\ readFrom = {}

-----------------------------------------------------------------------------

\* The environment and the file must not name two databases.
UrlsConflict(env, file) ==
    /\ None \notin {env.DATABASE_URL, file.DATABASE_URL}
    /\ env.DATABASE_URL # file.DATABASE_URL

DatabaseUrl(env, file) ==
    IF env.DATABASE_URL # None THEN env.DATABASE_URL ELSE file.DATABASE_URL

\* Mutant of FillEnv: DATABASE_URL is filled in, too.
FillEnvWithUrl(env, file) == IF UrlsConflict(env, file) THEN env ELSE Filled(env, file, Keys)

\* process.env after the configuration has been read; a conflict is thrown before.
FillEnv(env, file) ==
    IF UrlsConflict(env, file) THEN env ELSE Filled(env, file, Keys \ {"DATABASE_URL"})

ResolveReadonly(env) == ReadonlyFlag \/ env.ALLOW_WRITES # "true"

Or(value, otherwise) == IF value = None THEN otherwise ELSE value

\* Both files can be read, and agree with the environment and the arguments.  A URL in
\* pgautopilot.json that is none is refused with the file; only a $NAME is not looked at.
Configured(env, version) ==
    /\ ~UrlsConflict(env, version.env)
    /\ version.json # Malformed
    /\ version.json = None => DatabaseUrl(env, version.env) \notin {None} \cup BadUrls
    /\ version.json # None =>
         /\ \A n \in Names : version.json.url[n] \notin BadUrls
         /\ Chosen # None => version.json.url[Chosen] # None

NotConfigured == [mode     |-> "not configured",
                  url      |-> [n \in Names |-> None],
                  readonly |-> [n \in Names |-> TRUE]]

Single(env, file) ==
    [mode     |-> "single",
     url      |-> [n \in Names |-> IF n = Default THEN DatabaseUrl(env, file) ELSE None],
     readonly |-> [n \in Names |-> ResolveReadonly(FillEnv(env, file))]]

\* resolveEnvVars: a reference becomes the value of its variable in process.env, which has
\* not got the DATABASE_URL of the file.
Interpolated(url, env) ==
    IF url \notin References THEN url ELSE Or(env[url.var], Unresolved)

\* DATABASE_URL is the database "default" if pgautopilot.json has none of that name; the
\* protection of a database is what its entry says, else what the defaults say, else that
\* of the process.
Multi(env, version) ==
    LET json    == version.json
        filled  == FillEnv(env, version.env)
        general == Or(json.defaults, ResolveReadonly(filled))
    IN  [mode     |-> "multi",
         url      |-> [n \in Names |->
                         IF json.url[n] = None /\ n = Default THEN DatabaseUrl(env, version.env)
                         ELSE Interpolated(json.url[n], filled)],
         readonly |-> [n \in Names |-> Or(json.readonly[n], general)]]

\* What the configuration comes to when process.env is env and the files are version.
Resolved(env, version) ==
    IF ~Configured(env, version) THEN NotConfigured
    ELSE IF version.json = None THEN Single(env, version.env)
    ELSE Multi(env, version)

\* A $NAME that stands for no URL, or a DATABASE_URL that is none beside pgautopilot.json,
\* ends the set-up, and the other databases with it.
HasBadEntry(server) ==
    server.mode = "multi" /\ \E n \in Names : server.url[n] \in BadUrls

-----------------------------------------------------------------------------

McpStart ==
    /\ mcp = "down"
    /\ mcpStarts < MaxMcpStarts /\ mcpStarts' = mcpStarts + 1
    /\ mcp' = "up"
    /\ UNCHANGED <<mcpEnv, session, readFrom>>

\* The process ends, and its environment and everybody's server with it.
McpStop ==
    /\ mcp = "up" /\ mcp' = "down"
    /\ mcpEnv' = started /\ readFrom' = {}
    /\ session' = [c \in Clients |-> None]
    /\ UNCHANGED mcpStarts

\* The configuration is read in one go, process.env is filled up on the way.  A server
\* without a configuration has no database to connect to, and no tool but mcp_status.
SetUp(c) ==
    LET server == Resolved(mcpEnv, files)
        filled == ~UrlsConflict(mcpEnv, files.env)
    IN  /\ mcp = "up" /\ session[c] = None
        /\ Http \/ \A d \in Clients : session[d] = None
        /\ ~HasBadEntry(server)
        /\ mcpEnv' = FillEnv(mcpEnv, files.env)
        /\ readFrom' = IF filled THEN readFrom \cup {files} ELSE readFrom
        /\ session' = [session EXCEPT ![c] =
             [server |-> server, basis |-> files, tools |-> FALSE,
              state  |-> IF server.mode = "not configured" THEN "ready" ELSE "connecting"]]
        /\ UNCHANGED <<mcp, mcpStarts>>

\* The set-up throws: an HTTP request is answered with an error, the process of the stdio
\* transport ends.
SetUpThrows(c) ==
    /\ mcp = "up" /\ session[c] = None
    /\ HasBadEntry(Resolved(mcpEnv, files))
    /\ IF Http
         THEN /\ mcpEnv' = FillEnv(mcpEnv, files.env)
              /\ readFrom' = readFrom \cup {files}
              /\ UNCHANGED <<mcp, session, mcpStarts>>
         ELSE McpStop

\* The database, the default one of several, is reached.
Connected(c) ==
    /\ session[c] # None /\ session[c].state = "connecting"
    /\ session' = [session EXCEPT ![c].state = "ready", ![c].tools = TRUE]
    /\ UNCHANGED <<mcp, mcpEnv, mcpStarts, readFrom>>

\* It is not.  With several databases the server goes on without tools; with one the
\* process ends, whatever other clients it has.
ConnectFails(c) ==
    /\ session[c] # None /\ session[c].state = "connecting"
    /\ IF session[c].server.mode = "single"
         THEN McpStop
         ELSE /\ session' = [session EXCEPT ![c].state = "ready"]
              /\ UNCHANGED <<mcp, mcpEnv, mcpStarts, readFrom>>

McpNext ==
    \/ McpStart \/ McpStop
    \/ \E c \in Clients : SetUp(c) \/ SetUpThrows(c) \/ Connected(c) \/ ConnectFails(c)

-----------------------------------------------------------------------------

\* The database is given by a $NAME.
IsReference(n, version) == version.json \in Json /\ version.json.url[n] \in References

\* What a server is set up from are the environment the process was started in and the
\* files at that time, whoever has been served before (config.ts:446-545).  Only the
\* protection, and what a $NAME stands for, may be that of other files, once the process
\* has read files that differ.
SetupsFollowFiles ==
    \A c \in Clients : session[c] # None =>
        LET server == session[c].server
            meant  == Resolved(started, session[c].basis)
        IN  /\ server.mode = meant.mode
            /\ \A n \in Names :
                 IsReference(n, session[c].basis) \/ server.url[n] = meant.url[n]
            /\ readFrom \subseteq {session[c].basis} => server = meant
=============================================================================
