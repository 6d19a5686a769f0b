------------------------------ MODULE Settings ------------------------------
(***************************************************************************)
(* What both servers are configured by: the environment they are started   *)
(* in, the .env file, and the MCP server's pgautopilot.json.  An operator  *)
(* edits the files while the servers run.                                  *)
(***************************************************************************)
EXTENDS Naturals

CONSTANTS
    None,
    Urls,       \* connection strings
    Names,      \* names of databases
    Default,    \* the name DATABASE_URL goes by
    Malformed,  \* a pgautopilot.json that is refused
    Started,    \* environments the servers may be started in
    Versions,   \* what the files may hold: [env, json]
    MaxEdits    \* bound: edits of the files

Keys == {"DATABASE_URL", "ALLOW_WRITES", "READONLY", "NODE_ENV", "HOST",
         "DASHBOARD_TOKEN", "ALLOW_NO_AUTH", "USERS_URL"}

Values == Urls \cup {None, "true", "false", "production", "token", "0.0.0.0"}

\* $NAME in pgautopilot.json.
References == [var : {"DATABASE_URL", "USERS_URL"}]

\* pgautopilot.json: the databases it defines, and what it says of their protection and of
\* the protection of those it says nothing about.
Json == [url      : [Names -> Urls \cup References \cup {None}],
         readonly : [Names -> BOOLEAN \cup {None}],
         defaults : BOOLEAN \cup {None}]

ASSUME SettingsAssumption ==
    /\ Default \in Names
    /\ Started \subseteq [Keys -> Values]
    /\ Versions \subseteq [env : [Keys -> Values], json : Json \cup {None, Malformed}]
    /\ None \notin Versions
    /\ Malformed # None /\ Malformed \notin Json /\ None \notin Json
    /\ None \notin Urls /\ None \notin BOOLEAN
    /\ MaxEdits \in Nat

VARIABLES
    started,  \* the environment the servers are started in
    files,    \* the files as they are now
    edits

settings == <<started, files, edits>>

SettingsInit == started \in Started /\ files \in Versions /\ edits = 0

Edit ==
    /\ edits < MaxEdits /\ edits' = edits + 1
    /\ files' \in Versions \ {files}
    /\ UNCHANGED started

\* A variable of the environment is never replaced by that of the file.
Filled(env, file, keys) ==
    [k \in Keys |-> IF env[k] = None /\ k \in keys THEN file[k] ELSE env[k]]
=============================================================================
