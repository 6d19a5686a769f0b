---------------------------- MODULE MCDeployment ----------------------------
(***************************************************************************)
(* Instance of Deployment for TLC: two HTTP clients of the MCP server, one *)
(* edit of the files, and an API that is started twice.                    *)
(***************************************************************************)
EXTENDS Deployment, TLC

CONSTANTS u1, u2, u3, bad, default, users

Env(url, usersUrl, writes, mode, token) ==
    [k \in Keys |->
       CASE k = "DATABASE_URL" -> url
         [] k = "USERS_URL" -> usersUrl
         [] k = "ALLOW_WRITES" -> writes
         [] k = "NODE_ENV" -> mode
         [] k = "DASHBOARD_TOKEN" -> token
         [] OTHER -> None]

MCUrls == {u1, u2, u3, bad}
MCNames == {default, users}
MCBadUrls == {bad}

MCJson(url) == [url      |-> (default :> None @@ users :> url),
                readonly |-> (default :> None @@ users :> TRUE),
                defaults |-> None]

\* A development project and one of production, with one database and with two.
MCVersions ==
    {[env |-> Env(u1, u3, "true", None, None), json |-> None],
     [env |-> Env(u2, None, None, "production", "token"), json |-> None],
     [env |-> Env(None, u2, "true", "production", None), json |-> MCJson([var |-> "USERS_URL"])]}

MCStarted == {Env(None, None, None, None, None), Env(bad, None, None, None, None)}

MCRequests == [origin : {"none", "other"}, token : BOOLEAN, readonly : BOOLEAN]
=============================================================================
