-------------------------- MODULE DeploymentProofs --------------------------
(***************************************************************************)
(* Proofs about Deployment, for any environments, files, clients and       *)
(* requests.                                                               *)
(*                                                                         *)
(* SetupsFollowFiles needs to know what process.env may be at any time     *)
(* (EnvFollows): DATABASE_URL is that of the environment the process was   *)
(* started in, and as long as the process has read one version of the      *)
(* files, the rest is that environment filled up from them.  Two facts     *)
(* about the configuration carry the argument: which databases there are   *)
(* does not depend on the rest (SameDatabases), and filling up twice from  *)
(* the same file is filling up once (FilledOnce).                          *)
(***************************************************************************)
EXTENDS Deployment, TLAPS

Others == Keys \ {"DATABASE_URL"}

EnvFollows ==
    /\ mcpEnv.DATABASE_URL = started.DATABASE_URL
    /\ readFrom = {} => mcpEnv = started
    /\ \A v \in Versions : readFrom = {v} => mcpEnv = Filled(started, v.env, Others)

\* What a server is set up from, for one client, when process.env has been filled up from
\* the files read.
FollowsFiles(s, read) ==
    LET meant == Resolved(started, s.basis)
    IN  /\ {"server", "basis"} \subseteq DOMAIN s
        /\ s.server.mode = meant.mode
        /\ \A n \in Names : IsReference(n, s.basis) \/ s.server.url[n] = meant.url[n]
        /\ read \subseteq {s.basis} => s.server = meant

IInv ==
    /\ files \in Versions /\ readFrom \subseteq Versions
    /\ EnvFollows
    /\ DOMAIN session = Clients
    /\ \A c \in Clients : session[c] # None => FollowsFiles(session[c], readFrom)

-----------------------------------------------------------------------------

\* Filling up leaves DATABASE_URL as the process was started with (config.ts:454-458).
LEMMA UrlsUntouched ==
    ASSUME NEW env, NEW file
    PROVE  FillEnv(env, file).DATABASE_URL = env.DATABASE_URL
BY DEF FillEnv, Filled, Keys

\* Filling up once more from the same file changes nothing.
LEMMA FilledOnce ==
    ASSUME NEW env, NEW file
    PROVE  Filled(Filled(env, file, Others), file, Others) = Filled(env, file, Others)
BY DEF Filled, Others

\* Whether the process is configured, and for which databases, depends on no more of
\* process.env than DATABASE_URL.
LEMMA SameDatabases ==
    ASSUME NEW env, env.DATABASE_URL = started.DATABASE_URL, NEW v
    PROVE  /\ UrlsConflict(env, v.env) = UrlsConflict(started, v.env)
           /\ DatabaseUrl(env, v.env) = DatabaseUrl(started, v.env)
           /\ Configured(env, v) = Configured(started, v)
<1>1. UrlsConflict(env, v.env) = UrlsConflict(started, v.env)
  BY DEF UrlsConflict
<1>2. DatabaseUrl(env, v.env) = DatabaseUrl(started, v.env)
  BY DEF DatabaseUrl
<1> QED
  BY <1>1, <1>2 DEF Configured

\* Reading the files again that were read first leaves process.env as it is after one
\* reading.
LEMMA FilledAgain ==
    ASSUME NEW env, env.DATABASE_URL = started.DATABASE_URL, NEW v,
           env = started \/ env = Filled(started, v.env, Others),
           Configured(started, v)
    PROVE  FillEnv(env, v.env) = FillEnv(started, v.env)
<1>1. ~UrlsConflict(started, v.env) /\ ~UrlsConflict(env, v.env)
  BY SameDatabases DEF Configured
<1> QED
  BY <1>1, FilledOnce DEF FillEnv, Others

\* What the configuration comes to is what it comes to in a fresh process, but for the
\* protection and the references; and in that as well when no other files were read before.
LEMMA ResolvedAfresh ==
    ASSUME NEW env, env.DATABASE_URL = started.DATABASE_URL, NEW v \in Versions
    PROVE  /\ Resolved(env, v).mode = Resolved(started, v).mode
           /\ \A n \in Names : IsReference(n, v) \/ Resolved(env, v).url[n] = Resolved(started, v).url[n]
           /\ env = started \/ env = Filled(started, v.env, Others) =>
                Resolved(env, v) = Resolved(started, v)
<1>1. CASE ~Configured(started, v)
  BY <1>1, SameDatabases DEF Resolved
<1>2. CASE Configured(started, v) /\ v.json = None
  <2>1. Resolved(env, v) = Single(env, v.env) /\ Resolved(started, v) = Single(started, v.env)
    BY <1>2, SameDatabases DEF Resolved
  <2>2. /\ Single(env, v.env).mode = Single(started, v.env).mode
        /\ Single(env, v.env).url = Single(started, v.env).url
    BY SameDatabases DEF Single
  <2>3. ASSUME env = started \/ env = Filled(started, v.env, Others)
        PROVE  Single(env, v.env) = Single(started, v.env)
    <3>1. FillEnv(env, v.env) = FillEnv(started, v.env)
      BY <1>2, <2>3, FilledAgain
    <3> QED
      BY <3>1, SameDatabases DEF Single
  <2> QED
    BY <2>1, <2>2, <2>3
<1>3. CASE Configured(started, v) /\ v.json # None
  <2>1. Resolved(env, v) = Multi(env, v) /\ Resolved(started, v) = Multi(started, v)
    BY <1>3, SameDatabases DEF Resolved
  <2>2. /\ Multi(env, v).mode = Multi(started, v).mode
        /\ \A n \in Names : IsReference(n, v) \/ Multi(env, v).url[n] = Multi(started, v).url[n]
    <3>1. v.json \in Json
      BY <1>3, SettingsAssumption DEF Configured
    <3>2. ASSUME NEW n \in Names, ~IsReference(n, v)
          PROVE  Multi(env, v).url[n] = Multi(started, v).url[n]
      BY <3>1, <3>2, SameDatabases DEF Multi, IsReference, Interpolated
    <3> QED
      BY <3>2 DEF Multi
  <2>3. ASSUME env = started \/ env = Filled(started, v.env, Others)
        PROVE  Multi(env, v) = Multi(started, v)
    <3>1. FillEnv(env, v.env) = FillEnv(started, v.env)
      BY <1>3, <2>3, FilledAgain
    <3> QED
      BY <3>1, SameDatabases DEF Multi
  <2> QED
    BY <2>1, <2>2, <2>3
<1> QED
  BY <1>1, <1>2, <1>3

-----------------------------------------------------------------------------

LEMMA InitOK == Init => IInv
BY SettingsAssumption DEF Init, SettingsInit, McpInit, IInv, EnvFollows, FollowsFiles

\* A step that changes no server, and nothing the servers are set up from but the files.
LEMMA QuietStep ==
    ASSUME IInv, files' \in Versions, UNCHANGED <<started, mcpEnv, session, readFrom>>
    PROVE  IInv'
BY DEF IInv, EnvFollows, FollowsFiles

LEMMA StopStep ==
    ASSUME IInv, McpStop, UNCHANGED settings
    PROVE  IInv'
BY DEF IInv, McpStop, EnvFollows, settings, FollowsFiles

\* The environment after another reading of the files.
LEMMA ReadingStep ==
    ASSUME IInv, UNCHANGED settings,
           mcpEnv' = FillEnv(mcpEnv, files.env),
           readFrom' = IF ~UrlsConflict(mcpEnv, files.env) THEN readFrom \cup {files}
                       ELSE readFrom
    PROVE  EnvFollows' /\ readFrom' \subseteq Versions /\ files' \in Versions
<1>1. mcpEnv'.DATABASE_URL = started'.DATABASE_URL
  BY UrlsUntouched DEF IInv, EnvFollows, settings
<1>2. CASE UrlsConflict(mcpEnv, files.env)
  BY <1>1, <1>2 DEF IInv, EnvFollows, settings, FillEnv
<1>3. CASE ~UrlsConflict(mcpEnv, files.env)
  <2>1. mcpEnv' = Filled(mcpEnv, files.env, Others) /\ readFrom' = readFrom \cup {files}
    BY <1>3 DEF FillEnv, Others
  <2>2. ASSUME NEW v \in Versions, readFrom' = {v}
        PROVE  mcpEnv' = Filled(started, v.env, Others)
    <3>1. v = files /\ (readFrom = {} \/ readFrom = {files})
      BY <2>1, <2>2
    <3>2. mcpEnv = started \/ mcpEnv = Filled(started, files.env, Others)
      BY <3>1 DEF IInv, EnvFollows
    <3> QED
      BY <2>1, <3>1, <3>2, FilledOnce
  <2> QED
    BY <1>1, <2>1, <2>2 DEF IInv, EnvFollows, settings
<1> QED
  BY <1>2, <1>3

\* The servers of before still follow the files: less is claimed of their protection when
\* more has been read.
LEMMA OthersFollow ==
    ASSUME NEW s, NEW read, NEW more, FollowsFiles(s, read), read \subseteq more
    PROVE  FollowsFiles(s, more)
BY DEF FollowsFiles

LEMMA SetUpStep ==
    ASSUME IInv, NEW c \in Clients, SetUp(c), UNCHANGED settings
    PROVE  IInv'
<1> DEFINE server == Resolved(mcpEnv, files)
           new == [server |-> server, basis |-> files, tools |-> FALSE,
                   state |-> IF server.mode = "not configured" THEN "ready" ELSE "connecting"]
<1>1. EnvFollows' /\ readFrom' \subseteq Versions /\ files' \in Versions
  BY ReadingStep DEF SetUp
<1>2. readFrom \subseteq readFrom'
  BY DEF SetUp
<1>3. session' = [session EXCEPT ![c] = new] /\ started' = started
  BY DEF SetUp, settings
<1>4. FollowsFiles(new, readFrom')
  <2>1. mcpEnv.DATABASE_URL = started.DATABASE_URL
    BY DEF IInv, EnvFollows
  <2>2. /\ server.mode = Resolved(started, files).mode
        /\ \A n \in Names : IsReference(n, files) \/ server.url[n] = Resolved(started, files).url[n]
    BY <2>1, ResolvedAfresh DEF IInv
  <2>3. ASSUME readFrom' \subseteq {files}
        PROVE  server = Resolved(started, files)
    <3>1. readFrom = {} \/ readFrom = {files}
      BY <1>2, <2>3
    <3>2. mcpEnv = started \/ mcpEnv = Filled(started, files.env, Others)
      BY <3>1 DEF IInv, EnvFollows
    <3> QED
      BY <2>1, <3>2, ResolvedAfresh DEF IInv
  <2>4. new.server = server /\ new.basis = files /\ {"server", "basis"} \subseteq DOMAIN new
    OBVIOUS
  <2> HIDE DEF server, new
  <2> QED
    BY <2>2, <2>3, <2>4 DEF FollowsFiles
<1> HIDE DEF new
<1>5. ASSUME NEW d \in Clients, session'[d] # None
      PROVE  FollowsFiles(session'[d], readFrom')
  <2>1. CASE d = c
    BY <1>3, <1>4, <2>1 DEF IInv
  <2>2. CASE d # c
    <3>1. session'[d] = session[d] /\ session[d] # None
      BY <1>3, <1>5, <2>2 DEF IInv
    <3> QED
      BY <1>2, <3>1, OthersFollow DEF IInv
  <2> QED
    BY <2>1, <2>2
<1>6. \A d \in Clients : session'[d] # None => FollowsFiles(session[d], readFrom)'
  BY <1>3, <1>5 DEF FollowsFiles
<1> QED
  BY <1>1, <1>3, <1>6 DEF IInv

LEMMA SetUpThrowsStep ==
    ASSUME IInv, NEW c \in Clients, SetUpThrows(c), UNCHANGED settings
    PROVE  IInv'
<1>1. CASE ~Http
  BY <1>1, StopStep DEF SetUpThrows
<1>2. CASE Http
  <2>1. ~UrlsConflict(mcpEnv, files.env)
    BY DEF SetUpThrows, HasBadEntry, Resolved, NotConfigured, Configured
  <2>2. EnvFollows' /\ readFrom' \subseteq Versions /\ files' \in Versions
    BY <1>2, <2>1, ReadingStep DEF SetUpThrows
  <2>3. session' = session /\ started' = started /\ readFrom \subseteq readFrom'
    BY <1>2 DEF SetUpThrows, settings
  <2>4. ASSUME NEW d \in Clients, session[d] # None
        PROVE  FollowsFiles(session[d], readFrom')
    BY <2>3, <2>4, OthersFollow DEF IInv
  <2>5. \A d \in Clients : session'[d] # None => FollowsFiles(session[d], readFrom)'
    BY <2>3, <2>4 DEF FollowsFiles
  <2> QED
    BY <2>2, <2>3, <2>5 DEF IInv
<1> QED
  BY <1>1, <1>2

\* The outcome of connecting: what the server was set up from stays, or the process ends.
LEMMA ConnectingStep ==
    ASSUME IInv, NEW c \in Clients, Connected(c) \/ ConnectFails(c), UNCHANGED settings
    PROVE  IInv'
<1>1. CASE McpStop
  BY <1>1, StopStep
<1>2. CASE ~McpStop
  <2>1. /\ UNCHANGED <<started, files, mcpEnv, readFrom>>
        /\ session[c] # None
        /\ \/ session' = [session EXCEPT ![c].state = "ready", ![c].tools = TRUE]
           \/ session' = [session EXCEPT ![c].state = "ready"]
    BY <1>2 DEF Connected, ConnectFails, settings
  <2>2. DOMAIN session' = Clients /\ DOMAIN session = Clients
    BY <2>1 DEF IInv
  <2>3. ASSUME NEW d \in Clients, session'[d] # None
        PROVE  FollowsFiles(session'[d], readFrom)
    <3>1. CASE d # c
      BY <2>1, <2>2, <2>3, <3>1 DEF IInv
    <3>2. CASE d = c
      <4>1. FollowsFiles(session[c], readFrom)
        BY <2>1 DEF IInv
      <4>2. /\ session'[c].server = session[c].server /\ session'[c].basis = session[c].basis
            /\ DOMAIN session'[c] = DOMAIN session[c]
        BY <2>1, <2>2, <4>1 DEF FollowsFiles
      <4> QED
        BY <3>2, <4>1, <4>2 DEF FollowsFiles
    <3> QED
      BY <3>1, <3>2
  <2>4. \A d \in Clients : session'[d] # None => FollowsFiles(session[d], readFrom)'
    BY <2>1, <2>3 DEF FollowsFiles
  <2>5. EnvFollows'
    BY <2>1 DEF EnvFollows, IInv
  <2> QED
    BY <2>1, <2>2, <2>4, <2>5 DEF IInv
<1> QED
  BY <1>1, <1>2

LEMMA NextOK == IInv /\ [Next]_vars => IInv'
<1> SUFFICES ASSUME IInv, [Next]_vars PROVE IInv'
  OBVIOUS
<1>1. CASE Edit /\ UNCHANGED mcpVars
  BY <1>1, QuietStep DEF Edit, mcpVars
<1>2. CASE McpNext /\ UNCHANGED settings
  <2>1. CASE McpStart
    BY <1>2, <2>1, QuietStep DEF McpStart, settings, IInv
  <2>2. CASE McpStop
    BY <1>2, <2>2, StopStep
  <2>3. CASE \E c \in Clients : SetUp(c) \/ SetUpThrows(c) \/ Connected(c) \/ ConnectFails(c)
    BY <1>2, <2>3, SetUpStep, SetUpThrowsStep, ConnectingStep
  <2> QED
    BY <1>2, <2>1, <2>2, <2>3 DEF McpNext
<1>3. CASE UNCHANGED settings /\ UNCHANGED mcpVars
  BY <1>3, QuietStep DEF settings, mcpVars, IInv
<1> QED
  BY <1>1, <1>2, <1>3 DEF Next, vars

\* The inductive invariant: what process.env may have become at any time, and what every
\* server has been set up from (config.ts:446-545).
THEOREM Invariance == Spec => []IInv
BY InitOK, NextOK, PTL DEF Spec

\* Whoever was served before, a server is set up for the databases its files name, and
\* with their protection unless the process has read others (config.ts:446-545).
THEOREM SetupsFollow == Spec => []SetupsFollowFiles
<1>1. IInv => SetupsFollowFiles
  BY DEF IInv, FollowsFiles, SetupsFollowFiles
<1> QED
  BY <1>1, Invariance, PTL
=============================================================================
