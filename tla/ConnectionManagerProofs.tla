---------------------- MODULE ConnectionManagerProofs ----------------------
(***************************************************************************)
(* Proofs about ConnectionManager, and about ToolRouting, which adds to    *)
(* it, for any set of databases, concurrent calls and pools.               *)
(***************************************************************************)
EXTENDS ToolRouting, TLAPS

\* What an activity in progress has: a database, and a pool where the code uses one.
CallShape ==
    \A c \in Calls :
        /\ phase[c] # "idle" => target[c] \in Databases
        /\ phase[c] \in {"probing", "ending", "connecting", "discarding", "using"}
             => held[c] \in Pools
        /\ phase[c] \in {"idle", "boot", "joined"} => held[c] = None

\* Until start-up is over nothing else runs, and its attempt is not in the map.
StartupAlone ==
    ~serving =>
        /\ \A c \in Calls : c # Main => phase[c] = "idle"
        /\ phase[Main] \in {"boot", "connecting", "discarding", "using"}
        /\ target[Main] = Default
        /\ \A d \in Databases : connecting[d] = None
        /\ \A d \in Databases :
             status[d] = "connecting" => d = Default /\ phase[Main] = "connecting"
        /\ phase[Main] # "using" => \A d \in Databases : pool[d] = None

\* Afterwards it runs no attempt of its own any more.
StartupOver == serving => phase[Main] \in {"idle", "handlers"}

\* While an attempt runs its entry has no pool, and once it has failed the status
\* does not say "connecting".
AttemptShape ==
    \A c \in Calls :
        /\ phase[c] \in {"connecting", "discarding"} => pool[target[c]] = None
        /\ phase[c] = "discarding" => status[target[c]] # "connecting"

IInv ==
    /\ TypeOK
    /\ CallShape
    /\ StartupAlone
    /\ StartupOver
    /\ AttemptShape
    /\ StatusMatchesPool
    /\ MapTracksAttempt
    /\ NeverPolls

\* Two activities for different databases, or two entries, never refer to one pool.
Separated ==
    /\ \A c, x \in Calls :
         held[c] # None /\ held[c] = held[x] => target[c] = target[x]
    /\ \A c \in Calls, d \in Databases :
         held[c] # None /\ held[c] = pool[d] => target[c] = d
    /\ \A d, e \in Databases : pool[d] # None /\ pool[d] = pool[e] => d = e

USE DefaultAssumption, MainAssumption, NoneAssumption

\* connect() works on a pool object that nobody refers to yet.
LEMMA OpenPoolFacts ==
    ASSUME NEW c, NEW d, NEW pp, OpenPool(c, d, pp)
    PROVE  \E p \in Pools :
              /\ \A e \in Databases : pool[e] # p
              /\ \A x \in Calls : held[x] # p
              /\ status' = [status EXCEPT ![d] = "connecting"]
              /\ poolPhase' = [pp EXCEPT ![p] = "open"]
              /\ phase' = [phase EXCEPT ![c] = "connecting"]
              /\ held' = [held EXCEPT ![c] = p]
  <1> DEFINE p == CHOOSE q \in FreePools : TRUE
  <1>1. p \in FreePools
    BY DEF OpenPool
  <1>2. p \in Pools /\ (\A e \in Databases : pool[e] # p) /\ (\A x \in Calls : held[x] # p)
    BY <1>1 DEF FreePools
  <1>3. QED
    BY <1>2 DEF OpenPool

\* Before start-up has begun the invariant holds.
LEMMA InitInv == Init => IInv
  <1> SUFFICES ASSUME Init PROVE IInv
    OBVIOUS
  <1> USE DEF Init
  <1>1. TypeOK
    BY DEF TypeOK, Status, PoolPhase, Phase
  <1>2. CallShape
    BY DEF CallShape
  <1>3. StartupAlone
    BY DEF StartupAlone
  <1>4. StartupOver
    BY DEF StartupOver
  <1>5. AttemptShape
    BY DEF AttemptShape
  <1>6. StatusMatchesPool
    BY DEF StatusMatchesPool
  <1>7. MapTracksAttempt
    BY DEF MapTracksAttempt, Attempts
  <1>8. NeverPolls
    BY DEF NeverPolls
  <1> QED BY <1>1, <1>2, <1>3, <1>4, <1>5, <1>6, <1>7, <1>8 DEF IInv

\* Every step preserves the invariant: one step of the proof per action, and under
\* it the conjuncts the action can disturb before those it leaves alone.
LEMMA NextInv == IInv /\ [Next]_vars => IInv'
  <1> SUFFICES ASSUME IInv, [Next]_vars
               PROVE  IInv'
    OBVIOUS
  <1> USE DEF IInv
  <1>1. ASSUME ConnectDefault
        PROVE  IInv'
    <2>1. TypeOK'
      BY <1>1, OpenPoolFacts DEF ConnectDefault, TypeOK, Status, PoolPhase,
         Phase
    <2>2. CallShape'
      BY <1>1, OpenPoolFacts DEF ConnectDefault, CallShape, TypeOK
    <2>3. StartupAlone'
      BY <1>1, OpenPoolFacts DEF ConnectDefault, StartupAlone, TypeOK
    <2>4. AttemptShape'
      BY <1>1, OpenPoolFacts DEF ConnectDefault, AttemptShape, TypeOK,
         StartupAlone, StartupOver
    <2>5. StatusMatchesPool'
      BY <1>1, OpenPoolFacts DEF ConnectDefault, StatusMatchesPool, TypeOK,
         StartupAlone, StartupOver
    <2>6. MapTracksAttempt'
      BY <1>1, OpenPoolFacts DEF ConnectDefault, MapTracksAttempt, TypeOK,
         StartupOver
    <2>7. NeverPolls'
      BY <1>1, OpenPoolFacts DEF ConnectDefault, NeverPolls, StartupOver
    <2>8. StartupOver'
      BY <1>1, OpenPoolFacts DEF ConnectDefault, StartupOver
    <2>9. QED
      BY <2>1, <2>2, <2>3, <2>4, <2>5, <2>6, <2>7, <2>8
  <1>2. ASSUME CreateHandlers
        PROVE  IInv'
    <2>1. TypeOK'
      BY <1>2 DEF CreateHandlers, TypeOK, Phase, entryVars
    <2>2. CallShape'
      BY <1>2 DEF CreateHandlers, CallShape, TypeOK
    <2>3. StartupOver'
      BY <1>2 DEF CreateHandlers, StartupOver, TypeOK
    <2>4. AttemptShape'
      BY <1>2 DEF CreateHandlers, AttemptShape, StartupAlone, StartupOver
    <2>5. MapTracksAttempt'
      BY <1>2 DEF CreateHandlers, MapTracksAttempt, StartupAlone, Attempts,
         entryVars
    <2>6. NeverPolls'
      BY <1>2 DEF CreateHandlers, NeverPolls, StartupAlone, entryVars
    <2>7. StartupAlone' /\ StatusMatchesPool'
      BY <1>2 DEF CreateHandlers, StartupAlone, StatusMatchesPool, entryVars
    <2>8. QED
      BY <2>1, <2>2, <2>3, <2>4, <2>5, <2>6, <2>7
  <1>3. ASSUME NEW c \in Calls, NEW d \in Databases, GetProbe(c, d)
        PROVE  IInv'
    <2>1. TypeOK'
      BY <1>3 DEF GetProbe, TypeOK, Phase, entryVars
    <2>2. CallShape'
      BY <1>3 DEF GetProbe, CallShape, TypeOK
    <2>3. StartupAlone' /\ StartupOver' /\ AttemptShape' /\
          StatusMatchesPool' /\ MapTracksAttempt' /\ NeverPolls'
      BY <1>3 DEF GetProbe, StartupAlone, StartupOver, AttemptShape,
         StatusMatchesPool, MapTracksAttempt, NeverPolls, Attempts, entryVars
    <2>4. QED
      BY <2>1, <2>2, <2>3
  <1>4. ASSUME NEW c \in Calls, NEW d \in Databases, GetConnect(c, d)
        PROVE  IInv'
    <2>1. TypeOK'
      BY <1>4, OpenPoolFacts DEF GetConnect, ConnectOrJoin, JoinAttempt,
         StartAttempt, TypeOK, Status, PoolPhase, Phase
    <2>2. CallShape'
      BY <1>4, OpenPoolFacts DEF GetConnect, ConnectOrJoin, JoinAttempt,
         StartAttempt, CallShape, TypeOK
    <2>3. StartupOver'
      BY <1>4, OpenPoolFacts DEF GetConnect, ConnectOrJoin, JoinAttempt,
         StartAttempt, StartupOver, TypeOK
    <2>4. AttemptShape'
      BY <1>4, OpenPoolFacts DEF GetConnect, ConnectOrJoin, JoinAttempt,
         StartAttempt, AttemptShape, TypeOK, CallShape, StatusMatchesPool,
         MapTracksAttempt, Attempts
    <2>5. StatusMatchesPool'
      BY <1>4, OpenPoolFacts DEF GetConnect, ConnectOrJoin, JoinAttempt,
         StartAttempt, StatusMatchesPool, TypeOK
    <2>6. MapTracksAttempt'
      BY <1>4, OpenPoolFacts DEF GetConnect, ConnectOrJoin, JoinAttempt,
         StartAttempt, MapTracksAttempt, TypeOK, CallShape, Attempts
    <2>7. NeverPolls'
      BY <1>4, OpenPoolFacts DEF GetConnect, ConnectOrJoin, JoinAttempt,
         StartAttempt, NeverPolls, TypeOK
    <2>8. StartupAlone'
      BY <1>4, OpenPoolFacts DEF GetConnect, ConnectOrJoin, JoinAttempt,
         StartAttempt, StartupAlone
    <2>9. QED
      BY <2>1, <2>2, <2>3, <2>4, <2>5, <2>6, <2>7, <2>8
  <1>5. ASSUME NEW c \in Calls, ProbeOk(c)
        PROVE  IInv'
    <2>1. TypeOK'
      BY <1>5 DEF ProbeOk, Leave, TypeOK, CallShape, Phase, entryVars
    <2>2. CallShape'
      BY <1>5 DEF ProbeOk, Leave, CallShape, TypeOK
    <2>3. StartupOver'
      BY <1>5 DEF ProbeOk, Leave, StartupOver, TypeOK
    <2>4. AttemptShape'
      BY <1>5 DEF ProbeOk, Leave, AttemptShape, TypeOK, entryVars
    <2>5. MapTracksAttempt'
      BY <1>5 DEF ProbeOk, Leave, MapTracksAttempt, TypeOK, Attempts, entryVars
    <2>6. StartupAlone' /\ StatusMatchesPool' /\ NeverPolls'
      BY <1>5 DEF ProbeOk, Leave, StartupAlone, StatusMatchesPool, NeverPolls,
         entryVars
    <2>7. QED
      BY <2>1, <2>2, <2>3, <2>4, <2>5, <2>6
  <1>6. ASSUME NEW c \in Calls, ProbeFailNoPool(c)
        PROVE  IInv'
    <2>1. TypeOK'
      BY <1>6 DEF ProbeFailNoPool, Leave, TypeOK, Phase, entryVars
    <2>2. CallShape'
      BY <1>6 DEF ProbeFailNoPool, Leave, CallShape, TypeOK
    <2>3. StartupAlone' /\ StartupOver' /\ AttemptShape' /\
          StatusMatchesPool' /\ MapTracksAttempt' /\ NeverPolls'
      BY <1>6 DEF ProbeFailNoPool, Leave, StartupAlone, StartupOver,
         AttemptShape, StatusMatchesPool, MapTracksAttempt, NeverPolls,
         Attempts, entryVars
    <2>4. QED
      BY <2>1, <2>2, <2>3
  <1>7. ASSUME NEW c \in Calls, ProbeFailEnd(c)
        PROVE  IInv'
    <2>1. TypeOK'
      BY <1>7 DEF ProbeFailEnd, TypeOK, CallShape, PoolPhase, Phase, entryVars
    <2>2. CallShape'
      BY <1>7 DEF ProbeFailEnd, CallShape, TypeOK
    <2>3. StartupAlone' /\ StartupOver' /\ AttemptShape' /\
          StatusMatchesPool' /\ MapTracksAttempt' /\ NeverPolls'
      BY <1>7 DEF ProbeFailEnd, StartupAlone, StartupOver, AttemptShape,
         StatusMatchesPool, MapTracksAttempt, NeverPolls, Attempts, entryVars
    <2>4. QED
      BY <2>1, <2>2, <2>3
  <1>8. ASSUME NEW c \in Calls, ProbeFailReset(c)
        PROVE  IInv'
    <2>1. TypeOK'
      BY <1>8, OpenPoolFacts DEF ProbeFailReset, ConnectOrJoin, JoinAttempt,
         StartAttempt, TypeOK, CallShape, Status, PoolPhase, Phase
    <2>2. CallShape'
      BY <1>8, OpenPoolFacts DEF ProbeFailReset, ConnectOrJoin, JoinAttempt,
         StartAttempt, CallShape, TypeOK
    <2>3. StartupOver'
      BY <1>8, OpenPoolFacts DEF ProbeFailReset, ConnectOrJoin, JoinAttempt,
         StartAttempt, StartupOver, TypeOK
    <2>4. AttemptShape'
      BY <1>8, OpenPoolFacts DEF ProbeFailReset, ConnectOrJoin, JoinAttempt,
         StartAttempt, AttemptShape, TypeOK, CallShape
    <2>5. StatusMatchesPool'
      BY <1>8, OpenPoolFacts DEF ProbeFailReset, ConnectOrJoin, JoinAttempt,
         StartAttempt, StatusMatchesPool, TypeOK
    <2>6. MapTracksAttempt'
      BY <1>8, OpenPoolFacts DEF ProbeFailReset, ConnectOrJoin, JoinAttempt,
         StartAttempt, MapTracksAttempt, TypeOK, CallShape, Attempts
    <2>7. NeverPolls'
      BY <1>8, OpenPoolFacts DEF ProbeFailReset, ConnectOrJoin, JoinAttempt,
         StartAttempt, NeverPolls, TypeOK
    <2>8. StartupAlone'
      BY <1>8, OpenPoolFacts DEF ProbeFailReset, ConnectOrJoin, JoinAttempt,
         StartAttempt, StartupAlone
    <2>9. QED
      BY <2>1, <2>2, <2>3, <2>4, <2>5, <2>6, <2>7, <2>8
  <1>9. ASSUME NEW c \in Calls, EndDone(c)
        PROVE  IInv'
    <2>1. TypeOK'
      <3> DEFINE d == target[c]
                 pp == [poolPhase EXCEPT ![held[c]] = "ended"]
      <3>1. d \in Databases /\ pp \in [Pools -> PoolPhase]
        BY <1>9 DEF EndDone, TypeOK, CallShape, PoolPhase
      <3> HIDE DEF d, pp
      <3>2. CASE JoinAttempt(c, d, "not_connected", pp)
        BY <1>9, <3>1, <3>2 DEF EndDone, JoinAttempt, TypeOK, Status, Phase, d
      <3>3. CASE StartAttempt(c, d, pp)
        <4>1. poolPhase' \in [Pools -> PoolPhase]
          BY <3>1, <3>3, OpenPoolFacts DEF StartAttempt, PoolPhase
        <4>2. QED
          BY <1>9, <3>1, <3>3, <4>1, OpenPoolFacts
             DEF EndDone, StartAttempt, TypeOK, Status, Phase, d
      <3>4. QED
        BY <1>9, <3>2, <3>3 DEF EndDone, ConnectOrJoin, d, pp
    <2>2. CallShape'
      BY <1>9, OpenPoolFacts DEF EndDone, ConnectOrJoin, JoinAttempt,
         StartAttempt, CallShape, TypeOK
    <2>3. StartupOver'
      BY <1>9, OpenPoolFacts DEF EndDone, ConnectOrJoin, JoinAttempt,
         StartAttempt, StartupOver, TypeOK
    <2>4. AttemptShape'
      BY <1>9, OpenPoolFacts DEF EndDone, ConnectOrJoin, JoinAttempt,
         StartAttempt, AttemptShape, TypeOK, CallShape, StartupAlone,
         MapTracksAttempt, Attempts
    <2>5. StatusMatchesPool'
      BY <1>9, OpenPoolFacts DEF EndDone, ConnectOrJoin, JoinAttempt,
         StartAttempt, StatusMatchesPool, TypeOK
    <2>6. MapTracksAttempt'
      BY <1>9, OpenPoolFacts DEF EndDone, ConnectOrJoin, JoinAttempt,
         StartAttempt, MapTracksAttempt, TypeOK, CallShape, Attempts
    <2>7. NeverPolls'
      BY <1>9, OpenPoolFacts DEF EndDone, ConnectOrJoin, JoinAttempt,
         StartAttempt, NeverPolls, TypeOK
    <2>8. StartupAlone'
      BY <1>9, OpenPoolFacts DEF EndDone, ConnectOrJoin, JoinAttempt,
         StartAttempt, StartupAlone
    <2>9. QED
      BY <2>1, <2>2, <2>3, <2>4, <2>5, <2>6, <2>7, <2>8
  <1>10. ASSUME NEW c \in Calls, ConnectOk(c)
        PROVE  IInv'
    <2>1. TypeOK'
      BY <1>10 DEF ConnectOk, Resumed, TypeOK, Status, Phase
    <2>2. StartupAlone'
      BY <1>10 DEF ConnectOk, Resumed, StartupAlone, TypeOK
    <2>3. AttemptShape'
      BY <1>10 DEF ConnectOk, Resumed, AttemptShape, TypeOK, StartupAlone,
         MapTracksAttempt, Attempts
    <2>4. StatusMatchesPool'
      BY <1>10 DEF ConnectOk, Resumed, StatusMatchesPool, TypeOK, CallShape
    <2>5. MapTracksAttempt'
      BY <1>10 DEF ConnectOk, Resumed, MapTracksAttempt, TypeOK, Attempts
    <2>6. NeverPolls'
      BY <1>10 DEF ConnectOk, Resumed, NeverPolls, TypeOK
    <2>7. CallShape' /\ StartupOver'
      BY <1>10 DEF ConnectOk, Resumed, CallShape, StartupOver
    <2>8. QED
      BY <2>1, <2>2, <2>3, <2>4, <2>5, <2>6, <2>7
  <1>11. ASSUME NEW c \in Calls, ConnectFail(c)
        PROVE  IInv'
    <2>1. TypeOK'
      BY <1>11 DEF ConnectFail, TypeOK, Status, PoolPhase, Phase
    <2>2. StartupAlone'
      BY <1>11 DEF ConnectFail, StartupAlone, TypeOK
    <2>3. AttemptShape'
      BY <1>11 DEF ConnectFail, AttemptShape, TypeOK, CallShape
    <2>4. StatusMatchesPool'
      BY <1>11 DEF ConnectFail, StatusMatchesPool, AttemptShape
    <2>5. CallShape' /\ StartupOver' /\ MapTracksAttempt' /\ NeverPolls'
      BY <1>11 DEF ConnectFail, CallShape, StartupOver, MapTracksAttempt,
         NeverPolls, Attempts
    <2>6. QED
      BY <2>1, <2>2, <2>3, <2>4, <2>5
  <1>12. ASSUME NEW c \in Calls, DiscardDone(c)
        PROVE  IInv'
    <2>1. TypeOK'
      BY <1>12 DEF DiscardDone, Resumed, TypeOK, PoolPhase, Phase
    <2>2. StartupOver'
      BY <1>12 DEF DiscardDone, Resumed, StartupOver, StartupAlone
    <2>3. MapTracksAttempt'
      BY <1>12 DEF DiscardDone, Resumed, MapTracksAttempt, TypeOK, StartupAlone,
         Attempts
    <2>4. NeverPolls'
      BY <1>12 DEF DiscardDone, Resumed, NeverPolls, StartupAlone, AttemptShape
    <2>5. CallShape' /\ StartupAlone' /\ AttemptShape' /\ StatusMatchesPool'
      BY <1>12 DEF DiscardDone, Resumed, CallShape, StartupAlone, AttemptShape,
         StatusMatchesPool
    <2>6. QED
      BY <2>1, <2>2, <2>3, <2>4, <2>5
  <1>13. ASSUME NEW c \in Calls, Finish(c)
        PROVE  IInv'
    <2>1. TypeOK'
      BY <1>13 DEF Finish, Leave, TypeOK, Phase, entryVars
    <2>2. CallShape'
      BY <1>13 DEF Finish, Leave, CallShape, TypeOK
    <2>3. StartupAlone' /\ StartupOver' /\ AttemptShape' /\
          StatusMatchesPool' /\ MapTracksAttempt' /\ NeverPolls'
      BY <1>13 DEF Finish, Leave, StartupAlone, StartupOver, AttemptShape,
         StatusMatchesPool, MapTracksAttempt, NeverPolls, Attempts, entryVars
    <2>4. QED
      BY <2>1, <2>2, <2>3
  <1>14. CASE UNCHANGED vars
    BY <1>14 DEF vars, entryVars, callVars, TypeOK, CallShape, StartupAlone,
       StartupOver, AttemptShape, StatusMatchesPool, MapTracksAttempt, NeverPolls,
       Attempts
  <1> QED
    BY <1>1, <1>2, <1>3, <1>4, <1>5, <1>6, <1>7, <1>8, <1>9, <1>10, <1>11,
       <1>12, <1>13, <1>14
       DEF Next, Startup, Get, Resume

\* The inductive invariant holds throughout.
THEOREM Invariance == Spec => []IInv
  <1>1. Init => IInv
    BY InitInv
  <1>2. IInv /\ [Next]_vars => IInv'
    BY NextInv
  <1> QED
    BY <1>1, <1>2, PTL DEF Spec

-----------------------------------------------------------------------------

\* Every variable keeps its type.
THEOREM TypeCorrect == Spec => []TypeOK
  BY Invariance, PTL DEF IInv

\* An entry has a pool exactly while its status says connected.
THEOREM StatusIsExact == Spec => []StatusMatchesPool
  BY Invariance, PTL DEF IInv

\* The `connecting` map is exact once calls are served, and whoever waits for an
\* attempt waits for a running one.
THEOREM MapIsExact == Spec => []MapTracksAttempt
  BY Invariance, PTL DEF IInv

\* The polling branch of connect() is never entered.
THEOREM PollingIsDead == Spec => []NeverPolls
  BY Invariance, PTL DEF IInv

\* Concurrent gets, resets and start-up never run two attempts for one database.
THEOREM Deduplication == Spec => []OneAttemptPerDatabase
  <1>1. IInv => OneAttemptPerDatabase
    <2> SUFFICES ASSUME IInv, NEW d \in Databases, NEW c1 \in Attempts(d),
                        NEW c2 \in Attempts(d)
                 PROVE  c1 = c2
      BY DEF OneAttemptPerDatabase
    <2>1. CASE serving
      BY <2>1 DEF IInv, MapTracksAttempt, Attempts
    <2>2. CASE ~serving
      BY <2>2 DEF IInv, StartupAlone, Attempts
    <2> QED
      BY <2>1, <2>2 DEF IInv, TypeOK
  <1> QED
    BY <1>1, Invariance, PTL

\* No step replaces a published pool by another one.
THEOREM NoReplacement == Spec => NoSilentReplacement
  <1>1. ASSUME IInv, [Next]_vars, NEW d \in Databases,
               pool[d] # None, pool'[d] # pool[d]
        PROVE  pool'[d] = None
    <2>1. CASE \E c \in Calls : ConnectOk(c)
      BY <1>1, <2>1 DEF IInv, ConnectOk, AttemptShape, TypeOK
    <2>2. CASE \E c \in Calls : ProbeFailReset(c) \/ EndDone(c)
      BY <1>1, <2>2 DEF IInv, ProbeFailReset, EndDone, TypeOK
    <2>3. CASE pool' = pool
      BY <1>1, <2>3
    <2> QED
      BY <1>1, <2>1, <2>2, <2>3
         DEF Next, Startup, Get, Resume, vars, entryVars, ConnectDefault,
             CreateHandlers, GetProbe, GetConnect, ProbeOk, ProbeFailNoPool,
             ProbeFailEnd, ConnectFail, DiscardDone, Finish
  <1>2. IInv /\ [Next]_vars =>
          [\A d \in Databases :
             pool[d] # None /\ pool'[d] # pool[d] => pool'[d] = None]_vars
    BY <1>1
  <1> QED
    BY <1>2, Invariance, PTL DEF Spec, NoSilentReplacement

-----------------------------------------------------------------------------
(***************************************************************************)
(* No pool serves two databases.                                           *)
(***************************************************************************)

\* No pool is in use before start-up.
LEMMA SeparatedInit == Init => Separated
  BY DEF Init, Separated

\* A new pool is shared by nobody, and the other steps move a pool only between an
\* entry and the activities that asked for it.
LEMMA SeparatedNext == IInv /\ Separated /\ [Next]_vars => Separated'
  <1> SUFFICES ASSUME IInv, Separated, [Next]_vars
               PROVE  Separated'
    OBVIOUS
  <1> USE DEF IInv, Separated, TypeOK
  <1>1. ASSUME ConnectDefault
        PROVE  Separated'
    BY <1>1, OpenPoolFacts DEF ConnectDefault, StartupOver, StartupAlone
  <1>2. ASSUME CreateHandlers
        PROVE  Separated'
    BY <1>2 DEF CreateHandlers, entryVars, StartupAlone, StartupOver
  <1>3. ASSUME NEW c \in Calls, NEW d \in Databases, GetProbe(c, d)
        PROVE  Separated'
    BY <1>3 DEF GetProbe, entryVars
  <1>4. ASSUME NEW c \in Calls, NEW d \in Databases, GetConnect(c, d)
        PROVE  Separated'
    <2>1. CASE JoinAttempt(c, d, status[d], poolPhase)
      BY <1>4, <2>1 DEF GetConnect, JoinAttempt, CallShape
    <2>2. CASE StartAttempt(c, d, poolPhase)
      BY <1>4, <2>2, OpenPoolFacts DEF GetConnect, StartAttempt, CallShape
    <2> QED
      BY <1>4, <2>1, <2>2 DEF GetConnect, ConnectOrJoin
  <1>5. ASSUME NEW c \in Calls, ProbeOk(c)
        PROVE  Separated'
    BY <1>5 DEF ProbeOk, Leave, entryVars, CallShape
  <1>6. ASSUME NEW c \in Calls, ProbeFailNoPool(c) \/ Finish(c)
        PROVE  Separated'
    BY <1>6 DEF ProbeFailNoPool, Finish, Leave, entryVars
  <1>7. ASSUME NEW c \in Calls, ProbeFailEnd(c)
        PROVE  Separated'
    BY <1>7 DEF ProbeFailEnd, entryVars, CallShape
  <1>8. ASSUME NEW c \in Calls, NEW pp, pool' = [pool EXCEPT ![target[c]] = None],
               target' = target, ConnectOrJoin(c, target[c], "not_connected", pp)
        PROVE  Separated'
    <2>1. CASE JoinAttempt(c, target[c], "not_connected", pp)
      BY <1>8, <2>1 DEF JoinAttempt
    <2>2. CASE StartAttempt(c, target[c], pp)
      BY <1>8, <2>2, OpenPoolFacts DEF StartAttempt
    <2> QED
      BY <1>8, <2>1, <2>2 DEF ConnectOrJoin
  <1>9. ASSUME NEW c \in Calls, ConnectOk(c)
        PROVE  Separated'
    BY <1>9 DEF ConnectOk, Resumed, CallShape
  <1>10. ASSUME NEW c \in Calls, ConnectFail(c)
         PROVE  Separated'
    BY <1>10 DEF ConnectFail
  <1>11. ASSUME NEW c \in Calls, DiscardDone(c)
         PROVE  Separated'
    BY <1>11 DEF DiscardDone, Resumed
  <1>12. CASE UNCHANGED vars
    BY <1>12 DEF vars, entryVars, callVars
  <1> QED
    BY <1>1, <1>2, <1>3, <1>4, <1>5, <1>6, <1>7, <1>8, <1>9, <1>10, <1>11, <1>12
       DEF Next, Startup, Get, Resume, ProbeFailReset, EndDone

\* A pool a tool call works on is never the pool of another database.
THEOREM PoolsAreSeparate == Spec => []PoolOfRequestedDatabase
  <1>1. IInv /\ Separated => PoolOfRequestedDatabase
    BY DEF IInv, CallShape, Separated, PoolOfRequestedDatabase
  <1>2. Init => Separated
    BY SeparatedInit
  <1>3. IInv /\ Separated /\ [Next]_vars => Separated'
    BY SeparatedNext
  <1> QED
    BY <1>1, <1>2, <1>3, Invariance, PTL DEF Spec

-----------------------------------------------------------------------------
(***************************************************************************)
(* Routing.  Its steps are those of the manager, and requests for the pool *)
(* the handlers have kept since start-up.                                  *)
(***************************************************************************)

\* Start-up ends with a pool, which the handlers keep.
HandlersPool ==
    /\ ~serving /\ phase[Main] = "using" => pool[Default] # None
    /\ HaveHandlers => held[Main] \in Pools /\ target[Main] = Default

\* Before there are handlers only background probes are under way.
Kinds ==
    /\ kind \in [Calls -> Kind]
    /\ kind[Main] = "none"
    /\ \A c \in Calls : kind[c] \in {"tool", "use", "default"} => HaveHandlers

RoutingInv == IInv /\ Separated /\ HandlersPool /\ Kinds

\* What routing adds to the steps of the manager.
LEMMA RoutingSteps ==
    [RoutingNext]_allVars => [Next]_vars \/ \E c \in Calls : DefaultRequest(c)
BY DEF RoutingNext, StartUp, BackgroundProbe, Request, Ask, Progress, allVars, Next, Startup,
       Get, Resume

\* A request for the handlers' pool is one more call that uses it.
LEMMA DefaultRequestInv ==
    ASSUME IInv, Separated, HandlersPool, NEW c \in Calls, DefaultRequest(c)
    PROVE  IInv' /\ Separated' /\ HandlersPool'
  <1> USE DEF DefaultRequest, IInv
  <1>1. held[Main] \in Pools /\ target[Main] = Default
    BY DEF HandlersPool
  <1>2. TypeOK'
    BY <1>1 DEF TypeOK, Phase, entryVars
  <1>3. CallShape'
    BY <1>1 DEF CallShape, TypeOK, entryVars
  <1>4. serving
    BY DEF StartupAlone, HaveHandlers, TypeOK
  <1>5. StartupAlone' /\ StartupOver'
    BY <1>4 DEF StartupAlone, StartupOver, HaveHandlers, TypeOK
  <1>6. AttemptShape' /\ StatusMatchesPool' /\ NeverPolls'
    BY DEF AttemptShape, StatusMatchesPool, NeverPolls, TypeOK, entryVars
  <1>7. MapTracksAttempt'
    BY DEF MapTracksAttempt, Attempts, TypeOK, entryVars
  <1>8. Separated'
    BY <1>1 DEF Separated, TypeOK, entryVars
  <1>9. HandlersPool'
    BY <1>1, <1>4 DEF HandlersPool, HaveHandlers, TypeOK
  <1> QED
    BY <1>2, <1>3, <1>5, <1>6, <1>7, <1>8, <1>9

\* The manager's steps leave the handlers their pool.
LEMMA HandlersPoolNext ==
    IInv /\ HandlersPool /\ [Next]_vars => HandlersPool'
  <1> SUFFICES ASSUME IInv, HandlersPool, [Next]_vars
               PROVE  HandlersPool'
    OBVIOUS
  <1> USE DEF IInv, HandlersPool, HaveHandlers, TypeOK
  <1>1. ASSUME ConnectDefault
        PROVE  HandlersPool'
    BY <1>1, OpenPoolFacts DEF ConnectDefault
  <1>2. ASSUME CreateHandlers
        PROVE  HandlersPool'
    BY <1>2 DEF CreateHandlers, StartupAlone, StartupOver
  <1>3. ASSUME NEW c \in Calls, NEW d \in Databases, GetProbe(c, d) \/ GetConnect(c, d)
        PROVE  HandlersPool'
    BY <1>3, OpenPoolFacts
       DEF GetProbe, GetConnect, ConnectOrJoin, JoinAttempt, StartAttempt
  <1>4. ASSUME NEW c \in Calls,
               ProbeOk(c) \/ ProbeFailNoPool(c) \/ ProbeFailEnd(c) \/ Finish(c)
        PROVE  HandlersPool'
    BY <1>4 DEF ProbeOk, ProbeFailNoPool, ProbeFailEnd, Finish, Leave, StartupAlone, entryVars
  <1>5. ASSUME NEW c \in Calls, ProbeFailReset(c) \/ EndDone(c)
        PROVE  HandlersPool'
    BY <1>5, OpenPoolFacts
       DEF ProbeFailReset, EndDone, ConnectOrJoin, JoinAttempt, StartAttempt, StartupAlone
  <1>6. ASSUME NEW c \in Calls, ConnectOk(c)
        PROVE  HandlersPool'
    BY <1>6 DEF ConnectOk, Resumed, StartupAlone, CallShape
  <1>7. ASSUME NEW c \in Calls, ConnectFail(c) \/ DiscardDone(c)
        PROVE  HandlersPool'
    BY <1>7 DEF ConnectFail, DiscardDone, Resumed, StartupAlone
  <1>8. CASE UNCHANGED vars
    BY <1>8 DEF vars, entryVars, callVars
  <1> QED
    BY <1>1, <1>2, <1>3, <1>4, <1>5, <1>6, <1>7, <1>8 DEF Next, Startup, Get, Resume

\* Handlers are never lost again, and no activity but start-up comes before them.
LEMMA HandlersStay ==
    IInv /\ HaveHandlers /\ [RoutingNext]_allVars => HaveHandlers'
  <1> SUFFICES ASSUME IInv, HaveHandlers, [RoutingNext]_allVars
               PROVE  HaveHandlers'
    OBVIOUS
  <1> USE DEF HaveHandlers, IInv, TypeOK
  <1>1. CASE \E c \in Calls : DefaultRequest(c)
    BY <1>1 DEF DefaultRequest
  <1>2. CASE ConnectDefault \/ CreateHandlers
    BY <1>2 DEF ConnectDefault, CreateHandlers
  <1>3. ASSUME NEW c \in Calls, NEW d \in Databases, GetProbe(c, d) \/ GetConnect(c, d)
        PROVE  HaveHandlers'
    BY <1>3, OpenPoolFacts
       DEF GetProbe, GetConnect, ConnectOrJoin, JoinAttempt, StartAttempt
  <1>4. ASSUME NEW c \in Calls, ProbeFailReset(c) \/ EndDone(c)
        PROVE  HaveHandlers'
    BY <1>4, OpenPoolFacts
       DEF ProbeFailReset, EndDone, ConnectOrJoin, JoinAttempt, StartAttempt
  <1>5. ASSUME NEW c \in Calls,
               \/ ProbeOk(c) \/ ProbeFailNoPool(c) \/ ProbeFailEnd(c) \/ ConnectOk(c)
               \/ ConnectFail(c) \/ DiscardDone(c) \/ Finish(c)
        PROVE  HaveHandlers'
    BY <1>5
       DEF ProbeOk, ProbeFailNoPool, ProbeFailEnd, ConnectOk, ConnectFail, DiscardDone,
           Resumed, Finish, Leave
  <1>6. CASE UNCHANGED vars
    BY <1>6 DEF vars, callVars
  <1> QED
    BY <1>1, <1>2, <1>3, <1>4, <1>5, <1>6, RoutingSteps DEF Next, Startup, Get, Resume

\* What a call is for is fixed when it comes in.
LEMMA KindsNext ==
    IInv /\ Kinds /\ [RoutingNext]_allVars => Kinds'
  <1> SUFFICES ASSUME IInv, Kinds, [RoutingNext]_allVars
               PROVE  Kinds'
    OBVIOUS
  <1> USE DEF Kinds, Kind
  <1>1. CASE kind' = kind
    BY <1>1, HandlersStay
  <1>2. ASSUME NEW c \in Calls, NEW d \in Databases, NEW k \in {"look", "tool", "use"},
               Ask(c, d, k), k # "look" => HaveHandlers
        PROVE  Kinds'
    BY <1>2, HandlersStay DEF Ask, GetProbe, GetConnect
  <1>3. ASSUME NEW c \in Calls, DefaultRequest(c)
        PROVE  Kinds'
    BY <1>3, HandlersStay DEF DefaultRequest
  <1>4. CASE KindsOver
    BY <1>4, HandlersStay DEF KindsOver
  <1> QED
    BY <1>1, <1>2, <1>3, <1>4
       DEF RoutingNext, StartUp, BackgroundProbe, Request, Progress, allVars, routingVars

LEMMA RoutingInvariance == RoutingSpec => []RoutingInv
  <1>1. RoutingInit => RoutingInv
    BY InitInv, SeparatedInit
       DEF RoutingInit, Init, RoutingInv, HandlersPool, HaveHandlers, Kinds, Kind
  <1>2. RoutingInv /\ [RoutingNext]_allVars => RoutingInv'
    BY RoutingSteps, NextInv, SeparatedNext, HandlersPoolNext, DefaultRequestInv, KindsNext
       DEF RoutingInv
  <1> QED
    BY <1>1, <1>2, PTL DEF RoutingSpec

-----------------------------------------------------------------------------
(***************************************************************************)
(* Schema lists.                                                           *)
(***************************************************************************)

\* A pool somebody refers to keeps its list, unless it is new.
LEMMA LabelsKept ==
    ASSUME NEW f, Labels(f), NEW x \in Calls, held'[x] \in Pools,
           \A y \in Calls : phase'[y] = "connecting" /\ phase[y] # "connecting"
                              => held'[y] # held'[x]
    PROVE  schemasOf'[held'[x]] = f[held'[x]]
  <1>1. held'[x] \notin FreePools'
    BY DEF FreePools
  <1> QED
    BY <1>1 DEF Labels

\* A call that uses a pool goes on using it.
LEMMA SchemasKept ==
    ASSUME IInv, SchemasOfOtherDatabases, Labels(schemasOf),
           NEW x \in Calls, phase[x] = "using", held'[x] = held[x], target'[x] = target[x],
           kind[x] = "tool", target[x] # Default,
           \A y \in Calls : phase'[y] = "connecting" /\ phase[y] # "connecting"
                              => held'[y] # held[x]
    PROVE  schemasOf'[held'[x]] = target'[x]
  <1>1. held[x] \in Pools /\ schemasOf[held[x]] = target[x]
    BY DEF IInv, CallShape, SchemasOfOtherDatabases
  <1> QED
    BY <1>1, LabelsKept

\* Of the calls x, the one that takes the step is taken case by case.
LEMMA SchemasNext ==
    RoutingInv /\ SchemasOfOtherDatabases /\ RoutingTypeOK /\ [RoutingNext]_allVars
        => SchemasOfOtherDatabases'
  <1> SUFFICES ASSUME RoutingInv, SchemasOfOtherDatabases, RoutingTypeOK,
                      [RoutingNext]_allVars, NEW x \in Calls,
                      kind'[x] = "tool", phase'[x] = "using", target'[x] # Default
               PROVE  schemasOf'[held'[x]] = target'[x]
    BY DEF SchemasOfOtherDatabases
  <1> USE DEF RoutingInv, IInv, TypeOK
  <1>1. CASE UNCHANGED allVars
    BY <1>1 DEF allVars, vars, callVars, routingVars, SchemasOfOtherDatabases
  <1>2. CASE StartUp
    BY <1>2 DEF StartUp, CreateHandlers, ConnectDefault, Kinds, HaveHandlers, StartupAlone,
                StartupOver
  <1>3. ASSUME NEW c \in Calls, NEW d \in Databases, NEW k \in {"look", "tool", "use"},
               Ask(c, d, k)
        PROVE  schemasOf'[held'[x]] = target'[x]
    <2>1. CASE GetProbe(c, d)
      BY <1>3, <2>1, SchemasKept DEF Ask, GetProbe, Kinds
    <2>2. CASE GetConnect(c, d)
      <3>1. x # c
        BY <2>2, OpenPoolFacts
           DEF GetConnect, ConnectOrJoin, JoinAttempt, StartAttempt
      <3>2. \A y \in Calls : phase'[y] = "connecting" /\ phase[y] # "connecting"
                               => held'[y] # held[x]
        BY <2>2, OpenPoolFacts
           DEF GetConnect, ConnectOrJoin, JoinAttempt, StartAttempt
      <3>3. /\ phase'[x] = phase[x] /\ held'[x] = held[x] /\ target'[x] = target[x]
            /\ kind'[x] = kind[x]
        BY <1>3, <2>2, <3>1, OpenPoolFacts
           DEF Ask, GetConnect, ConnectOrJoin, JoinAttempt, StartAttempt, Kinds
      <3> QED
        BY <1>3, <3>2, <3>3, SchemasKept DEF Ask
    <2> QED
      BY <1>3, <2>1, <2>2 DEF Ask
  <1>4. ASSUME NEW c \in Calls, DefaultRequest(c)
        PROVE  schemasOf'[held'[x]] = target'[x]
    BY <1>4 DEF DefaultRequest, Kinds, SchemasOfOtherDatabases
  \* What Deliver labels is the pool of the entry, with its database, or the handlers' pool,
  \* which no call for another database has.
  <1>5. ASSUME NEW c \in Calls, ProbeOk(c), Deliver({c}, target[c], pool[target[c]]),
               KindsOver
        PROVE  schemasOf'[held'[x]] = target'[x]
    <2> DEFINE d == target[c]
               q == pool[d]
               uses == {y \in {c} : kind[y] = "use"}
               label == IF q # None THEN q ELSE IF uses # {} THEN held[Main] ELSE None
               f == IF {y \in {c} : kind[y] = "tool"} \cup uses # {} /\ label # None
                      THEN [schemasOf EXCEPT ![label] = d] ELSE schemasOf
    <2>1. Labels(f)
      BY <1>5 DEF Deliver
    <2>2. d \in Databases /\ \A y \in Calls : phase'[y] = "connecting" => phase[y] = "connecting"
      BY <1>5 DEF ProbeOk, Leave, CallShape
    <2>3. kind[x] = "tool" /\ target'[x] = target[x] /\ held'[x] \in Pools
      BY <1>5, <2>2 DEF KindsOver, ProbeOk, Leave, CallShape
    <2>4. CASE x = c
      <3>1. held'[x] = q /\ label = q
        BY <1>5, <2>3, <2>4 DEF ProbeOk, Leave
      <3>2. f[held'[x]] = target'[x]
        BY <2>3, <2>4, <3>1 DEF RoutingTypeOK
      <3> HIDE DEF f
      <3> QED
        BY <2>1, <2>2, <2>3, <3>2, LabelsKept
    <2>5. CASE x # c
      <3>1. held'[x] = held[x] /\ phase[x] = "using"
        BY <1>5, <2>5 DEF ProbeOk, Leave
      <3>2. schemasOf[held[x]] = target[x]
        BY <2>3, <3>1 DEF SchemasOfOtherDatabases
      <3>3. held[x] = q => target[x] = d
        BY <2>2, <2>3, <3>1 DEF Separated
      <3>4. held[x] = held[Main] => uses = {}
        BY <2>3, <3>1 DEF Separated, Kinds, HandlersPool
      <3>5. held[x] = label => target[x] = d
        BY <2>3, <3>1, <3>3, <3>4
      <3>6. f[held'[x]] = target'[x]
        BY <2>3, <3>1, <3>2, <3>5 DEF RoutingTypeOK
      <3> HIDE DEF f
      <3> QED
        BY <2>1, <2>2, <2>3, <3>6, LabelsKept
    <2> QED
      BY <2>4, <2>5
  <1>6. ASSUME NEW c \in Calls, ConnectOk(c), Deliver(Resumed(c), target[c], held[c]),
               KindsOver
        PROVE  schemasOf'[held'[x]] = target'[x]
    <2> DEFINE d == target[c]
               q == held[c]
               some == \E y \in Resumed(c) : kind[y] \in {"tool", "use"}
               f == IF some THEN [schemasOf EXCEPT ![q] = d] ELSE schemasOf
    <2>1. d \in Databases /\ q \in Pools
      BY <1>6 DEF ConnectOk, CallShape
    <2>2. \A y \in Calls : phase'[y] = "connecting" => phase[y] = "connecting"
      BY <1>6 DEF ConnectOk
    <2>3. Labels(f)
      BY <1>6, <2>1 DEF Deliver, Labels
    <2>4. /\ kind[x] = "tool" /\ target'[x] = target[x]
          /\ held'[x] \in Pools
          /\ held'[x] = q => target[x] = d
      BY <1>6, <2>1 DEF KindsOver, ConnectOk, Resumed, CallShape, Separated
    <2>5. CASE x \in Resumed(c)
      <3>1. held'[x] = q /\ some
        BY <1>6, <2>4, <2>5 DEF ConnectOk
      <3>2. f[held'[x]] = target'[x]
        BY <2>4, <3>1 DEF RoutingTypeOK
      <3> HIDE DEF f
      <3> QED
        BY <2>2, <2>3, <2>4, <3>2, LabelsKept
    <2>6. CASE x \notin Resumed(c)
      <3>1. held'[x] = held[x] /\ phase[x] = "using"
        BY <1>6, <2>6 DEF ConnectOk
      <3>2. schemasOf[held[x]] = target[x]
        BY <2>4, <3>1 DEF SchemasOfOtherDatabases
      <3>3. f[held'[x]] = target'[x]
        BY <2>4, <3>1, <3>2 DEF RoutingTypeOK
      <3> HIDE DEF f
      <3> QED
        BY <2>2, <2>3, <2>4, <3>3, LabelsKept
    <2> QED
      BY <2>5, <2>6
  <1>7. ASSUME NEW c \in Calls, Labels(schemasOf), KindsOver,
               ProbeFailReset(c) \/ EndDone(c)
        PROVE  schemasOf'[held'[x]] = target'[x]
    <2>1. x # c
      BY <1>7, OpenPoolFacts
         DEF ProbeFailReset, EndDone, ConnectOrJoin, JoinAttempt, StartAttempt
    <2>2. \A y \in Calls : phase'[y] = "connecting" /\ phase[y] # "connecting"
                             => held'[y] # held[x]
      BY <1>7, OpenPoolFacts
         DEF ProbeFailReset, EndDone, ConnectOrJoin, JoinAttempt, StartAttempt
    <2>3. /\ phase[x] = "using" /\ held'[x] = held[x] /\ target'[x] = target[x]
          /\ kind[x] = "tool"
      BY <1>7, <2>1, OpenPoolFacts
         DEF ProbeFailReset, EndDone, ConnectOrJoin, JoinAttempt, StartAttempt, KindsOver
    <2> QED
      BY <1>7, <2>2, <2>3, SchemasKept
  <1>8. ASSUME NEW c \in Calls, Labels(schemasOf), KindsOver,
               \/ ProbeFailNoPool(c) \/ ProbeFailEnd(c) \/ ConnectFail(c) \/ DiscardDone(c)
               \/ Finish(c)
        PROVE  schemasOf'[held'[x]] = target'[x]
    <2>1. /\ phase[x] = "using" /\ held'[x] = held[x] /\ target'[x] = target[x]
          /\ kind[x] = "tool"
          /\ \A y \in Calls : phase'[y] = "connecting" => phase[y] = "connecting"
      BY <1>8
         DEF ProbeFailNoPool, ProbeFailEnd, ConnectFail, DiscardDone, Resumed, Finish, Leave,
             KindsOver
    <2> QED
      BY <1>8, <2>1, SchemasKept
  <1>9. ASSUME NEW c \in Calls, Progress(c)
        PROVE  schemasOf'[held'[x]] = target'[x]
    BY <1>5, <1>6, <1>7, <1>8, <1>9 DEF Progress
  <1> QED
    BY <1>1, <1>2, <1>3, <1>4, <1>9 DEF RoutingNext, BackgroundProbe, Request

\* No step leaves the types.
LEMMA RoutingTypes ==
    RoutingInv /\ RoutingTypeOK /\ [RoutingNext]_allVars => RoutingTypeOK'
  <1> SUFFICES ASSUME RoutingInv, RoutingTypeOK, [RoutingNext]_allVars, RoutingInv'
               PROVE  RoutingTypeOK'
    BY RoutingSteps, NextInv, SeparatedNext, HandlersPoolNext, DefaultRequestInv, KindsNext
       DEF RoutingInv
  <1>1. ASSUME NEW f \in [Pools -> Databases \cup {None}], Labels(f)
        PROVE  schemasOf' \in [Pools -> Databases \cup {None}]
    BY <1>1 DEF Labels
  <1>2. current' \in Databases /\ schemasOf' \in [Pools -> Databases \cup {None}]
    <2>1. CASE UNCHANGED <<current, schemasOf>>
      BY <2>1 DEF RoutingTypeOK
    <2>2. CASE StartUp
      BY <2>2, <1>1 DEF StartUp, RoutingTypeOK
    <2>3. CASE current' = current /\ Labels(schemasOf)
      BY <2>3, <1>1 DEF RoutingTypeOK
    <2>4. ASSUME NEW S, NEW d \in Databases, NEW q, Deliver(S, d, q)
          PROVE  current' \in Databases /\ schemasOf' \in [Pools -> Databases \cup {None}]
      <3> DEFINE label == IF q # None THEN q
                          ELSE IF {c \in S : kind[c] = "use"} # {} THEN held[Main] ELSE None
      <3>1. [schemasOf EXCEPT ![label] = d] \in [Pools -> Databases \cup {None}]
        BY DEF RoutingTypeOK
      <3> QED
        BY <2>4, <3>1, <1>1 DEF Deliver, RoutingTypeOK
    <2>5. ASSUME NEW c \in Calls, Progress(c)
          PROVE  current' \in Databases /\ schemasOf' \in [Pools -> Databases \cup {None}]
      <3>1. CASE Labels(schemasOf) /\ UNCHANGED <<current, toProbe>>
        BY <3>1, <2>3
      <3>2. ASSUME ProbeOk(c) \/ ConnectOk(c)
            PROVE  target[c] \in Databases
        BY <3>2 DEF ProbeOk, ConnectOk, RoutingInv, IInv, CallShape
      <3> QED
        BY <2>4, <2>5, <3>1, <3>2 DEF Progress
    <2> QED
      BY <2>1, <2>2, <2>3, <2>5
         DEF RoutingNext, BackgroundProbe, Request, Ask, DefaultRequest, allVars, routingVars
  <1>3. toProbe' \subseteq Databases
    BY DEF RoutingNext, StartUp, BackgroundProbe, Request, DefaultRequest, Progress, Deliver,
           allVars, routingVars, RoutingTypeOK
  <1> QED
    BY <1>2, <1>3 DEF RoutingInv, IInv, Kinds, RoutingTypeOK

-----------------------------------------------------------------------------

\* Every variable of routing keeps its type, and so does the manager under it.
THEOREM RoutingTypeCorrect == RoutingSpec => []RoutingTypeOK
  <1>1. RoutingInit => RoutingTypeOK
    BY InitInv DEF RoutingInit, RoutingTypeOK, IInv, Kind
  <1> QED
    BY <1>1, RoutingTypes, RoutingInvariance, PTL DEF RoutingSpec

\* The manager keeps its promises while calls for the handlers' pool come between its own:
\* also those work on the pool of their database.
THEOREM RoutedPoolsAreSeparate == RoutingSpec => []PoolOfRequestedDatabase
  <1>1. RoutingInv => PoolOfRequestedDatabase
    BY DEF RoutingInv, IInv, CallShape, Separated, PoolOfRequestedDatabase
  <1> QED
    BY <1>1, RoutingInvariance, PTL

\* Whatever other calls connect, reset, switch or relabel, a call on a database other than
\* the start-up default sees that database's schema list.
THEOREM SchemasFollowDatabase == RoutingSpec => []SchemasOfOtherDatabases
  <1>1. RoutingInit => SchemasOfOtherDatabases
    BY DEF RoutingInit, SchemasOfOtherDatabases
  <1> QED
    BY <1>1, SchemasNext, RoutingTypeCorrect, RoutingInvariance, PTL DEF RoutingSpec

\* Only a db_use_database whose get succeeds moves the default.
THEOREM SwitchesSucceed == RoutingSpec => SwitchOnlyOnSuccess
  <1> DEFINE Switched ==
        \E c \in Calls : /\ kind[c] = "use" /\ target[c] = current'
                         /\ phase[c] \in {"probing", "joined", "connecting"}
                         /\ kind'[c] = "use" => held'[c] = pool'[current']
  <1>1. ASSUME RoutingInv, [RoutingNext]_allVars, current' # current
        PROVE  Switched
    <2>1. PICK c \in Calls : \/ ProbeOk(c) /\ Deliver({c}, target[c], pool[target[c]])
                                           /\ KindsOver
                             \/ ConnectOk(c) /\ Deliver(Resumed(c), target[c], held[c])
                                             /\ KindsOver
      BY <1>1 DEF RoutingNext, StartUp, BackgroundProbe, Request, Ask, DefaultRequest,
                  Progress, allVars, routingVars
    <2>2. CASE ProbeOk(c) /\ Deliver({c}, target[c], pool[target[c]]) /\ KindsOver
      <3>1. kind[c] = "use" /\ current' = target[c]
        BY <1>1, <2>2 DEF Deliver
      <3> QED
        BY <1>1, <2>2, <3>1
           DEF ProbeOk, Leave, KindsOver, entryVars, RoutingInv, IInv, TypeOK
    <2>3. CASE ConnectOk(c) /\ Deliver(Resumed(c), target[c], held[c]) /\ KindsOver
      <3>1. PICK x \in Resumed(c) : kind[x] = "use" /\ current' = target[c]
        BY <1>1, <2>3 DEF Deliver
      <3>2. x \in Calls /\ target[x] = target[c] /\ phase[x] \in {"joined", "connecting"}
        BY <2>3, <3>1 DEF Resumed, ConnectOk
      <3>3. target[c] \in Databases
        BY <1>1, <2>3 DEF ConnectOk, RoutingInv, IInv, CallShape
      <3>4. held'[x] = held[c] /\ pool'[target[c]] = held[c]
        BY <1>1, <2>3, <3>1, <3>2, <3>3 DEF ConnectOk, RoutingInv, IInv, TypeOK
      <3> QED
        BY <3>1, <3>2, <3>4
    <2> QED
      BY <2>1, <2>2, <2>3
  <1>2. RoutingInv /\ [RoutingNext]_allVars => [current' # current => Switched]_allVars
    BY <1>1
  <1> QED
    BY <1>2, RoutingInvariance, PTL DEF RoutingSpec, SwitchOnlyOnSuccess
=============================================================================
