------------------------- MODULE ToolRequestsProofs -------------------------
(***************************************************************************)
(* Proofs about ToolRequests, for any number of requests and clients: what *)
(* the read-only switch and the session setting of a pooled client ensure. *)
(***************************************************************************)
EXTENDS ToolRequests, TLAPS

\* Who has a client: every request past the wait for one, and no two the same.
Checkout ==
    /\ \A r \in Requests : stage[r] \notin {"idle", "waiting"} => client[r] \in Clients
    /\ \A r \in Requests : stage[r] \in {"idle", "waiting"} => client[r] = None
    /\ \A r, q \in Requests : client[r] = client[q] /\ client[r] # None => r = q

\* What a request can have done by the time it is at a stage.
Progress ==
    \A r \in Requests :
        /\ stage[r] \in {"begun", "second", "resetting"} => kind[r] = "script"
        /\ stage[r] \in {"idle", "waiting", "begun", "running"} => changed[r] = "nothing"
        /\ isSet[r] => kind[r] = "script" /\ stage[r] = "running"
        /\ stage[r] = "idle" => ~letInReadonly[r]
        /\ letInReadonly[r] => kind[r] \in {"select", "script"}

\* In production the switch only goes on: whoever has seen it on still sees it on.
\* A session that the handler has set read-only is in the hands of a script that will set
\* it back, and a script let in read-only that leaves the setting alone has its session
\* protected before it can commit.
Protection ==
    mode = "production" =>
        /\ \A r \in Requests : letInReadonly[r] \/ isSet[r] => readonly
        /\ \A c \in Clients : session[c] = "handler" =>
             /\ readonly
             /\ \E r \in Requests : /\ client[r] = c /\ kind[r] = "script"
                                    /\ stage[r] \in {"second", "committed", "failed", "resetting"}
        /\ \A r \in Requests : letInReadonly[r] /\ kind[r] = "script" /\ ~ownSetting[r] =>
             /\ stage[r] = "running" => isSet[r]
             /\ stage[r] = "second" => txnReadonly[r]
             /\ changed[r] # "after"
        /\ \A r \in Requests : kind[r] # "script" => stage[r] # "second" /\ changed[r] # "after"

IInv == TypeOK /\ Checkout /\ Progress /\ Protection /\ CacheFollowsWrites

USE NoneAssumption

\* The initial states satisfy the invariant: nothing has been let in.
LEMMA InitInv == Init => IInv
<1> SUFFICES ASSUME Init PROVE IInv
  OBVIOUS
<1>1. TypeOK
  BY DEF Init, CacheInit, TypeOK, CacheTypeOK, Mode, Stage, Kind, Changed, Session, Cached, Loaded
<1>2. Checkout /\ Progress
  BY DEF Init, Checkout, Progress
<1>3. Protection
  BY DEF Init, Protection
<1>4. CacheFollowsWrites
  BY DEF Init, CacheInit, CacheFollowsWrites
<1> QED
  BY <1>1, <1>2, <1>3, <1>4 DEF IInv

\* A commit keeps the types of what it writes.
LEMMA CommitTypes ==
  ASSUME TypeOK, NEW r \in Requests, CommitTransaction(r), client[r] \in Clients
  PROVE  /\ changed' \in [Requests -> Changed]
         /\ session' \in [Clients -> Session]
         /\ isSet' \in [Requests -> BOOLEAN]
         /\ CacheTypeOK'
<1>1. SetBy(r) \subseteq Session
  BY DEF SetBy, Session, TypeOK
<1>2. session' \in [Clients -> Session] /\ isSet' \in [Requests -> BOOLEAN]
  BY <1>1 DEF CommitTransaction, TypeOK
<1>3. changed' \in [Requests -> Changed] /\ CacheTypeOK'
  BY DEF CommitTransaction, StructureChanges, TypeOK, CacheTypeOK, Changed, Cached, Loaded, cacheVars
<1> QED
  BY <1>2, <1>3

\* Every step keeps the types.
LEMMA NextTypeOK == TypeOK /\ Checkout /\ [Next]_vars => TypeOK'
<1> SUFFICES ASSUME TypeOK, Checkout, [Next]_vars PROVE TypeOK'
  OBVIOUS
<1> USE DEF GoTo, Settle, Stay, safety, cacheVars
<1>1. CASE UNCHANGED vars
  BY <1>1 DEF vars, requestVars, TypeOK, CacheTypeOK
<1>2. ASSUME NEW r \in Requests, Admit(r) PROVE TypeOK'
  <2>1. PICK k \in Handlers[r], own \in BOOLEAN :
          kind' = [kind EXCEPT ![r] = k] /\ ownSetting' = [ownSetting EXCEPT ![r] = own]
    BY <1>2 DEF Admit
  <2>2. k \in Kind
    BY HandlersAssumption
  <2> QED
    BY <1>2, <2>1, <2>2 DEF Admit, TypeOK, CacheTypeOK, Stage
<1>3. ASSUME NEW r \in Requests, Take(r) PROVE TypeOK'
  BY <1>3 DEF Take, Free, TypeOK, CacheTypeOK, Stage
<1>4. ASSUME NEW r \in Requests, Protect(r) PROVE TypeOK'
  BY <1>4 DEF Protect, TypeOK, CacheTypeOK, Stage
<1>5. ASSUME NEW r \in Requests, TurnedAway(r) \/ Suggest(r) \/ SuggestInVain(r) PROVE TypeOK'
  BY <1>5 DEF TurnedAway, Suggest, SuggestInVain, Leave, TypeOK, CacheTypeOK, Stage, Kind, Changed
<1>6. ASSUME NEW r \in Requests, InnerCommit(r) PROVE TypeOK'
  <2>1. client[r] \in Clients
    BY <1>6 DEF InnerCommit, Checkout
  <2>2. /\ changed' \in [Requests -> Changed] /\ session' \in [Clients -> Session]
        /\ isSet' \in [Requests -> BOOLEAN] /\ CacheTypeOK'
    BY <1>6, <2>1, CommitTypes DEF InnerCommit
  <2> QED
    BY <1>6, <2>2 DEF InnerCommit, TypeOK, Stage
<1>7. ASSUME NEW r \in Requests, Commit(r) PROVE TypeOK'
  <2>1. client[r] \in Clients
    BY <1>7 DEF Commit, Checkout
  <2>2. /\ changed' \in [Requests -> Changed] /\ session' \in [Clients -> Session]
        /\ isSet' \in [Requests -> BOOLEAN] /\ CacheTypeOK'
    BY <1>7, <2>1, CommitTypes DEF Commit
  <2> QED
    BY <1>7, <2>2 DEF Commit, TypeOK, Stage
<1>8. ASSUME NEW r \in Requests, Fail(r) PROVE TypeOK'
  BY <1>8 DEF Fail, ChangeUnnoticed, Leave, TypeOK, CacheTypeOK, Stage, Kind, Changed, Cached
<1>9. ASSUME NEW r \in Requests, Break(r) PROVE TypeOK'
  BY <1>9 DEF Break, ChangeUnnoticed, Leave, TypeOK, CacheTypeOK, Stage, Kind, Changed, Session, Cached
<1>10. ASSUME NEW r \in Requests, Answered(r) PROVE TypeOK'
  BY <1>10 DEF Answered, Invalidate, ChangeUnnoticed, ResetOrLeave, Leave, TypeOK, CacheTypeOK,
     Stage, Kind, Changed, Cached
<1>11. ASSUME NEW r \in Requests, RollBack(r) PROVE TypeOK'
  BY <1>11 DEF RollBack, ResetOrLeave, Leave, TypeOK, CacheTypeOK, Stage, Kind, Changed
<1>12. ASSUME NEW r \in Requests, Reset(r) PROVE TypeOK'
  BY <1>12 DEF Reset, Leave, TypeOK, CacheTypeOK, Stage, Kind, Changed, Session
<1>13. CASE SwitchReadonly
  BY <1>13 DEF SwitchReadonly, requestVars, TypeOK, CacheTypeOK
<1>14. CASE Reading /\ UNCHANGED <<safety, session, requestVars>>
  BY <1>14 DEF Reading, StartLoad, FinishLoad, FailLoad, requestVars, TypeOK, CacheTypeOK,
     Cached, Loaded
<1> QED
  BY <1>1, <1>2, <1>3, <1>4, <1>5, <1>6, <1>7, <1>8, <1>9, <1>10, <1>11, <1>12, <1>13, <1>14
     DEF Next, Step

\* No step gives a client that is checked out to another request.
LEMMA NextCheckout == TypeOK /\ Checkout /\ [Next]_vars => Checkout'
<1> SUFFICES ASSUME TypeOK, Checkout, [Next]_vars PROVE Checkout'
  OBVIOUS
<1> USE DEF GoTo, Settle, Stay, TypeOK
<1>1. CASE UNCHANGED <<stage, client>>
  BY <1>1 DEF Checkout
<1>2. ASSUME NEW r \in Requests, Leave(r) PROVE Checkout'
  BY <1>2 DEF Leave, Checkout
<1>3. ASSUME NEW r \in Requests, UNCHANGED client,
             NEW s, stage' = [stage EXCEPT ![r] = s],
             stage[r] \in {"idle", "waiting"} <=> s \in {"idle", "waiting"}
      PROVE  Checkout'
  BY <1>3 DEF Checkout
<1>4. ASSUME NEW r \in Requests, Take(r) PROVE Checkout'
  <2>1. PICK c \in Free : client' = [client EXCEPT ![r] = c]
    BY <1>4 DEF Take
  <2>2. c \in Clients /\ c # None /\ \A q \in Requests : client[q] # c
    BY <2>1 DEF Free
  <2>3. \A q \in Requests : stage'[q] \in {"idle", "waiting"} <=>
                              q # r /\ stage[q] \in {"idle", "waiting"}
    BY <1>4 DEF Take
  <2> QED
    BY <2>1, <2>2, <2>3 DEF Checkout
<1>5. ASSUME NEW r \in Requests, ResetOrLeave(r), stage[r] \notin {"idle", "waiting"}
      PROVE  Checkout'
  BY <1>2, <1>3, <1>5 DEF ResetOrLeave
<1>6. ASSUME NEW r \in Requests, Admit(r) PROVE Checkout'
  BY <1>3, <1>6 DEF Admit
<1>7. ASSUME NEW r \in Requests, Protect(r) \/ InnerCommit(r) \/ Commit(r) PROVE Checkout'
  BY <1>3, <1>7 DEF Protect, InnerCommit, Commit
<1>8. ASSUME NEW r \in Requests, Fail(r) PROVE Checkout'
  BY <1>2, <1>3, <1>8 DEF Fail
<1>9. ASSUME NEW r \in Requests, Answered(r) PROVE Checkout'
  BY <1>5, <1>9 DEF Answered
<1>10. ASSUME NEW r \in Requests, RollBack(r) PROVE Checkout'
  BY <1>3, <1>5, <1>10 DEF RollBack
<1> QED
  BY <1>1, <1>2, <1>4, <1>6, <1>7, <1>8, <1>9, <1>10
     DEF Next, Step, Break, TurnedAway, Suggest, SuggestInVain, Reset, SwitchReadonly, vars,
         requestVars

\* No step takes a request where its stage does not account for what it has done.
LEMMA NextProgress == TypeOK /\ Progress /\ [Next]_vars => Progress'
<1> SUFFICES ASSUME TypeOK, Progress, [Next]_vars PROVE Progress'
  OBVIOUS
<1> USE DEF GoTo, Settle, Stay, TypeOK
<1>1. CASE UNCHANGED <<stage, kind, isSet, letInReadonly, changed>>
  BY <1>1 DEF Progress
<1>2. ASSUME NEW r \in Requests, Leave(r) PROVE Progress'
  BY <1>2 DEF Leave, Progress
<1>3. ASSUME NEW r \in Requests, ResetOrLeave(r) PROVE Progress'
  BY <1>2, <1>3 DEF ResetOrLeave, Progress
<1>4. ASSUME NEW r \in Requests, Admit(r) PROVE Progress'
  <2>1. PICK k \in Handlers[r] : Allowed(k) /\ kind' = [kind EXCEPT ![r] = k]
    BY <1>4 DEF Admit
  <2>2. k \in Kind
    BY HandlersAssumption
  <2> QED
    BY <1>4, <2>1, <2>2 DEF Admit, Allowed, Kind, Progress
<1>5. ASSUME NEW r \in Requests, Take(r) PROVE Progress'
  BY <1>5 DEF Take, Progress
<1>6. ASSUME NEW r \in Requests, Protect(r) PROVE Progress'
  BY <1>6 DEF Protect, Progress
<1>7. ASSUME NEW r \in Requests, InnerCommit(r) \/ Commit(r) PROVE Progress'
  BY <1>7 DEF InnerCommit, Commit, CommitTransaction, Progress
<1>8. ASSUME NEW r \in Requests, Fail(r) PROVE Progress'
  BY <1>2, <1>8 DEF Fail, Progress
<1>9. ASSUME NEW r \in Requests, RollBack(r) PROVE Progress'
  BY <1>3, <1>9 DEF RollBack, Progress
<1> QED
  BY <1>1, <1>2, <1>3, <1>4, <1>5, <1>6, <1>7, <1>8, <1>9
     DEF Next, Step, Break, TurnedAway, Suggest, SuggestInVain, Answered, Reset, SwitchReadonly,
         vars, requestVars

\* No step lets go of a session that is read-only, and none lets a protected script out
\* of its protection.
LEMMA NextProtection == TypeOK /\ Checkout /\ Progress /\ Protection /\ [Next]_vars => Protection'
<1> SUFFICES ASSUME TypeOK, Checkout, Progress, Protection, [Next]_vars, mode = "production"
             PROVE  Protection'
  BY DEF Protection, Next, Step, Admit, Take, TurnedAway, Protect, InnerCommit, Commit, Fail, Break,
         Answered, RollBack, Suggest, SuggestInVain, Reset, SwitchReadonly, vars, safety
<1> USE DEF GoTo, Settle, Stay, TypeOK
<1>1. CASE UNCHANGED <<safety, session, requestVars>>
  BY <1>1 DEF Protection, safety, requestVars
<1>2. ASSUME NEW r \in Requests, Leave(r), UNCHANGED safety,
             \/ UNCHANGED session
             \/ session' = [session EXCEPT ![client[r]] = "nobody"],
             client[r] \in Clients => session'[client[r]] # "handler"
      PROVE  Protection'
  <2>1. \A c \in Clients : session'[c] = "handler" => session[c] = "handler" /\ client[r] # c
    BY <1>2
  <2> QED
    BY <1>2, <2>1 DEF Leave, Protection, safety
<1>3. ASSUME NEW r \in Requests, ResetOrLeave(r), UNCHANGED <<safety, session>>,
             stage[r] \in {"committed", "failed"}
      PROVE  Protection'
  <2>1. CASE kind[r] = "script" /\ readonly
    BY <1>3, <2>1 DEF ResetOrLeave, Protection, safety
  <2>2. CASE ~(kind[r] = "script" /\ readonly)
    <3>1. client[r] \in Clients => session[client[r]] # "handler"
      BY <1>3, <2>2 DEF Protection, Checkout
    <3> QED
      BY <1>2, <1>3, <2>2, <3>1 DEF ResetOrLeave
  <2> QED
    BY <2>1, <2>2
<1>4. ASSUME NEW r \in Requests, Admit(r) PROVE Protection'
  BY <1>4 DEF Admit, Protection, Progress, safety
<1>5. ASSUME NEW r \in Requests, Take(r) PROVE Protection'
  BY <1>5 DEF Take, Free, Protection, Progress, safety
<1>6. ASSUME NEW r \in Requests, Protect(r) PROVE Protection'
  BY <1>6 DEF Protect, Protection, Progress, safety
<1>7. ASSUME NEW r \in Requests, InnerCommit(r) PROVE Protection'
  BY <1>7 DEF InnerCommit, CommitTransaction, SetBy, Checkout, Protection, Progress, safety
<1>8. ASSUME NEW r \in Requests, Commit(r) PROVE Protection'
  BY <1>8 DEF Commit, CommitTransaction, SetBy, Checkout, Protection, Progress, safety
<1>9. ASSUME NEW r \in Requests, Fail(r) PROVE Protection'
  <2>1. CASE kind[r] = "edit"
    <3>1. client[r] \in Clients => session[client[r]] # "handler"
      BY <2>1 DEF Protection, Checkout
    <3> QED
      BY <1>2, <1>9, <2>1, <3>1 DEF Fail, safety
  <2>2. CASE kind[r] # "edit"
    BY <1>9, <2>2 DEF Fail, Protection, Progress, safety
  <2> QED
    BY <2>1, <2>2
<1>10. ASSUME NEW r \in Requests, Break(r) \/ Reset(r) PROVE Protection'
  BY <1>2, <1>10 DEF Break, Reset, safety
<1>11. ASSUME NEW r \in Requests, Answered(r) PROVE Protection'
  BY <1>3, <1>11 DEF Answered, safety
<1>12. ASSUME NEW r \in Requests, RollBack(r) PROVE Protection'
  BY <1>3, <1>12 DEF RollBack, safety
<1>13. ASSUME NEW r \in Requests, TurnedAway(r) \/ Suggest(r) \/ SuggestInVain(r) PROVE Protection'
  <2>1. client[r] \in Clients => session[client[r]] # "handler"
    BY <1>13 DEF TurnedAway, Suggest, SuggestInVain, Protection, Checkout
  <2> QED
    BY <1>2, <1>13, <2>1 DEF TurnedAway, Suggest, SuggestInVain, safety
<1>14. CASE SwitchReadonly
  BY <1>14 DEF SwitchReadonly, Protection, requestVars
<1> QED
  BY <1>1, <1>4, <1>5, <1>6, <1>7, <1>8, <1>9, <1>10, <1>11, <1>12, <1>13, <1>14
     DEF Next, Step, vars

\* No step leaves the cache behind the database without a request that is to drop it.
LEMMA NextCacheFollowsWrites ==
  TypeOK /\ Progress /\ CacheFollowsWrites /\ [Next]_vars => CacheFollowsWrites'
<1> SUFFICES ASSUME TypeOK, Progress, CacheFollowsWrites, [Next]_vars, cache' = "outdated"
             PROVE  \E r \in Requests : changed'[r] # "nothing" /\ stage'[r] \in {"second", "committed"}
  BY DEF CacheFollowsWrites
<1> USE DEF GoTo, Settle, Stay, TypeOK, CacheTypeOK, cacheVars
<1> DEFINE Owed(r) == changed[r] # "nothing" /\ stage[r] \in {"second", "committed"}
           Still == \E r \in Requests : Owed(r)'
<1>1. CASE UNCHANGED <<cache, stage, changed>>
  BY <1>1 DEF CacheFollowsWrites
<1>2. ASSUME NEW r \in Requests, cache = "outdated", ~Owed(r),
             \E s : stage' = [stage EXCEPT ![r] = s], \E x : changed' = [changed EXCEPT ![r] = x]
      PROVE  Still
  BY <1>2 DEF CacheFollowsWrites
<1>3. ASSUME NEW r \in Requests, InnerCommit(r) \/ Commit(r) PROVE Still
  <2>1. CASE changed'[r] # "nothing"
    BY <1>3, <2>1 DEF InnerCommit, Commit
  <2>2. CASE changed'[r] = "nothing"
    <3>1. UNCHANGED <<changed, cache>>
      BY <1>3, <2>2 DEF InnerCommit, Commit, CommitTransaction
    <3> QED
      BY <1>3, <2>2, <3>1 DEF InnerCommit, Commit, CacheFollowsWrites
  <2> QED
    BY <2>1, <2>2
<1>4. ASSUME NEW r \in Requests,
             TurnedAway(r) \/ Fail(r) \/ Break(r) \/ Answered(r) \/ RollBack(r) \/ Suggest(r)
               \/ SuggestInVain(r) \/ Reset(r) \/ Admit(r) \/ Take(r) \/ Protect(r)
      PROVE  Still
  <2>1. \E s : stage' = [stage EXCEPT ![r] = s]
    BY <1>4 DEF TurnedAway, Fail, Break, Answered, RollBack, Suggest, SuggestInVain, Reset, Admit,
       Take, Protect, ResetOrLeave, Leave
  <2>2. changed' = [changed EXCEPT ![r] = "nothing"] \/ changed' = changed
    BY <1>4 DEF TurnedAway, Fail, Break, Answered, RollBack, Suggest, SuggestInVain, Reset, Admit,
       Take, Protect, ResetOrLeave, Leave
  <2>3. \E x : changed' = [changed EXCEPT ![r] = x]
    <3>1. changed = [changed EXCEPT ![r] = changed[r]]
      OBVIOUS
    <3> QED
      BY <2>2, <3>1
  <2>4. cache = "outdated" /\ ~Owed(r)
    BY <1>4 DEF TurnedAway, Fail, Break, Answered, RollBack, Suggest, SuggestInVain, Reset, Admit,
       Take, Protect, Invalidate, ChangeUnnoticed
  <2> QED
    BY <1>2, <2>1, <2>3, <2>4
<1>5. CASE Reading /\ UNCHANGED <<safety, session, requestVars>>
  BY <1>5 DEF Reading, StartLoad, FinishLoad, FailLoad, requestVars, CacheFollowsWrites, Loaded
<1> QED
  BY <1>1, <1>3, <1>4, <1>5 DEF Next, Step, SwitchReadonly, vars, requestVars

\* Every step keeps the invariant.
LEMMA NextInv == IInv /\ [Next]_vars => IInv'
  BY NextTypeOK, NextCheckout, NextProgress, NextProtection, NextCacheFollowsWrites DEF IInv

\* The inductive invariant holds in every reachable state.
THEOREM Invariance == Spec => []IInv
<1> QED
  BY InitInv, NextInv, PTL DEF Spec

\* Type correctness.
THEOREM TypeCorrect == Spec => []TypeOK
<1>1. IInv => TypeOK
  BY DEF IInv
<1> QED
  BY <1>1, Invariance, PTL

\* In production the read-only setting that db_run_script makes never stays on a client
\* that is back in the pool (handlers.ts:514, 529-537), for any number of requests,
\* clients and switches, and also beside SQL that sets sessions itself.
THEOREM CleanClients == Spec => []ClientsComeBackClean
<1>1. IInv => ClientsComeBackClean
  BY DEF IInv, Protection, ClientsComeBackClean, Free
<1> QED
  BY <1>1, Invariance, PTL

\* In production a script let in while the server is read-only that leaves the setting
\* alone changes nothing after a COMMIT of its own: SET SESSION (handlers.ts:514) has
\* taken hold by then, whatever other SQL has left on its client.
THEOREM OwnCommitProtected == Spec => []NoChangeAfterOwnCommit
<1>1. IInv => NoChangeAfterOwnCommit
  BY DEF IInv, Progress, Protection, NoChangeAfterOwnCommit
<1> QED
  BY <1>1, Invariance, PTL

\* Whoever changes the database and learns of its commit drops the cached structure
\* (invalidateSchemaCache after each write), with any number of loads under way.
THEOREM CacheFollows == Spec => []CacheFollowsWrites
<1>1. IInv => CacheFollowsWrites
  BY DEF IInv
<1> QED
  BY <1>1, Invariance, PTL
=============================================================================
