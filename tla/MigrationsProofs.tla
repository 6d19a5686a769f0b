-------------------------- MODULE MigrationsProofs --------------------------
(***************************************************************************)
(* Proofs about Migrations, for any files, versions and number of runs:    *)
(* the type invariant, what the row locks ensure, and that the ledger and  *)
(* the database structure agree when no two files share a version.         *)
(***************************************************************************)
EXTENDS Migrations, TLAPS

\* A run that has planned knows what it is about: the open transaction's file is the next
\* one of its list, a run that applies the pending files has every file of a version not
\* in effect still before it, and what a run has committed is in effect.
PlanShape ==
    \A r \in Runs :
        /\ phase[r] \in Open => file[r] \in Files /\ IsNext(r, file[r])
        /\ phase[r] \in Open \cup {"planned", "next"} /\ kind[r] = "pending" =>
             \A f \in Files : ~InEffect(Version[f]) => f \in todo[r]
        /\ Committed(r) => effects[file[r]] # 0

\* A row has the name of a file of its version that is in effect.
RowShape ==
    \A v \in Versions : ledger[v] # None => Version[ledger[v]] = v /\ effects[ledger[v]] # 0

\* Who holds a version's row: a run that has deleted it, has inserted it, or has failed
\* after that, and has not come to a COMMIT of its file; and a run about to commit does
\* hold the row.
LockShape ==
    /\ \A v \in Versions, r \in Runs : rowLock[v] = r =>
         /\ phase[r] \in {"recreating", "inserting", "committing", "rollback"}
         /\ phase[r] \in {"recreating", "inserting"} => kind[r] = "rerun"
         /\ Own(r) => phase[r] \in {"recreating", "rollback"}
         /\ Row(r) = v
    /\ \A r \in Runs : phase[r] = "committing" /\ ~Own(r) => rowLock[Row(r)] = r

\* A run that only inserts has found the row missing, and nobody has inserted it since.
InsertsOnce ==
    \A r \in Runs :
        phase[r] = "committing" /\ kind[r] # "rerun" /\ ~Own(r) => ~Applied(file[r])

\* Only a re-run deletes a row.
RerunShape ==
    \A r \in Runs : phase[r] \in {"deleting", "waiting", "recreating"} => kind[r] = "rerun"

IInv ==
    /\ TypeOK /\ PlanShape /\ RowShape /\ RerunShape /\ LockShape /\ InsertsOnce
    /\ CacheFollowsCommits

\* The initial states satisfy the invariant: no run has started.
LEMMA InitInv == Init => IInv
<1> SUFFICES ASSUME Init PROVE IInv
  OBVIOUS
<1>1. TypeOK
  <2>1. ledger \in [Versions -> Files \cup {None}] /\ rowLock \in [Versions -> Runs \cup {None}]
    BY DEF Init
  <2>2. effects \in [Files -> Times]
    BY DEF Init, Times
  <2>3. phase \in [Runs -> Phase] /\ kind \in [Runs -> Kind]
    BY DEF Init, Phase, Kind
  <2>4. force \in [Runs -> BOOLEAN] /\ readonly \in BOOLEAN
    BY DEF Init
  <2>5. todo \in [Runs -> SUBSET Files] /\ file \in [Runs -> Files \cup {None}]
    BY DEF Init
  <2>6. CacheTypeOK /\ cut \subseteq Files
    BY DEF Init, CacheInit, CacheTypeOK, Cached, Loaded
  <2> QED
    BY <2>1, <2>2, <2>3, <2>4, <2>5, <2>6 DEF TypeOK
<1>2. PlanShape /\ RowShape /\ RerunShape /\ InsertsOnce
  BY DEF Init, PlanShape, RowShape, RerunShape, InsertsOnce, Open, Committed
<1>3. LockShape
  BY NoneAssumption DEF Init, LockShape
<1>4. CacheFollowsCommits
  BY DEF Init, CacheInit, CacheFollowsCommits
<1> QED
  BY <1>1, <1>2, <1>3, <1>4 DEF IInv

\* A file's version is one of the versions.
LEMMA VersionsOfFiles == \A f \in Files : Version[f] \in Versions /\ Version[f] \in Nat
  BY VersionAssumption DEF Versions

\* Every step keeps the types.
LEMMA NextTypeOK == TypeOK /\ PlanShape /\ [Next]_vars => TypeOK'
<1> SUFFICES ASSUME TypeOK, PlanShape, [Next]_vars PROVE TypeOK'
  OBVIOUS
<1> USE VersionsOfFiles DEF TypeOK, CacheTypeOK, GoTo, ledgerVars, runVars, cacheVars
<1>1. CASE UNCHANGED vars
  BY <1>1 DEF vars
<1>2. ASSUME NEW r \in Runs, StartRun(r) PROVE TypeOK'
  BY <1>2 DEF StartRun, Phase, Open, Kind
<1>3. ASSUME NEW r \in Runs, Plan(r) PROVE TypeOK'
  BY <1>3 DEF Plan, Phase, Open
<1>4. ASSUME NEW r \in Runs, Refuse(r) \/ GiveUp(r) PROVE TypeOK'
  BY <1>4 DEF Refuse, GiveUp, Leave, Phase, Open, Kind
<1>5. ASSUME NEW r \in Runs,
             Snapshot(r) \/ Alter(r) \/ DeleteWaits(r) \/ Recreate(r) \/ CommitNothing(r)
      PROVE TypeOK'
  BY <1>5 DEF Snapshot, Alter, DeleteWaits, Recreate, CommitNothing, Phase, Open
<1>6. ASSUME NEW r \in Runs, Begin(r) PROVE TypeOK'
  BY <1>6 DEF Begin, Phase, Open
<1>7. ASSUME NEW r \in Runs, Delete(r) \/ Insert(r) PROVE TypeOK'
  BY <1>7 DEF Delete, Insert, Phase, Open
<1>8. ASSUME NEW r \in Runs, Commit(r) \/ AlterAndCommit(r) \/ RecreateAndCommit(r)
      PROVE TypeOK'
  <2>1. file[r] \in Files
    BY <1>8 DEF Commit, AlterAndCommit, RecreateAndCommit, PlanShape, Open
  <2>2. ledger' \in [Versions -> Files \cup {None}]
    BY <1>8, <2>1 DEF Commit, AlterAndCommit, RecreateAndCommit, Row
  <2>3. effects' \in [Files -> Times]
    BY <1>8, <2>1 DEF Commit, AlterAndCommit, RecreateAndCommit, EffectsAfter, Times
  <2>4. rowLock' \in [Versions -> Runs \cup {None}]
    BY <1>8 DEF Commit, AlterAndCommit, RecreateAndCommit, ReleaseRow
  <2>5. phase' \in [Runs -> Phase]
    BY <1>8 DEF Commit, AlterAndCommit, RecreateAndCommit, ReleaseRow, Phase, Open
  <2>6. cache' \in Cached /\ load' \in [Readers -> Loaded]
    BY <1>8 DEF Commit, AlterAndCommit, RecreateAndCommit, StructureChanges, Cached, Loaded
  <2> QED
    BY <1>8, <2>2, <2>3, <2>4, <2>5, <2>6 DEF Commit, AlterAndCommit, RecreateAndCommit
<1>15. ASSUME NEW r \in Runs, InsertAtOnce(r) PROVE TypeOK'
  <2>1. file[r] \in Files
    BY <1>15 DEF InsertAtOnce, PlanShape, Open
  <2> QED
    BY <1>15, <2>1 DEF InsertAtOnce, Row, Phase, Open
<1>16. ASSUME NEW r \in Runs, InsertConflict(r) \/ StatementFails(r) PROVE TypeOK'
  <2>1. file[r] \in Files
    BY <1>16 DEF InsertConflict, StatementFails, PlanShape, Open
  <2>2. cut' \subseteq Files /\ cache' \in Cached /\ load' = load
    BY <1>16, <2>1 DEF InsertConflict, StatementFails, LeaveBehind, ChangeUnnoticed, Cached
  <2> QED
    BY <1>16, <2>2 DEF InsertConflict, StatementFails, Phase, Open
<1>9. ASSUME NEW r \in Runs, Answered(r) PROVE TypeOK'
  BY <1>9 DEF Answered, Invalidate, Leave, Phase, Open, Kind, Cached
<1>10. ASSUME NEW r \in Runs, AnswerLost(r) PROVE TypeOK'
  BY <1>10 DEF AnswerLost, ChangeUnnoticed, Phase, Open, Cached
<1>11. ASSUME NEW r \in Runs, RollBack(r) PROVE TypeOK'
  BY <1>11 DEF RollBack, Leave, Phase, Open, Kind
<1>12. CASE Reading /\ UNCHANGED <<ledgerVars, runVars, readonly>>
  BY <1>12 DEF Reading, StartLoad, FinishLoad, FailLoad, Cached, Loaded
<1>13. CASE SwitchReadonly
  BY <1>13 DEF SwitchReadonly
<1>14. CASE Crash
  <2>1. cut' \subseteq Files
    BY <1>14 DEF Crash, PlanShape, Open
  <2> QED
    BY <1>14, <2>1 DEF Crash, CacheLost, Phase, Kind, Cached, Loaded
<1> QED
  BY <1>1, <1>2, <1>3, <1>4, <1>5, <1>6, <1>7, <1>8, <1>9, <1>10, <1>11, <1>12, <1>13, <1>14,
     <1>15, <1>16
     DEF Next, Step, Mishap

\* What is in effect stays in effect in every step.
LEMMA EffectsStay ==
  TypeOK /\ [Next]_vars => \A f \in Files : effects[f] # 0 => effects'[f] # 0
<1> SUFFICES ASSUME TypeOK, [Next]_vars, NEW f \in Files, effects[f] # 0
             PROVE  effects'[f] # 0
  OBVIOUS
<1>1. CASE UNCHANGED effects
  BY <1>1
<1>2. ASSUME NEW r \in Runs, Commit(r) \/ AlterAndCommit(r) \/ RecreateAndCommit(r)
      PROVE  effects'[f] # 0
  BY <1>2 DEF Commit, AlterAndCommit, RecreateAndCommit, EffectsAfter, TypeOK
<1> QED
  BY <1>1, <1>2 DEF Next, Step, Mishap, StartRun, Plan, Refuse, Snapshot, Begin, GiveUp, Alter,
     Delete, DeleteWaits, Recreate, Insert, InsertAtOnce, InsertConflict, StatementFails,
     CommitNothing, Answered, AnswerLost, RollBack, SwitchReadonly, Crash, vars, ledgerVars

\* A step that commits a file has it in effect afterwards.
LEMMA CommitHasEffect ==
  ASSUME TypeOK, PlanShape, NEW r \in Runs,
         Commit(r) \/ AlterAndCommit(r) \/ RecreateAndCommit(r)
  PROVE  file[r] \in Files /\ file'[r] = file[r] /\ effects'[file[r]] # 0
<1>1. file[r] \in Files /\ UNCHANGED file
  BY DEF Commit, AlterAndCommit, RecreateAndCommit, PlanShape, Open
<1>2. effects' = [effects EXCEPT ![file[r]] = EffectsAfter(r)]
  BY DEF Commit, AlterAndCommit, RecreateAndCommit
<1> QED
  BY <1>1, <1>2 DEF EffectsAfter, TypeOK

\* A row is written only by a run whose file has the row's version and is in effect.
LEMMA NextRowShape ==
  TypeOK /\ PlanShape /\ RowShape /\ [Next]_vars => RowShape'
<1> SUFFICES ASSUME TypeOK, PlanShape, RowShape, [Next]_vars,
                    NEW v \in Versions, ledger'[v] # None
             PROVE  Version[ledger'[v]] = v /\ effects'[ledger'[v]] # 0
  BY DEF RowShape
<1>1. CASE ledger'[v] = ledger[v]
  <2>1. ledger[v] \in Files /\ Version[ledger[v]] = v /\ effects[ledger[v]] # 0
    BY <1>1 DEF RowShape, TypeOK
  <2> QED
    BY <1>1, <2>1, EffectsStay
<1>2. CASE UNCHANGED ledger
  BY <1>1, <1>2
<1>3. ASSUME NEW r \in Runs, Commit(r) PROVE Version[ledger'[v]] = v /\ effects'[ledger'[v]] # 0
  <2>1. file[r] \in Files /\ effects'[file[r]] # 0
    BY <1>3, CommitHasEffect
  <2>2. ledger'[v] = ledger[v] \/ (v = Row(r) /\ ledger'[v] = file[r])
    BY <1>3 DEF Commit, TypeOK
  <2> QED
    BY <1>1, <2>1, <2>2 DEF Row
<1>4. ASSUME NEW r \in Runs, RecreateAndCommit(r)
      PROVE  Version[ledger'[v]] = v /\ effects'[ledger'[v]] # 0
  BY <1>1, <1>4 DEF RecreateAndCommit
<1>5. ASSUME NEW r \in Runs, InsertAtOnce(r)
      PROVE  Version[ledger'[v]] = v /\ effects'[ledger'[v]] # 0
  <2>1. file[r] \in Files /\ effects[file[r]] # 0 /\ UNCHANGED effects
    BY <1>5 DEF InsertAtOnce, PlanShape, Open, Committed
  <2>2. ledger'[v] = ledger[v] \/ (v = Row(r) /\ ledger'[v] = file[r])
    BY <1>5 DEF InsertAtOnce, TypeOK
  <2> QED
    BY <1>1, <2>1, <2>2 DEF Row
<1> QED
  BY <1>2, <1>3, <1>4, <1>5 DEF Next, Step, Mishap, StartRun, Plan, Refuse, Snapshot, Begin,
     GiveUp, Alter, AlterAndCommit, Delete, DeleteWaits, Recreate, Insert, InsertConflict,
     StatementFails, CommitNothing, Answered, AnswerLost, RollBack, SwitchReadonly, Crash, vars,
     ledgerVars

\* A row goes only in the COMMIT of a re-run file.
LEMMA RecordsGo ==
  TypeOK /\ PlanShape /\ RerunShape /\ LockShape /\ [Next]_vars =>
    \A v \in Versions :
      ledger[v] # None /\ ledger'[v] = None =>
        \E r \in Runs : /\ Own(r) /\ kind[r] = "rerun" /\ Row(r) = v
                       /\ phase[r] = "recreating" /\ phase'[r] = "inserting"
<1> SUFFICES ASSUME TypeOK, PlanShape, RerunShape, LockShape, [Next]_vars,
                    NEW v \in Versions, ledger[v] # None, ledger'[v] = None
             PROVE  \E r \in Runs : /\ Own(r) /\ kind[r] = "rerun" /\ Row(r) = v
                                   /\ phase[r] = "recreating" /\ phase'[r] = "inserting"
  OBVIOUS
<1>1. CASE UNCHANGED ledger
  BY <1>1
<1>2. ASSUME NEW r \in Runs, Commit(r) \/ InsertAtOnce(r) PROVE FALSE
  <2>1. file[r] \in Files /\ file[r] # None
    BY <1>2, NoneAssumption DEF Commit, InsertAtOnce, PlanShape, Open
  <2> QED
    BY <1>2, <2>1 DEF Commit, InsertAtOnce, TypeOK
<1>3. ASSUME NEW r \in Runs, RecreateAndCommit(r)
      PROVE  /\ Own(r) /\ kind[r] = "rerun" /\ Row(r) = v
             /\ phase[r] = "recreating" /\ phase'[r] = "inserting"
  <2>1. rowLock[v] = r
    BY <1>3 DEF RecreateAndCommit
  <2>2. Row(r) = v /\ phase[r] = "recreating" /\ Own(r) /\ kind[r] = "rerun"
    BY <1>3, <2>1 DEF RecreateAndCommit, LockShape, RerunShape
  <2>3. phase'[r] = "inserting"
    BY <1>3 DEF RecreateAndCommit, ReleaseRow, TypeOK
  <2> QED
    BY <2>2, <2>3
<1> QED
  BY <1>1, <1>2, <1>3 DEF Next, Step, Mishap, StartRun, Plan, Refuse, Snapshot, Begin, GiveUp,
     Alter, AlterAndCommit, Delete, DeleteWaits, Recreate, Insert, InsertConflict,
     StatementFails, CommitNothing, Answered, AnswerLost, RollBack, SwitchReadonly, Crash, vars,
     ledgerVars

\* A run that is not the one stepping keeps its plan, as effects stay; a waiting DELETE
\* that is let go keeps it too.
LEMMA NextPlanShape == TypeOK /\ PlanShape /\ RowShape /\ [Next]_vars => PlanShape'
<1> DEFINE Shape(x) ==
             /\ phase[x] \in Open => file[x] \in Files /\ IsNext(x, file[x])
             /\ phase[x] \in Open \cup {"planned", "next"} /\ kind[x] = "pending" =>
                  \A f \in Files : ~InEffect(Version[f]) => f \in todo[x]
             /\ Committed(x) => effects[file[x]] # 0
<1> SUFFICES ASSUME TypeOK, PlanShape, RowShape, [Next]_vars, NEW q \in Runs
             PROVE  Shape(q)'
  BY DEF PlanShape
<1>0. Shape(q)
  BY DEF PlanShape
<1> HIDE DEF Shape
<1>1. \A f \in Files : effects[f] # 0 => effects'[f] # 0
  BY EffectsStay
<1>2. \A f \in Files : InEffect(Version[f]) => InEffect(Version[f])'
  BY <1>1 DEF InEffect
<1>a. todo[q] \subseteq Files
  BY DEF TypeOK
<1>3. ASSUME kind'[q] = kind[q], todo'[q] = todo[q], file'[q] = file[q],
             \/ phase'[q] = phase[q]
             \/ phase[q] \in Open /\ phase'[q] \in Open /\ ~Committed(q)'
             \/ phase[q] \in Open /\ phase'[q] \in Open /\ Committed(q)
             \/ phase[q] \in {"planned", "next"} /\ phase'[q] \in {"planned", "next"}
      PROVE  Shape(q)'
  <2>2. IsNext(q, file[q]) => IsNext(q, file[q])'
    BY <1>3 DEF IsNext
  <2>3. /\ phase'[q] \in Open => phase[q] \in Open
        /\ phase'[q] \in Open \cup {"planned", "next"} =>
             phase[q] \in Open \cup {"planned", "next"}
        /\ Committed(q)' => Committed(q) /\ phase[q] \in Open
    BY <1>3 DEF Open, Committed, Own
  <2>4. phase'[q] \in Open => file'[q] \in Files /\ IsNext(q, file[q])'
    BY <1>0, <1>3, <2>2, <2>3 DEF Shape
  <2>5. phase'[q] \in Open \cup {"planned", "next"} /\ kind'[q] = "pending" =>
          \A f \in Files : ~InEffect(Version[f])' => f \in todo'[q]
    BY <1>0, <1>2, <1>3, <2>3 DEF Shape
  <2>6. Committed(q)' => effects'[file'[q]] # 0
    BY <1>0, <1>1, <1>3, <2>3 DEF Shape
  <2> QED
    BY <2>4, <2>5, <2>6 DEF Shape
<1>4. ASSUME phase'[q] \in {"idle", "reading"} PROVE Shape(q)'
  BY <1>4 DEF Shape, Open, Committed
<1>5. CASE UNCHANGED vars
  BY <1>3, <1>5 DEF vars, runVars
<1>6. ASSUME NEW r \in Runs, StartRun(r) \/ Refuse(r) \/ GiveUp(r) \/ RollBack(r)
      PROVE  Shape(q)'
  BY <1>3, <1>4, <1>6 DEF StartRun, Refuse, GiveUp, RollBack, Leave, GoTo, TypeOK
<1>7. ASSUME NEW r \in Runs, Plan(r) PROVE Shape(q)'
  <2>1. CASE q # r
    BY <1>3, <1>7, <2>1 DEF Plan, GoTo, TypeOK
  <2>2. CASE q = r
    <3>1. phase'[q] = "planned" /\ kind'[q] = kind[q] /\ UNCHANGED <<ledger, effects>>
      BY <1>7, <2>2 DEF Plan, GoTo, TypeOK, ledgerVars
    <3>2. ASSUME kind[q] = "pending", NEW f \in Files, ~InEffect(Version[f])
          PROVE  f \in todo'[q]
      <4>1. todo'[q] = {g \in Files : ~Applied(g)}
        BY <1>7, <2>2, <3>2 DEF Plan, TypeOK
      <4>2. ASSUME Applied(f) PROVE FALSE
        <5>1. ledger[Version[f]] \in Files /\ Version[ledger[Version[f]]] = Version[f]
              /\ effects[ledger[Version[f]]] # 0
          BY <4>2, VersionsOfFiles DEF Applied, RowShape, TypeOK
        <5> QED
          BY <3>2, <5>1 DEF InEffect
      <4> QED
        BY <4>1, <4>2
    <3>3. \A f \in Files : InEffect(Version[f])' <=> InEffect(Version[f])
      BY <3>1 DEF InEffect
    <3> QED
      BY <3>1, <3>2, <3>3 DEF Shape, Open, Committed
  <2> QED
    BY <2>1, <2>2
<1>8. ASSUME NEW r \in Runs,
             Snapshot(r) \/ Alter(r) \/ DeleteWaits(r) \/ Recreate(r) \/ Delete(r) \/ Insert(r)
      PROVE  Shape(q)'
  BY <1>3, <1>8 DEF Snapshot, Alter, DeleteWaits, Recreate, Delete, Insert, GoTo, TypeOK, Open,
     Committed, Own
<1>9. ASSUME NEW r \in Runs, InsertConflict(r) \/ StatementFails(r) \/ AnswerLost(r)
      PROVE  Shape(q)'
  BY <1>3, <1>9 DEF InsertConflict, StatementFails, AnswerLost, GoTo, TypeOK, Open, Committed
<1>10. ASSUME NEW r \in Runs, InsertAtOnce(r) \/ CommitNothing(r) PROVE Shape(q)'
  BY <1>3, <1>10 DEF InsertAtOnce, CommitNothing, GoTo, TypeOK, Open, Committed
<1>11. ASSUME NEW r \in Runs, Begin(r) PROVE Shape(q)'
  <2>1. CASE q # r
    BY <1>3, <1>11, <2>1 DEF Begin, GoTo, TypeOK
  <2>2. CASE q = r
    <3>1. /\ phase[q] = "next" /\ phase'[q] = "altering"
          /\ UNCHANGED <<ledger, effects, kind, todo>>
      BY <1>11, <2>2 DEF Begin, GoTo, TypeOK, ledgerVars
    <3>2. PICK f \in Files : IsNext(q, f) /\ file'[q] = f
      BY <1>11, <2>2 DEF Begin, TypeOK
    <3>3. IsNext(q, file[q])'
      BY <3>1, <3>2 DEF IsNext
    <3>4. ~Committed(q)'
      BY <3>1 DEF Committed
    <3> QED
      BY <1>0, <1>2, <3>1, <3>2, <3>3, <3>4 DEF Shape, Open
  <2> QED
    BY <2>1, <2>2
<1>12. ASSUME NEW r \in Runs, Commit(r) \/ AlterAndCommit(r) \/ RecreateAndCommit(r)
       PROVE  Shape(q)'
  <2>0. UNCHANGED <<kind, todo, file>>
    BY <1>12 DEF Commit, AlterAndCommit, RecreateAndCommit
  <2>1. CASE q # r
    <3>1. phase'[q] = phase[q] \/ (phase[q] = "waiting" /\ phase'[q] = "recreating")
      BY <1>12, <2>1 DEF Commit, AlterAndCommit, RecreateAndCommit, ReleaseRow, GoTo, TypeOK
    <3>2. phase'[q] = "recreating" => ~Committed(q)'
      BY DEF Committed
    <3> QED
      BY <1>3, <2>0, <3>1, <3>2 DEF Open
  <2>2. CASE q = r
    <3>1. phase[q] \in Open /\ phase'[q] \in Open
      BY <1>12, <2>2 DEF Commit, AlterAndCommit, RecreateAndCommit, ReleaseRow, GoTo, TypeOK, Open
    <3>2. file[q] \in Files /\ IsNext(q, file[q])
      BY <1>0, <3>1 DEF Shape
    <3>3. effects'[file'[q]] # 0
      BY <1>12, <2>0, <2>2, CommitHasEffect
    <3>4. IsNext(q, file[q])'
      BY <2>0, <3>2 DEF IsNext
    <3> QED
      BY <1>0, <1>2, <2>0, <3>1, <3>2, <3>3, <3>4 DEF Shape
  <2> QED
    BY <2>1, <2>2
<1>13. ASSUME NEW r \in Runs, Answered(r) PROVE Shape(q)'
  <2>1. CASE q # r
    BY <1>3, <1>13, <2>1 DEF Answered, Leave, GoTo, TypeOK
  <2>2. CASE q = r /\ phase'[q] = "next"
    <3>1. phase[q] = "committed" /\ UNCHANGED effects /\ kind'[q] = kind[q]
      BY <1>13, <2>2 DEF Answered, Leave, ledgerVars, TypeOK
    <3>2. todo'[q] = todo[q] \ {file[q]}
      BY <1>13, <2>2 DEF Answered, Leave, TypeOK
    <3>3. file[q] \in Files /\ effects[file[q]] # 0
      BY <1>0, <3>1 DEF Shape, Open, Committed
    <3>4. InEffect(Version[file[q]])
      BY <3>3 DEF InEffect
    <3>5. ~Committed(q)'
      BY <2>2 DEF Committed
    <3>6. ASSUME kind'[q] = "pending", NEW f \in Files, ~InEffect(Version[f])'
          PROVE  f \in todo'[q]
      BY <1>0, <1>2, <3>1, <3>2, <3>4, <3>6 DEF Shape, Open
    <3> QED
      BY <2>2, <3>5, <3>6 DEF Shape, Open
  <2>3. CASE q = r /\ phase'[q] # "next"
    BY <1>4, <1>13, <2>3 DEF Answered, Leave, GoTo, TypeOK
  <2> QED
    BY <2>1, <2>2, <2>3
<1>14. CASE Reading /\ UNCHANGED <<ledgerVars, runVars, readonly>>
  BY <1>3, <1>14 DEF runVars
<1>15. CASE SwitchReadonly
  BY <1>3, <1>15 DEF SwitchReadonly, runVars
<1>16. CASE Crash
  BY <1>4, <1>16 DEF Crash
<1> QED
  BY <1>5, <1>6, <1>7, <1>8, <1>9, <1>10, <1>11, <1>12, <1>13, <1>14, <1>15, <1>16
     DEF Next, Step, Mishap

\* A run keeps its kind until it ends, and only a re-run comes to the DELETE.
LEMMA NextRerunShape == TypeOK /\ RerunShape /\ [Next]_vars => RerunShape'
<1> SUFFICES ASSUME TypeOK, RerunShape, [Next]_vars,
                    NEW q \in Runs, phase'[q] \in {"deleting", "waiting", "recreating"}
             PROVE  kind'[q] = "rerun"
  BY DEF RerunShape
<1> USE DEF TypeOK, RerunShape
<1>1. CASE UNCHANGED vars
  BY <1>1 DEF vars, runVars
<1>2. ASSUME NEW r \in Runs,
             \/ StartRun(r) \/ Plan(r) \/ Refuse(r) \/ Snapshot(r) \/ Begin(r) \/ GiveUp(r)
             \/ Answered(r) \/ AnswerLost(r) \/ RollBack(r)
      PROVE  kind'[q] = "rerun"
  BY <1>2 DEF StartRun, Plan, Refuse, Snapshot, Begin, GiveUp, Answered, AnswerLost, RollBack,
     Leave, GoTo
<1>3. ASSUME NEW r \in Runs,
             \/ Alter(r) \/ Delete(r) \/ DeleteWaits(r) \/ Recreate(r) \/ Insert(r)
             \/ InsertConflict(r) \/ StatementFails(r) \/ AlterAndCommit(r) \/ InsertAtOnce(r)
             \/ CommitNothing(r)
      PROVE  kind'[q] = "rerun"
  BY <1>3 DEF Alter, Delete, DeleteWaits, Recreate, Insert, InsertConflict, StatementFails,
     AlterAndCommit, InsertAtOnce, CommitNothing, GoTo
<1>4. ASSUME NEW r \in Runs, Commit(r) \/ RecreateAndCommit(r) PROVE kind'[q] = "rerun"
  BY <1>4 DEF Commit, RecreateAndCommit, ReleaseRow
<1>5. CASE \/ Reading /\ UNCHANGED <<ledgerVars, runVars, readonly>>
           \/ SwitchReadonly
           \/ Crash
  BY <1>5 DEF SwitchReadonly, Crash, runVars
<1> QED
  BY <1>1, <1>2, <1>3, <1>4, <1>5 DEF Next, Step, Mishap

\* Row locks change hands only as PostgreSQL hands them on.
LEMMA NextLockShape ==
  TypeOK /\ PlanShape /\ RerunShape /\ LockShape /\ [Next]_vars => LockShape'
<1> SUFFICES ASSUME TypeOK, PlanShape, RerunShape, LockShape, [Next]_vars PROVE LockShape'
  OBVIOUS
<1> DEFINE Holds(q) ==
             /\ \A v \in Versions : rowLock[v] = q =>
                  /\ phase[q] \in {"recreating", "inserting", "committing", "rollback"}
                  /\ phase[q] \in {"recreating", "inserting"} => kind[q] = "rerun"
                  /\ Own(q) => phase[q] \in {"recreating", "rollback"}
                  /\ Row(q) = v
             /\ phase[q] = "committing" /\ ~Own(q) => rowLock[Row(q)] = q
<1> SUFFICES ASSUME NEW q \in Runs PROVE Holds(q)'
  BY DEF LockShape
<1>0. Holds(q)
  BY DEF LockShape
<1> HIDE DEF Holds
<1> USE DEF TypeOK
\* A run that gives a row up or never had one has nothing to show.
<1>1. ASSUME \A v \in Versions : rowLock'[v] # q,
             phase'[q] # "committing" \/ (Own(q) /\ file'[q] = file[q])
      PROVE  Holds(q)'
  BY <1>1 DEF Holds, Own
\* A run whose locks are untouched, and that moves on without leaving the lock's phases.
<1>2. ASSUME \A v \in Versions : rowLock'[v] = q <=> rowLock[v] = q,
             kind'[q] = kind[q], file'[q] = file[q],
             \/ phase'[q] = phase[q]
             \/ phase[q] = "recreating" /\ phase'[q] = "inserting" /\ ~Own(q)
             \/ phase'[q] = "rollback"
             \/ /\ phase[q] \notin {"recreating", "inserting", "committing", "rollback"}
                /\ phase'[q] # "committing"
             ,
             phase[q] \in Open => file[q] \in Files
      PROVE  Holds(q)'
  <2>1. Row(q)' = Row(q) /\ (Own(q)' <=> Own(q))
    BY <1>2 DEF Row, Own
  <2>2. phase[q] = "committing" => Row(q) \in Versions
    BY <1>2, VersionsOfFiles DEF Open, Row
  <2>3. ASSUME NEW v \in Versions, rowLock'[v] = q
        PROVE  /\ phase'[q] \in {"recreating", "inserting", "committing", "rollback"}
               /\ phase'[q] \in {"recreating", "inserting"} => kind'[q] = "rerun"
               /\ Own(q)' => phase'[q] \in {"recreating", "rollback"}
               /\ Row(q)' = v
    BY <1>0, <1>2, <2>1, <2>3 DEF Holds
  <2>4. ASSUME phase'[q] = "committing", ~Own(q)' PROVE rowLock'[Row(q)'] = q
    BY <1>0, <1>2, <2>1, <2>2, <2>4 DEF Holds
  <2> QED
    BY <2>3, <2>4 DEF Holds
<1>3. phase[q] \in Open => file[q] \in Files
  BY DEF PlanShape
\* Nobody holds a row without being in one of the phases that may.
<1>4. ASSUME phase[q] \notin {"recreating", "inserting", "committing", "rollback"}
      PROVE  \A v \in Versions : rowLock[v] # q
  BY <1>0, <1>4 DEF Holds
<1>5. CASE UNCHANGED vars
  BY <1>2, <1>3, <1>5 DEF vars, runVars, ledgerVars
<1>6. ASSUME NEW r \in Runs,
             \/ StartRun(r) \/ Plan(r) \/ Refuse(r) \/ Snapshot(r) \/ Begin(r)
             \/ GiveUp(r) \/ Answered(r)
      PROVE  Holds(q)'
  <2>1. CASE q = r
    BY <1>1, <1>4, <1>6, <2>1
       DEF StartRun, Plan, Refuse, Snapshot, Begin, GiveUp, Answered, Leave, GoTo, ledgerVars
  <2>2. CASE q # r
    BY <1>2, <1>3, <1>6, <2>2
       DEF StartRun, Plan, Refuse, Snapshot, Begin, GiveUp, Answered, Leave, GoTo, ledgerVars
  <2> QED
    BY <2>1, <2>2
<1>7. ASSUME NEW r \in Runs,
             \/ DeleteWaits(r) \/ Recreate(r) \/ InsertConflict(r) \/ StatementFails(r)
             \/ AnswerLost(r)
      PROVE  Holds(q)'
  BY <1>2, <1>3, <1>7
     DEF DeleteWaits, Recreate, InsertConflict, StatementFails, AnswerLost, GoTo, ledgerVars
<1>8. ASSUME NEW r \in Runs, Alter(r) \/ AlterAndCommit(r) PROVE Holds(q)'
  <2>1. CASE q = r
    BY <1>1, <1>4, <1>8, <2>1 DEF Alter, AlterAndCommit, GoTo, ledgerVars
  <2>2. CASE q # r
    BY <1>2, <1>3, <1>8, <2>2 DEF Alter, AlterAndCommit, GoTo, ledgerVars
  <2> QED
    BY <2>1, <2>2
<1>9. ASSUME NEW r \in Runs, InsertAtOnce(r) \/ CommitNothing(r) PROVE Holds(q)'
  <2>1. UNCHANGED <<rowLock, kind, file>>
    BY <1>9 DEF InsertAtOnce, CommitNothing, ledgerVars
  <2>2. CASE q = r
    <3>1. Own(q) /\ phase[q] \in {"inserting", "committing"}
      BY <1>9, <2>2 DEF InsertAtOnce, CommitNothing
    <3>2. \A v \in Versions : rowLock[v] # q
      BY <1>0, <3>1 DEF Holds
    <3> QED
      BY <1>1, <2>1, <3>1, <3>2
  <2>3. CASE q # r
    BY <1>2, <1>3, <1>9, <2>1, <2>3 DEF InsertAtOnce, CommitNothing, GoTo
  <2> QED
    BY <2>2, <2>3
<1>10. ASSUME NEW r \in Runs, Delete(r) \/ Insert(r) PROVE Holds(q)'
  <2>1. file[r] \in Files /\ Row(r) \in Versions /\ Row(r)' = Row(r) /\ (Own(r)' <=> Own(r))
    BY <1>10, VersionsOfFiles DEF Delete, Insert, PlanShape, Open, Row, Own
  <2>2. PICK s \in {r, None} : rowLock' = [rowLock EXCEPT ![Row(r)] = s]
    BY <1>10 DEF Delete, Insert
  <2>a. UNCHANGED <<kind, file>> /\ (Insert(r) => s = r)
    <3>1. Insert(r) => rowLock'[Row(r)] = r
      BY <2>1 DEF Insert
    <3> QED
      BY <1>10, <2>1, <2>2, <3>1 DEF Delete, Insert
  <2>3. CASE q = r
    <3>1. \A v \in Versions : rowLock'[v] = q => v = Row(q)
      BY <1>0, <2>1, <2>2, <2>3, NoneAssumption DEF Holds
    <3>2. Delete(r) => phase'[q] = "recreating" /\ kind[q] = "rerun"
      BY <2>3 DEF Delete, GoTo, RerunShape, LockShape
    <3>3. Insert(r) => phase'[q] = "committing" /\ ~Own(q) /\ rowLock'[Row(q)] = q
      BY <2>1, <2>3 DEF Insert, GoTo
    <3>4. Row(q)' = Row(q) /\ (Own(q)' <=> Own(q)) /\ kind'[q] = kind[q]
      BY <2>1, <2>3, <2>a
    <3>5. CASE Delete(r)
      BY <3>1, <3>2, <3>4, <3>5 DEF Holds
    <3>6. CASE Insert(r)
      BY <3>1, <3>3, <3>4, <3>6 DEF Holds
    <3> QED
      BY <1>10, <3>5, <3>6
  <2>4. CASE q # r
    <3>1. rowLock[Row(r)] # q
      BY <1>10, <2>4, NoneAssumption DEF Delete, Insert
    <3>2. \A v \in Versions : rowLock'[v] = q <=> rowLock[v] = q
      BY <2>1, <2>2, <2>4, <3>1, NoneAssumption
    <3>3. phase'[q] = phase[q]
      BY <1>10, <2>4 DEF Delete, Insert, GoTo
    <3> QED
      BY <1>2, <1>3, <2>a, <3>2, <3>3
  <2> QED
    BY <2>3, <2>4
<1>11. ASSUME NEW r \in Runs, Commit(r) \/ RecreateAndCommit(r) PROVE Holds(q)'
  <2>1. /\ rowLock' = [v \in Versions |-> IF rowLock[v] = r THEN None ELSE rowLock[v]]
        /\ UNCHANGED <<kind, file>>
    BY <1>11 DEF Commit, RecreateAndCommit, ReleaseRow
  <2>2. CASE q = r
    <3>1. \A v \in Versions : rowLock'[v] # q
      BY <2>1, <2>2, NoneAssumption
    <3>2. phase'[q] # "committing"
      BY <1>11, <2>2 DEF Commit, RecreateAndCommit, ReleaseRow
    <3> QED
      BY <1>1, <3>1, <3>2
  <2>3. CASE q # r
    <3>1. \A v \in Versions : rowLock'[v] = q <=> rowLock[v] = q
      BY <2>1, <2>3, NoneAssumption
    <3>2. phase'[q] = phase[q] \/ (phase[q] = "waiting" /\ phase'[q] = "recreating")
      BY <1>11, <2>3 DEF Commit, RecreateAndCommit, ReleaseRow
    <3> QED
      BY <1>2, <1>3, <2>1, <3>1, <3>2
  <2> QED
    BY <2>2, <2>3
<1>12. ASSUME NEW r \in Runs, RollBack(r) PROVE Holds(q)'
  <2>1. CASE q = r
    BY <1>1, <1>12, <2>1, NoneAssumption DEF RollBack, Leave
  <2>2. CASE q # r
    <3>1. \A v \in Versions : rowLock'[v] = q <=> rowLock[v] = q
      BY <1>12, <2>2, NoneAssumption DEF RollBack
    <3> QED
      BY <1>2, <1>3, <1>12, <2>2, <3>1 DEF RollBack, Leave
  <2> QED
    BY <2>1, <2>2
<1>13. CASE (Reading /\ UNCHANGED <<ledgerVars, runVars, readonly>>) \/ SwitchReadonly
  BY <1>2, <1>3, <1>13 DEF SwitchReadonly, ledgerVars, runVars
<1>14. CASE Crash
  BY <1>1, <1>14, NoneAssumption DEF Crash
<1> QED
  BY <1>5, <1>6, <1>7, <1>8, <1>9, <1>10, <1>11, <1>12, <1>13, <1>14 DEF Next, Step, Mishap

\* A row found missing by INSERT stays missing until its run commits: to record it,
\* another run would have to hold the lock that this run holds.
LEMMA NextInsertsOnce ==
  TypeOK /\ PlanShape /\ LockShape /\ InsertsOnce /\ [Next]_vars => InsertsOnce'
<1> SUFFICES ASSUME TypeOK, PlanShape, LockShape, InsertsOnce, [Next]_vars,
                    NEW q \in Runs, phase'[q] = "committing", kind'[q] # "rerun", ~Own(q)'
             PROVE  ~Applied(file[q])'
  BY DEF InsertsOnce
<1> USE DEF TypeOK, Applied, Own
\* A run that was committing already, in a step that changes no row.
<1>1. ASSUME phase[q] = "committing", kind'[q] = kind[q], file'[q] = file[q], UNCHANGED ledger
      PROVE  ~Applied(file[q])'
  BY <1>1 DEF InsertsOnce
<1>2. CASE UNCHANGED vars
  BY <1>1, <1>2 DEF vars, runVars, ledgerVars
<1>3. ASSUME NEW r \in Runs,
             \/ StartRun(r) \/ Plan(r) \/ Refuse(r) \/ Snapshot(r) \/ Begin(r) \/ GiveUp(r)
             \/ Answered(r) \/ AnswerLost(r) \/ RollBack(r)
      PROVE  ~Applied(file[q])'
  BY <1>1, <1>3 DEF StartRun, Plan, Refuse, Snapshot, Begin, GiveUp, Answered, AnswerLost,
     RollBack, Leave, GoTo, ledgerVars
<1>4. ASSUME NEW r \in Runs,
             \/ Alter(r) \/ AlterAndCommit(r) \/ Delete(r) \/ DeleteWaits(r) \/ Recreate(r)
             \/ InsertConflict(r) \/ StatementFails(r) \/ CommitNothing(r)
      PROVE  ~Applied(file[q])'
  BY <1>1, <1>4 DEF Alter, AlterAndCommit, Delete, DeleteWaits, Recreate, InsertConflict,
     StatementFails, CommitNothing, GoTo, ledgerVars
<1>5. ASSUME NEW r \in Runs, Insert(r) PROVE ~Applied(file[q])'
  <2>1. CASE q # r
    BY <1>1, <1>5, <2>1 DEF Insert, GoTo
  <2>2. CASE q = r
    <3>1. file[r] \in Files /\ Row(r) \in Versions
      BY <1>5, VersionsOfFiles DEF Insert, PlanShape, Open, Row
    <3>2. rowLock[Row(r)] # r
      BY <1>5, <2>2, <3>1 DEF Insert, LockShape
    <3> QED
      BY <1>5, <2>2, <3>2 DEF Insert
  <2> QED
    BY <2>1, <2>2
<1>6. ASSUME NEW r \in Runs, Commit(r) PROVE ~Applied(file[q])'
  <2>1. q # r /\ phase[q] = "committing" /\ UNCHANGED <<kind, file>>
    BY <1>6 DEF Commit, ReleaseRow
  <2>2. file[q] \in Files /\ Row(q) # Row(r)
    BY <1>6, <2>1 DEF Commit, LockShape, PlanShape, Open
  <2> QED
    BY <1>6, <2>1, <2>2, VersionsOfFiles DEF Commit, InsertsOnce, Row
<1>9. ASSUME NEW r \in Runs, RecreateAndCommit(r) PROVE ~Applied(file[q])'
  <2>1. phase[q] = "committing" /\ UNCHANGED <<kind, file>>
    BY <1>9 DEF RecreateAndCommit, ReleaseRow
  <2>2. file[q] \in Files /\ ~Applied(file[q])
    BY <2>1 DEF InsertsOnce, PlanShape, Open
  <2> QED
    BY <1>9, <2>1, <2>2, VersionsOfFiles DEF RecreateAndCommit
<1>10. ASSUME NEW r \in Runs, InsertAtOnce(r) PROVE ~Applied(file[q])'
  <2>1. q # r /\ phase[q] = "committing" /\ UNCHANGED <<kind, file>>
    BY <1>10 DEF InsertAtOnce, GoTo
  <2>2. file[q] \in Files /\ ~Applied(file[q]) /\ rowLock[Row(q)] = q
    BY <2>1 DEF InsertsOnce, PlanShape, LockShape, Open
  <2>3. Row(q) # Row(r)
    BY <1>10, <2>2, NoneAssumption DEF InsertAtOnce
  <2> QED
    BY <1>10, <2>1, <2>2, <2>3, VersionsOfFiles DEF InsertAtOnce, Row
<1>7. CASE (Reading /\ UNCHANGED <<ledgerVars, runVars, readonly>>) \/ SwitchReadonly
  BY <1>1, <1>7 DEF SwitchReadonly, ledgerVars, runVars
<1>8. CASE Crash
  BY <1>8 DEF Crash
<1> QED
  BY <1>2, <1>3, <1>4, <1>5, <1>6, <1>7, <1>8, <1>9, <1>10 DEF Next, Step, Mishap

\* Only a COMMIT makes the cache outdated, and the run's further steps clear or excuse it.
LEMMA NextCacheFollowsCommits ==
  TypeOK /\ CacheFollowsCommits /\ [Next]_vars => CacheFollowsCommits'
<1> SUFFICES ASSUME TypeOK, CacheFollowsCommits, [Next]_vars, cache' = "outdated"
             PROVE  \E q \in Runs : Committed(q)'
  BY DEF CacheFollowsCommits
<1> USE DEF TypeOK, Committed, Own
\* A run in that place that stays in it.
<1>0. ASSUME cache = "outdated",
             \A q \in Runs : Committed(q) => Committed(q)'
      PROVE  \E q \in Runs : Committed(q)'
  BY <1>0 DEF CacheFollowsCommits
<1>1. CASE UNCHANGED vars
  BY <1>0, <1>1 DEF vars, runVars, cacheVars
<1>2. ASSUME NEW r \in Runs,
             \/ StartRun(r) \/ Plan(r) \/ Refuse(r) \/ Snapshot(r) \/ Begin(r) \/ GiveUp(r)
             \/ RollBack(r)
      PROVE  \E q \in Runs : Committed(q)'
  BY <1>0, <1>2 DEF StartRun, Plan, Refuse, Snapshot, Begin, GiveUp, RollBack, Leave, GoTo,
     cacheVars
<1>3. ASSUME NEW r \in Runs,
             \/ Alter(r) \/ Delete(r) \/ DeleteWaits(r) \/ Recreate(r) \/ Insert(r)
             \/ InsertAtOnce(r) \/ CommitNothing(r)
      PROVE  \E q \in Runs : Committed(q)'
  BY <1>0, <1>3 DEF Alter, Delete, DeleteWaits, Recreate, Insert, InsertAtOnce, CommitNothing,
     GoTo, cacheVars
<1>4. ASSUME NEW r \in Runs, Commit(r) \/ AlterAndCommit(r) \/ RecreateAndCommit(r)
      PROVE  \E q \in Runs : Committed(q)'
  BY <1>4 DEF Commit, AlterAndCommit, RecreateAndCommit, ReleaseRow, GoTo
<1>5. ASSUME NEW r \in Runs, Answered(r) \/ AnswerLost(r) PROVE FALSE
  BY <1>5 DEF Answered, Invalidate, AnswerLost, ChangeUnnoticed
<1>6. ASSUME NEW r \in Runs, InsertConflict(r) \/ StatementFails(r)
      PROVE  \E q \in Runs : Committed(q)'
  <2>1. CASE Own(r) /\ phase[r] \in {"inserting", "committing"}
    BY <1>6, <2>1 DEF InsertConflict, StatementFails, LeaveBehind, ChangeUnnoticed
  <2>2. CASE ~(Own(r) /\ phase[r] \in {"inserting", "committing"})
    <3>1. UNCHANGED cache
      BY <1>6, <2>2 DEF InsertConflict, StatementFails, LeaveBehind, cacheVars
    <3>2. ~Committed(r)
      BY <1>6, <2>2 DEF InsertConflict, StatementFails
    <3>3. \A q \in Runs \ {r} : phase'[q] = phase[q] /\ file'[q] = file[q]
      BY <1>6 DEF InsertConflict, StatementFails, GoTo
    <3> QED
      BY <1>0, <3>1, <3>2, <3>3
  <2> QED
    BY <2>1, <2>2
<1>7. CASE Reading /\ UNCHANGED <<ledgerVars, runVars, readonly>>
  BY <1>0, <1>7 DEF Reading, StartLoad, FinishLoad, FailLoad, CacheTypeOK, Loaded, runVars
<1>8. CASE SwitchReadonly
  BY <1>0, <1>8 DEF SwitchReadonly, runVars, cacheVars
<1>9. CASE Crash
  BY <1>9 DEF Crash, CacheLost
<1> QED
  BY <1>1, <1>2, <1>3, <1>4, <1>5, <1>6, <1>7, <1>8, <1>9 DEF Next, Step, Mishap

\* The conjunction is inductive.
LEMMA NextInv == IInv /\ [Next]_vars => IInv'
  BY NextTypeOK, NextPlanShape, NextRowShape, NextRerunShape, NextLockShape, NextInsertsOnce,
     NextCacheFollowsCommits
     DEF IInv

\* The inductive invariant holds in every reachable state.
THEOREM Invariance == Spec => []IInv
  BY InitInv, NextInv, PTL DEF Spec

\* The runner's state always has its type.
THEOREM TypeCorrect == Spec => []TypeOK
<1>1. IInv => TypeOK
  BY DEF IInv
<1> QED
  BY <1>1, Invariance, PTL

\* However many runs race for a version in transactions of their own, one at most gets to
\* COMMIT its row, and a run that applies a file does so only while the file's version is
\* not recorded.
THEOREM RaceHasOneWinner == Spec => []OneWinner
<1>1. IInv => OneWinner
  <2> SUFFICES ASSUME IInv PROVE OneWinner
    OBVIOUS
  <2>1. ASSUME NEW r \in Runs, NEW q \in Runs,
               phase[r] = "committing", phase[q] = "committing", Row(r) = Row(q),
               ~Own(r), ~Own(q)
        PROVE  r = q
    BY <2>1 DEF IInv, LockShape
  <2> QED
    BY <2>1 DEF OneWinner, IInv, InsertsOnce
<1> QED
  BY <1>1, Invariance, PTL

\* The cached structure lags behind only inside a COMMIT, or for one of the two reasons
\* the cache's other states name.
THEOREM CacheFollows == Spec => []CacheFollowsCommits
<1>1. IInv => CacheFollowsCommits
  BY DEF IInv
<1> QED
  BY <1>1, Invariance, PTL

\* No step of any run, failure, lost answer or crash removes a row, but the COMMIT that a
\* file being re-run has of its own.
THEOREM RecordsKept == Spec => RecordsAreKept
<1> DEFINE A == \A v \in Versions :
                  ledger[v] # None /\ ledger'[v] = None =>
                      \E r \in Runs : /\ Own(r) /\ kind[r] = "rerun" /\ Row(r) = v
                                     /\ phase[r] = "recreating" /\ phase'[r] = "inserting"
<1>1. IInv /\ [Next]_vars => [A]_vars
  BY RecordsGo DEF IInv
<1> QED
  BY <1>1, Invariance, PTL DEF Spec, RecordsAreKept

\* Applying the pending files puts a file into effect only over every lower version.
THEOREM PendingOrder == Spec => PendingInOrder
<1> DEFINE A == \A r \in Runs :
                  TakesEffect(r) /\ kind[r] = "pending" =>
                      \A g \in Files : Version[g] < Row(r) => InEffect(Version[g])
<1>1. IInv => A
  <2> SUFFICES ASSUME IInv, NEW r \in Runs, TakesEffect(r), kind[r] = "pending",
                      NEW g \in Files, Version[g] < Row(r), ~InEffect(Version[g])
               PROVE  FALSE
    OBVIOUS
  <2>0. phase[r] \in Open
    BY DEF TakesEffect, Open
  <2>1. g \in todo[r] /\ file[r] \in Files /\ IsNext(r, file[r])
    BY <2>0 DEF IInv, PlanShape
  <2>2. Row(r) <= Version[g]
    BY <2>1 DEF IsNext, Row
  <2> QED
    BY <2>1, <2>2, VersionsOfFiles DEF Row
<1>2. IInv /\ [Next]_vars => [A]_vars
  BY <1>1
<1> QED
  BY <1>2, Invariance, PTL DEF Spec, PendingInOrder

-----------------------------------------------------------------------------

\* What a sane directory has: no two files share a version number.
UniqueVersions == \A f, g \in Files : Version[f] = Version[g] => f = g

\* With unique versions, a file's row has its own name, and the file is in effect.
LEMMA OwnRow ==
  ASSUME UniqueVersions, IInv, NEW f \in Files
  PROVE  ledger[Version[f]] \in {None, f} /\ (Applied(f) => effects[f] # 0)
<1> SUFFICES ASSUME Applied(f) PROVE ledger[Version[f]] = f /\ effects[f] # 0
  BY DEF Applied
<1>1. ledger[Version[f]] \in Files
  BY VersionsOfFiles DEF Applied, IInv, TypeOK
<1>2. Version[ledger[Version[f]]] = Version[f] /\ effects[ledger[Version[f]]] # 0
  BY VersionsOfFiles DEF Applied, IInv, RowShape
<1> QED
  BY <1>1, <1>2 DEF UniqueVersions

\* What a step does to the row and the effect of a file that is not the run's.
LEMMA OtherFile ==
  ASSUME UniqueVersions, IInv, NEW r \in Runs, NEW f \in Files, f # file[r],
         \/ Commit(r) \/ AlterAndCommit(r) \/ RecreateAndCommit(r) \/ InsertAtOnce(r)
  PROVE  effects'[f] = effects[f] /\ ledger'[Version[f]] = ledger[Version[f]]
<1>1. file[r] \in Files
  BY DEF Commit, AlterAndCommit, RecreateAndCommit, InsertAtOnce, IInv, PlanShape, Open
<1>2. Version[f] # Version[file[r]] /\ Version[f] \in Versions
  BY <1>1, VersionsOfFiles DEF UniqueVersions
<1>3. effects'[f] = effects[f]
  BY <1>1 DEF Commit, AlterAndCommit, RecreateAndCommit, InsertAtOnce, IInv, TypeOK
<1>4. rowLock[Version[f]] # r
  BY <1>2 DEF IInv, LockShape, Row
<1>5. ledger'[Version[f]] = ledger[Version[f]]
  BY <1>2, <1>4 DEF Commit, AlterAndCommit, RecreateAndCommit, InsertAtOnce, Row, IInv, TypeOK
<1> QED
  BY <1>3, <1>5

\* What such a step does to the effect of the run's file.
LEMMA OwnFile ==
  ASSUME IInv, NEW r \in Runs, Commit(r) \/ AlterAndCommit(r) \/ RecreateAndCommit(r)
  PROVE  /\ file[r] \in Files /\ file[r] # None
         /\ effects' = [effects EXCEPT ![file[r]] = EffectsAfter(r)]
         /\ EffectsAfter(r) \in {1, 2}
         /\ EffectsAfter(r) = 2 => effects[file[r]] # 0
         /\ effects'[file[r]] = EffectsAfter(r)
<1>1. file[r] \in Files /\ file[r] # None
  BY NoneAssumption DEF Commit, AlterAndCommit, RecreateAndCommit, IInv, PlanShape, Open
<1>2. effects' = [effects EXCEPT ![file[r]] = EffectsAfter(r)]
  BY DEF Commit, AlterAndCommit, RecreateAndCommit
<1>3. EffectsAfter(r) \in {1, 2} /\ (EffectsAfter(r) = 2 => effects[file[r]] # 0)
  BY DEF EffectsAfter
<1> QED
  BY <1>1, <1>2, <1>3 DEF IInv, TypeOK

\* With unique versions, what is in effect has its row after every step, unless it is ahead.
LEMMA NextAhead ==
  ASSUME UniqueVersions, IInv, LedgerMatchesSchema, [Next]_vars, NEW f \in Files,
         effects'[f] # 0
  PROVE  Applied(f)' \/ Ahead(f)'
<1> USE DEF IInv, TypeOK
\* The file keeps its row, its effect and, if it is ahead, the reason for it.
<1>1. ASSUME effects'[f] = effects[f], ledger'[Version[f]] = ledger[Version[f]],
             f \in cut => f \in cut',
             \A q \in Runs : Own(q) /\ ~Applied(f) /\ file[q] = f /\ phase[q] = "inserting" =>
                f \in cut' \/ (file'[q] = f /\ phase'[q] = "inserting")
      PROVE  Applied(f)' \/ Ahead(f)'
  <2>1. Applied(f) \/ Ahead(f)
    BY <1>1 DEF LedgerMatchesSchema
  <2>2. Applied(f) => Applied(f)'
    BY <1>1 DEF Applied
  <2>3. ~Applied(f) /\ Ahead(f) => Ahead(f)'
    BY <1>1 DEF Ahead, Own
  <2> QED
    BY <2>1, <2>2, <2>3
<1>2. CASE UNCHANGED vars
  BY <1>1, <1>2 DEF vars, runVars, ledgerVars
<1>3. ASSUME NEW r \in Runs,
             \/ StartRun(r) \/ Plan(r) \/ Refuse(r) \/ Snapshot(r) \/ Begin(r) \/ GiveUp(r)
             \/ Answered(r) \/ AnswerLost(r) \/ RollBack(r)
      PROVE  Applied(f)' \/ Ahead(f)'
  BY <1>1, <1>3 DEF StartRun, Plan, Refuse, Snapshot, Begin, GiveUp, Answered, AnswerLost,
     RollBack, Leave, GoTo, ledgerVars
<1>4. ASSUME NEW r \in Runs,
             \/ Alter(r) \/ Delete(r) \/ DeleteWaits(r) \/ Recreate(r) \/ Insert(r)
             \/ CommitNothing(r)
      PROVE  Applied(f)' \/ Ahead(f)'
  BY <1>1, <1>4 DEF Alter, Delete, DeleteWaits, Recreate, Insert, CommitNothing, GoTo, ledgerVars
<1>5. ASSUME NEW r \in Runs, StatementFails(r) PROVE Applied(f)' \/ Ahead(f)'
  <2>1. /\ UNCHANGED <<ledger, effects, file>> /\ cut \subseteq cut'
        /\ \A q \in Runs \ {r} : phase'[q] = phase[q]
    BY <1>5 DEF StatementFails, LeaveBehind, GoTo
  <2>2. Own(r) /\ phase[r] = "inserting" => file[r] \in cut'
    BY <1>5 DEF StatementFails, LeaveBehind
  <2> QED
    BY <1>1, <2>1, <2>2
<1>6. ASSUME NEW r \in Runs, InsertConflict(r) PROVE Applied(f)' \/ Ahead(f)'
  <2>1. /\ UNCHANGED <<ledger, effects, file>> /\ cut \subseteq cut'
        /\ \A q \in Runs \ {r} : phase'[q] = phase[q]
    BY <1>6 DEF InsertConflict, LeaveBehind, GoTo
  <2>2. Applied(file[r])
    BY <1>6 DEF InsertConflict
  <2> QED
    BY <1>1, <2>1, <2>2
<1>7. ASSUME NEW r \in Runs, Commit(r) PROVE Applied(f)' \/ Ahead(f)'
  <2>1. CASE f = file[r]
    <3>1. ledger' = [ledger EXCEPT ![Row(r)] = file[r]] /\ file[r] # None
      BY <1>7, OwnFile DEF Commit
    <3> QED
      BY <2>1, <3>1, VersionsOfFiles DEF Applied, Row
  <2>2. CASE f # file[r]
    BY <1>1, <1>7, <2>2, OtherFile DEF Commit, ReleaseRow
  <2> QED
    BY <2>1, <2>2
<1>8. ASSUME NEW r \in Runs, AlterAndCommit(r) \/ RecreateAndCommit(r)
      PROVE  Applied(f)' \/ Ahead(f)'
  <2>0. phase'[r] = "inserting" /\ Own(r) /\ UNCHANGED <<file, cut>>
    BY <1>8 DEF AlterAndCommit, RecreateAndCommit, ReleaseRow, GoTo
  <2>1. CASE f = file[r]
    BY <2>0, <2>1 DEF Ahead, Own
  <2>2. CASE f # file[r]
    <3>1. \A q \in Runs : file[q] = f /\ phase[q] = "inserting" => phase'[q] = "inserting"
      BY <1>8, <2>2 DEF AlterAndCommit, RecreateAndCommit, ReleaseRow, GoTo
    <3>2. effects'[f] = effects[f] /\ ledger'[Version[f]] = ledger[Version[f]]
      BY <1>8, <2>2, OtherFile
    <3> QED
      BY <1>1, <2>0, <3>1, <3>2
  <2> QED
    BY <2>1, <2>2
<1>9. ASSUME NEW r \in Runs, InsertAtOnce(r) PROVE Applied(f)' \/ Ahead(f)'
  <2>1. CASE f = file[r]
    <3>1. ledger' = [ledger EXCEPT ![Row(r)] = file[r]] /\ file[r] # None
      BY <1>9, <2>1, NoneAssumption DEF InsertAtOnce
    <3> QED
      BY <2>1, <3>1, VersionsOfFiles DEF Applied, Row
  <2>2. CASE f # file[r]
    <3>1. effects'[f] = effects[f] /\ ledger'[Version[f]] = ledger[Version[f]]
      BY <1>9, <2>2, OtherFile
    <3> QED
      BY <1>1, <1>9, <2>2, <3>1 DEF InsertAtOnce, GoTo
  <2> QED
    BY <2>1, <2>2
<1>10. CASE (Reading /\ UNCHANGED <<ledgerVars, runVars, readonly>>) \/ SwitchReadonly
  BY <1>1, <1>10 DEF SwitchReadonly, ledgerVars, runVars
<1>11. CASE Crash
  <2>1. /\ UNCHANGED <<ledger, effects>> /\ cut \subseteq cut'
        /\ \A q \in Runs : Own(q) /\ phase[q] = "inserting" => file[q] \in cut'
    BY <1>11 DEF Crash
  <2> QED
    BY <1>1, <2>1
<1> QED
  BY <1>2, <1>3, <1>4, <1>5, <1>6, <1>7, <1>8, <1>9, <1>10, <1>11 DEF Next, Step, Mishap

\* A file with down SQL whose transaction is the runner's is never in effect over itself.
LEMMA NextOnce ==
  ASSUME UniqueVersions, IInv, LedgerMatchesSchema, [Next]_vars,
         NEW f \in HasDown \ OwnCommit
  PROVE  effects'[f] <= 1
<1>0. f \in Files /\ effects[f] <= 1
  BY HasDownAssumption DEF LedgerMatchesSchema
<1>1. CASE UNCHANGED effects
  BY <1>0, <1>1
<1>2. ASSUME NEW r \in Runs, AlterAndCommit(r) \/ RecreateAndCommit(r) PROVE effects'[f] <= 1
  <2>1. f # file[r]
    BY <1>2 DEF AlterAndCommit, RecreateAndCommit, Own
  <2> QED
    BY <1>0, <1>2, <2>1, OtherFile
<1>3. ASSUME NEW r \in Runs, Commit(r) PROVE effects'[f] <= 1
  <2>1. CASE f # file[r]
    BY <1>0, <1>3, <2>1, OtherFile
  <2>2. CASE f = file[r]
    <3>1. effects'[f] = EffectsAfter(r)
      BY <1>3, <2>2, OwnFile
    <3>2. kind[r] # "rerun" => effects[f] = 0
      <4>1. kind[r] # "rerun" => ~Applied(f)
        BY <1>3, <2>2 DEF IInv, InsertsOnce, Commit
      <4>2. ~Ahead(f)
        BY DEF Ahead
      <4> QED
        BY <1>0, <4>1, <4>2 DEF LedgerMatchesSchema
    <3>3. EffectsAfter(r) = 1
      BY <2>2, <3>2 DEF EffectsAfter
    <3> QED
      BY <3>1, <3>3
  <2> QED
    BY <2>1, <2>2
<1> QED
  BY <1>1, <1>2, <1>3 DEF Next, Step, Mishap, StartRun, Plan, Refuse, Snapshot, Begin, GiveUp,
     Alter, Delete, DeleteWaits, Recreate, Insert, InsertAtOnce, InsertConflict, StatementFails,
     CommitNothing, Answered, AnswerLost, RollBack, SwitchReadonly, Crash, vars, ledgerVars

\* With unique versions, the agreement of ledger and database is kept by every step.
LEMMA NextLedger ==
  ASSUME UniqueVersions
  PROVE  IInv /\ LedgerMatchesSchema /\ [Next]_vars => LedgerMatchesSchema'
<1> SUFFICES ASSUME IInv, LedgerMatchesSchema, [Next]_vars, NEW f \in Files
             PROVE  /\ ledger'[Version[f]] \in {None, f}
                    /\ Applied(f)' => effects'[f] # 0
                    /\ effects'[f] # 0 => Applied(f)' \/ Ahead(f)'
                    /\ f \in HasDown \ OwnCommit => effects'[f] <= 1
  BY DEF LedgerMatchesSchema
<1>1. IInv'
  BY NextInv
<1>2. ledger'[Version[f]] \in {None, f} /\ (Applied(f)' => effects'[f] # 0)
  <2> SUFFICES ASSUME Applied(f)' PROVE ledger'[Version[f]] = f /\ effects'[f] # 0
    BY DEF Applied
  <2>1. ledger'[Version[f]] \in Files
    BY <1>1, VersionsOfFiles DEF Applied, IInv, TypeOK
  <2>2. Version[ledger'[Version[f]]] = Version[f] /\ effects'[ledger'[Version[f]]] # 0
    BY <1>1, VersionsOfFiles DEF Applied, IInv, RowShape
  <2> QED
    BY <2>1, <2>2 DEF UniqueVersions
<1> QED
  BY <1>2, NextAhead, NextOnce

\* When no two files share a version, schema_migrations and the database always agree,
\* whatever overlaps, fails, loses an answer or dies, and a file is ahead of its row only
\* between its own COMMIT and the INSERT, or once a run came to its end there.
THEOREM LedgerIsExact ==
  ASSUME UniqueVersions
  PROVE  Spec => []LedgerMatchesSchema
<1>1. Init => LedgerMatchesSchema
  BY VersionsOfFiles, HasDownAssumption DEF Init, LedgerMatchesSchema, Applied
<1>2. IInv /\ LedgerMatchesSchema /\ [Next]_vars => LedgerMatchesSchema'
  BY NextLedger
<1> QED
  BY <1>1, <1>2, Invariance, PTL DEF Spec

\* With unique versions, every step that changes a row or an effect is a step of the
\* abstract ledger.
LEMMA NextImplements ==
  ASSUME UniqueVersions
  PROVE  IInv /\ LedgerMatchesSchema /\ [Next]_vars => [Ledger!Next]_<<Recorded, effects>>
<1> SUFFICES ASSUME IInv, LedgerMatchesSchema, [Next]_vars
             PROVE  [Ledger!Next]_<<Recorded, effects>>
  OBVIOUS
<1>1. CASE UNCHANGED <<ledger, effects>>
  BY <1>1 DEF Recorded
\* Only the run's file joins or leaves those recorded.
<1>2. ASSUME NEW r \in Runs, file[r] \in Files,
             \/ Commit(r) \/ AlterAndCommit(r) \/ RecreateAndCommit(r) \/ InsertAtOnce(r)
      PROVE  /\ ledger'[Version[file[r]]] = file[r] => Recorded' = Recorded \cup {file[r]}
             /\ ledger'[Version[file[r]]] # file[r] => Recorded' = Recorded \ {file[r]}
  <2>1. \A f \in Files : f # file[r] => ledger'[Version[f]] = ledger[Version[f]]
    BY <1>2, OtherFile
  <2> QED
    BY <1>2, <2>1 DEF Recorded
<1>3. ASSUME NEW r \in Runs, Commit(r) PROVE Ledger!Next
  <2>1. /\ file[r] \in Files /\ file[r] \notin OwnCommit
        /\ effects' = [effects EXCEPT ![file[r]] = EffectsAfter(r)]
    BY <1>3, OwnFile DEF Commit, Own
  <2>2. ledger'[Version[file[r]]] = file[r]
    BY <1>3, <2>1, VersionsOfFiles DEF Commit, Row, IInv, TypeOK
  <2>3. Recorded' = Recorded \cup {file[r]}
    BY <1>2, <1>3, <2>1, <2>2
  <2>4. effects[file[r]] # 0 <=> Applied(file[r])
    BY <2>1 DEF LedgerMatchesSchema, Ahead
  <2>5. Applied(file[r]) <=> file[r] \in Recorded
    BY <2>1, NoneAssumption DEF LedgerMatchesSchema, Recorded, Applied
  <2>6. CASE file[r] \notin Recorded
    <3>1. EffectsAfter(r) = 1
      BY <2>4, <2>5, <2>6 DEF EffectsAfter
    <3>2. Ledger!Apply(file[r])
      BY <2>1, <2>3, <2>6, <3>1 DEF Ledger!Apply
    <3> QED
      BY <2>1, <3>2 DEF Ledger!Next
  <2>7. CASE file[r] \in Recorded
    <3>1. kind[r] = "rerun"
      BY <1>3, <2>5, <2>7 DEF IInv, InsertsOnce, Commit
    <3>2. EffectsAfter(r) = IF file[r] \in HasDown THEN 1 ELSE 2
      BY <2>4, <2>5, <2>7, <3>1 DEF EffectsAfter
    <3>3. Ledger!Rerun(file[r])
      BY <2>1, <2>3, <2>7, <3>2 DEF Ledger!Rerun
    <3> QED
      BY <2>1, <3>3 DEF Ledger!Next
  <2> QED
    BY <2>6, <2>7
<1>4. ASSUME NEW r \in Runs, AlterAndCommit(r) \/ RecreateAndCommit(r) PROVE Ledger!Next
  <2>1. /\ file[r] \in Files /\ file[r] \in OwnCommit
        /\ effects' = [effects EXCEPT ![file[r]] = EffectsAfter(r)]
        /\ EffectsAfter(r) \in {1, 2} /\ (EffectsAfter(r) = 2 => effects[file[r]] # 0)
    BY <1>4, OwnFile DEF AlterAndCommit, RecreateAndCommit, Own
  <2>2. \/ ledger'[Version[file[r]]] = ledger[Version[file[r]]]
        \/ ledger'[Version[file[r]]] = None
    BY <1>4, <2>1, VersionsOfFiles DEF AlterAndCommit, RecreateAndCommit
  <2>3. Recorded' \in {Recorded, Recorded \ {file[r]}}
    <3>1. CASE ledger'[Version[file[r]]] = file[r]
      <4>1. file[r] \in Recorded
        BY <2>1, <2>2, <3>1, NoneAssumption DEF Recorded
      <4> QED
        BY <1>2, <1>4, <2>1, <3>1, <4>1
    <3>2. CASE ledger'[Version[file[r]]] # file[r]
      BY <1>2, <1>4, <2>1, <3>2
    <3> QED
      BY <3>1, <3>2
  <2>4. Ledger!TakeEffect(file[r])
    BY <2>1, <2>3 DEF Ledger!TakeEffect
  <2> QED
    BY <2>1, <2>4 DEF Ledger!Next
<1>5. ASSUME NEW r \in Runs, InsertAtOnce(r) PROVE Ledger!Next
  <2>1. /\ file[r] \in Files /\ file[r] \in OwnCommit /\ file[r] # None
        /\ effects[file[r]] # 0 /\ UNCHANGED effects
    BY <1>5, NoneAssumption DEF InsertAtOnce, Own, IInv, PlanShape, Open, Committed
  <2>2. ledger'[Version[file[r]]] = file[r]
    BY <1>5, <2>1, VersionsOfFiles DEF InsertAtOnce, Row, IInv, TypeOK
  <2>3. file[r] \notin Recorded
    BY <1>5, <2>1 DEF InsertAtOnce, Recorded, Applied
  <2>4. Recorded' = Recorded \cup {file[r]}
    BY <1>2, <1>5, <2>1, <2>2
  <2>5. Ledger!Record(file[r])
    BY <2>1, <2>3, <2>4 DEF Ledger!Record
  <2> QED
    BY <2>1, <2>5 DEF Ledger!Next
<1> QED
  BY <1>1, <1>3, <1>4, <1>5 DEF Next, Step, Mishap, StartRun, Plan, Refuse, Snapshot, Begin,
     GiveUp, Alter, Delete, DeleteWaits, Recreate, Insert, InsertConflict, StatementFails,
     CommitNothing, Answered, AnswerLost, RollBack, SwitchReadonly, Crash, vars, ledgerVars

\* When no two files share a version, the runner implements the abstract ledger, whatever
\* overlaps, fails, loses an answer or dies: a file it has in a transaction of its own is
\* applied at most once, and recorded exactly when it is in effect; one with a COMMIT of
\* its own is recorded only once in effect.
THEOREM LedgerIsImplemented ==
  ASSUME UniqueVersions
  PROVE  Spec => ImplementsLedger
<1>1. Init => Ledger!Init
  BY VersionsOfFiles, NoneAssumption DEF Init, Ledger!Init, Recorded
<1>2. IInv /\ LedgerMatchesSchema /\ [Next]_vars => [Ledger!Next]_<<Recorded, effects>>
  BY NextImplements
<1> QED
  BY <1>1, <1>2, Invariance, LedgerIsExact, PTL DEF Spec, ImplementsLedger, Ledger!Spec
=============================================================================
