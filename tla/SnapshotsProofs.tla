-------------------------- MODULE SnapshotsProofs --------------------------
(***************************************************************************)
(* Proofs about Snapshots, for any number of creations and restores: what  *)
(* the directory keeps as long as nothing of what it does not guard        *)
(* against has happened.                                                   *)
(***************************************************************************)
EXTENDS Snapshots, TLAPS

\* A creation whose dump has been written, whether or not it goes on to be listed.
Written == {c \in Creations : stage[c] \in {"filled", "read", "opened", "replacing", "done", "failed"}
                                /\ id[c] # None /\ file[id[c]] = {c}}

\* A creation has an id once it has started, all the more when it is listed somewhere,
\* and keeps a file open only to write it.
CreationShape ==
    /\ \A c \in Creations :
         /\ stage[c] \notin {"new", "failed"} => id[c] # None
         /\ stage[c] = "new" => id[c] = None
         /\ handle[c] # "none" => stage[c] = "opened"
         /\ c \in index \cup tmp => id[c] # None
         /\ \A d \in Creations : c \in known[d] => id[c] # None
         /\ \A r \in Restores : wanted[r] = c => id[c] # None
    /\ \A r \in Restores : step[r] = "found" => wanted[r] # None

\* Updates of the index that do not overlap: one at a time, on its own file.
OneUpdate ==
    "overlap" \notin mishap =>
        /\ \A c, d \in Creations : stage[c] \in Updating /\ stage[d] \in Updating => c = d
        /\ \A c \in Creations :
             /\ stage[c] = "opened" => handle[c] = "tmp" /\ tmp = Blank
             /\ stage[c] = "replacing" => tmp = known[c] \cup {c}
        /\ index \in SUBSET Creations

\* If also the index was not misread, the update under way has all of it.
WholeIndex ==
    {"overlap", "misread"} \cap mishap = {} =>
        \A c \in Creations : stage[c] \in Updating => known[c] = index

\* With a second of its own each creation has a file of its own, written before anything
\* mentions it.
OwnFile ==
    "same second" \notin mishap =>
        /\ \A c, d \in Creations : id[c] = id[d] /\ id[c] # None => c = d
        /\ \A c \in Creations : stage[c] = "filling" => file[id[c]] = Blank
        /\ \A c \in Creations : stage[c] \in {"filled", "read", "opened", "replacing", "done"}
             => c \in Written
        /\ index \in Unreadable \/ index \subseteq Written
        /\ tmp \in Unreadable \cup {Missing} \/ tmp \subseteq Written
        /\ \A c \in Creations : known[c] \subseteq Written
        /\ \A r \in Restores :
             /\ step[r] \in {"found", "read", "restored"} => wanted[r] \in Written
             /\ step[r] \in {"read", "restored"} => dump[r] = {wanted[r]}
             /\ applied[r] # Missing => step[r] \in {"restored", "failed"} /\ applied[r] = {wanted[r]}

IInv == TypeOK /\ CreationShape /\ OneUpdate /\ WholeIndex /\ NothingIsLost /\ OwnFile

USE SecondAssumption, NoneAssumption, TextAssumption

\* The initial states satisfy the invariant: the directory is empty.
LEMMA InitInv == Init => IInv
<1> SUFFICES ASSUME Init PROVE IInv
  OBVIOUS
<1>1. TypeOK
  BY DEF Init, TypeOK, Seconds, Stage, Indexes, Mishap
<1>2. CreationShape /\ OneUpdate /\ WholeIndex /\ NothingIsLost
  BY DEF Init, CreationShape, OneUpdate, WholeIndex, NothingIsLost, Updating, Missing
<1>3. OwnFile
  BY DEF Init, OwnFile
<1> QED
  BY <1>1, <1>2, <1>3 DEF IInv

\* What is written over a text is a text.
LEMMA OverwrittenType ==
  ASSUME NEW old, NEW S, Garbled \in S, NEW new \in S, NEW text \in Overwritten(old, new)
  PROVE  text \in S
  BY DEF Overwritten

\* Every step keeps the types.
LEMMA NextTypeOK == TypeOK /\ CreationShape /\ [Next]_vars => TypeOK'
<1> SUFFICES ASSUME TypeOK, CreationShape, [Next]_vars PROVE TypeOK'
  OBVIOUS
<1> USE DEF GoTo, Note, directory, creationVars, restoreVars
<1>0. Garbled \in Dumps /\ Garbled \in Indexes /\ Blank \in Dumps /\ Blank \in Indexes
  BY DEF Dumps, Indexes, Unreadable
<1>1. CASE UNCHANGED vars
  BY <1>1 DEF vars, TypeOK
<1>2. ASSUME NEW c \in Creations, TakeId(c) PROVE TypeOK'
  BY <1>2 DEF TakeId, TypeOK, Stage, Mishap
<1>3. ASSUME NEW c \in Creations, Dump(c) \/ RenameInVain(c) \/ FailCreation(c) PROVE TypeOK'
  BY <1>3 DEF Dump, RenameInVain, FailCreation, TypeOK, Stage
<1>4. ASSUME NEW c \in Creations, OpenFile(c) PROVE TypeOK'
  BY <1>0, <1>4 DEF OpenFile, TypeOK, Stage
<1>5. ASSUME NEW c \in Creations, FillFile(c) PROVE TypeOK'
  <2>1. PICK text \in Overwritten(file[id[c]], {c}) : file' = [file EXCEPT ![id[c]] = text]
    BY <1>5 DEF FillFile
  <2>2. text \in Dumps
    BY <1>0, <2>1, OverwrittenType DEF Dumps
  <2> QED
    BY <1>5, <2>1, <2>2 DEF FillFile, TypeOK, Stage
<1>6. ASSUME NEW c \in Creations, ReadIndex(c) \/ MisreadIndex(c) PROVE TypeOK'
  <2>1. ReadEntries \in SUBSET Creations
    BY DEF ReadEntries, TypeOK, Indexes
  <2>2. mishap' \subseteq Mishap
    <3>1. CASE ReadIndex(c)
      BY <3>1 DEF ReadIndex, TypeOK, Mishap
    <3>2. CASE MisreadIndex(c)
      BY <3>2 DEF MisreadIndex, TypeOK, Mishap
    <3> QED
      BY <1>6, <3>1, <3>2
  <2> QED
    BY <1>6, <2>1, <2>2 DEF ReadIndex, MisreadIndex, TypeOK, Stage
<1>7. ASSUME NEW c \in Creations, OpenTmp(c) PROVE TypeOK'
  BY <1>0, <1>7 DEF OpenTmp, TypeOK, Stage
<1>8. ASSUME NEW c \in Creations, FillTmp(c) PROVE TypeOK'
  <2>1. known[c] \cup {c} \in Indexes
    BY DEF TypeOK, Indexes
  <2>2. \A old : Overwritten(old, known[c] \cup {c}) \subseteq Indexes
    BY <1>0, <2>1, OverwrittenType
  <2>3. tmp' \in Indexes \cup {Missing} /\ index' \in Indexes
    BY <1>8, <2>2 DEF FillTmp, TypeOK
  <2> QED
    BY <1>8, <2>3 DEF FillTmp, TypeOK, Stage
<1>9. ASSUME NEW c \in Creations, Rename(c) PROVE TypeOK'
  BY <1>9 DEF Rename, TypeOK, Stage
<1>10. ASSUME NEW r \in Restores, Find(r) PROVE TypeOK'
  <2>1. ReadEntries \in SUBSET Creations
    BY DEF ReadEntries, TypeOK, Indexes
  <2> QED
    BY <1>10, <2>1 DEF Find, TypeOK
<1>11. ASSUME NEW r \in Restores, ReadDump(r) PROVE TypeOK'
  <2>1. id[wanted[r]] \in Seconds
    BY <1>11 DEF ReadDump, CreationShape, TypeOK
  <2> QED
    BY <1>11, <2>1 DEF ReadDump, TypeOK
<1>12. ASSUME NEW r \in Restores, CommitRestore(r) \/ FailRestore(r) \/ Answer(r) PROVE TypeOK'
  BY <1>12 DEF CommitRestore, FailRestore, Answer, TypeOK
<1>13. CASE Crash
  BY <1>13 DEF Crash, TypeOK, Stage
<1>14. CASE Tick
  BY <1>14 DEF Tick, TypeOK, Seconds
<1> QED
  BY <1>1, <1>2, <1>3, <1>4, <1>5, <1>6, <1>7, <1>8, <1>9, <1>10, <1>11, <1>12, <1>13, <1>14
     DEF Next, Creation, Restoring

\* A step of a creation changes its own stage only, and its id only when it starts.
LEMMA NextCreationShape == TypeOK /\ CreationShape /\ [Next]_vars => CreationShape'
<1> SUFFICES ASSUME TypeOK, CreationShape, [Next]_vars PROVE CreationShape'
  OBVIOUS
<1> USE DEF GoTo, directory, creationVars, restoreVars, TypeOK
<1>0. /\ \A c \in Creations : c \in ReadEntries => id[c] # None
      /\ \A c \in Creations : c \notin Blank /\ c \notin Garbled /\ c \notin Missing
      /\ \A c \in Creations : \A old, new : \A text \in Overwritten(old, new) : c \in text => c \in new
  BY DEF ReadEntries, CreationShape, Unreadable, Overwritten, Blank, Garbled, Missing
<1>1. CASE UNCHANGED vars
  BY <1>1 DEF vars, CreationShape
<1>2. ASSUME NEW c \in Creations, TakeId(c) PROVE CreationShape'
  BY <1>2 DEF TakeId, CreationShape, Seconds
<1>3. ASSUME NEW c \in Creations, Dump(c) \/ OpenFile(c) \/ FillFile(c) \/ RenameInVain(c)
                                    \/ FailCreation(c)
      PROVE  CreationShape'
  BY <1>3 DEF Dump, OpenFile, FillFile, RenameInVain, FailCreation, CreationShape
<1>4. ASSUME NEW c \in Creations, ReadIndex(c) \/ MisreadIndex(c) PROVE CreationShape'
  <2>1. /\ stage[c] = "filled"
        /\ stage' = [stage EXCEPT ![c] = "read"]
        /\ UNCHANGED <<id, handle, index, tmp, wanted, step>>
        /\ \A d \in Creations : known'[d] \in {known[d], ReadEntries, {}}
    BY <1>4 DEF ReadIndex, MisreadIndex
  <2>2. \A d, e \in Creations : e \in known'[d] => id[e] # None
    BY <1>0, <2>1 DEF CreationShape
  <2> QED
    BY <2>1, <2>2 DEF CreationShape
<1>5. ASSUME NEW c \in Creations, OpenTmp(c) PROVE CreationShape'
  BY <1>0, <1>5 DEF OpenTmp, CreationShape
<1>6. ASSUME NEW c \in Creations, FillTmp(c) PROVE CreationShape'
  <2>1. \A d \in Creations : d \in known[c] \cup {c} => id[d] # None
    BY <1>6 DEF FillTmp, CreationShape
  <2>2. \A d \in Creations : d \in index' \cup tmp' => id[d] # None
    BY <1>0, <1>6, <2>1 DEF FillTmp, CreationShape
  <2> QED
    BY <1>6, <2>2 DEF FillTmp, CreationShape
<1>7. ASSUME NEW c \in Creations, Rename(c) PROVE CreationShape'
  BY <1>0, <1>7 DEF Rename, CreationShape
<1>8. ASSUME NEW r \in Restores, Restoring(r) PROVE CreationShape'
  <2>1. UNCHANGED <<id, stage, handle, index, tmp, known>>
    BY <1>8 DEF Restoring, Find, ReadDump, CommitRestore, FailRestore, Answer
  <2>2. CASE Find(r)
    <3>1. PICK c \in ReadEntries : wanted' = [wanted EXCEPT ![r] = c]
      BY <2>2 DEF Find
    <3>2. c \in Creations /\ id[c] # None
      BY <1>0, <3>1 DEF ReadEntries, Indexes
    <3> QED
      BY <2>1, <2>2, <3>1, <3>2 DEF Find, CreationShape
  <2>3. CASE ReadDump(r) \/ CommitRestore(r) \/ FailRestore(r)
    BY <2>1, <2>3 DEF ReadDump, CommitRestore, FailRestore, CreationShape
  <2>4. CASE Answer(r)
    BY <2>1, <2>4 DEF Answer, CreationShape
  <2> QED
    BY <1>8, <2>2, <2>3, <2>4 DEF Restoring
<1>9. CASE Crash
  BY <1>9 DEF Crash, CreationShape
<1>10. CASE Tick
  BY <1>10 DEF Tick, CreationShape
<1> QED
  BY <1>1, <1>2, <1>3, <1>4, <1>5, <1>6, <1>7, <1>8, <1>9, <1>10 DEF Next, Creation

\* What has happened stays so.
LEMMA MishapsStay == [Next]_vars => mishap \subseteq mishap'
  BY DEF Next, Creation, Restoring, TakeId, Dump, OpenFile, FillFile, ReadIndex, MisreadIndex, OpenTmp,
     FillTmp, Rename, RenameInVain, FailCreation, Find, ReadDump, CommitRestore, FailRestore, Answer,
     Crash, Tick, Note, vars,
     creationVars, restoreVars

\* Updates that do not overlap keep out of each other's way.
LEMMA NextOneUpdate == TypeOK /\ CreationShape /\ OneUpdate /\ [Next]_vars => OneUpdate'
<1> SUFFICES ASSUME TypeOK, CreationShape, OneUpdate, [Next]_vars, "overlap" \notin mishap'
             PROVE  OneUpdate'
  BY DEF OneUpdate
<1> USE DEF GoTo, Note, directory, creationVars, restoreVars, TypeOK, Updating
<1>0. "overlap" \notin mishap
  BY MishapsStay
<1>1. CASE UNCHANGED <<stage, handle, tmp, known, index>>
  BY <1>0, <1>1 DEF OneUpdate
<1>2. ASSUME NEW c \in Creations, TakeId(c) \/ Dump(c) \/ OpenFile(c) \/ FillFile(c) PROVE OneUpdate'
  <2>1. UNCHANGED <<handle, tmp, known, index>>
    BY <1>2 DEF TakeId, Dump, OpenFile, FillFile
  <2>2. PICK s \in {"dumping", "dumped", "filling", "filled"} : stage' = [stage EXCEPT ![c] = s]
    BY <1>2 DEF TakeId, Dump, OpenFile, FillFile
  <2> QED
    BY <1>0, <2>1, <2>2 DEF OneUpdate
<1>3. ASSUME NEW c \in Creations, RenameInVain(c) \/ FailCreation(c) PROVE OneUpdate'
  BY <1>0, <1>3 DEF RenameInVain, FailCreation, OneUpdate
<1>4. ASSUME NEW c \in Creations, ReadIndex(c) \/ MisreadIndex(c) PROVE OneUpdate'
  <2>1. \A d \in Creations : stage[d] \notin Updating
    BY <1>4 DEF ReadIndex, MisreadIndex
  <2> QED
    BY <1>0, <1>4, <2>1 DEF ReadIndex, MisreadIndex, OneUpdate
<1>5. ASSUME NEW c \in Creations, OpenTmp(c) PROVE OneUpdate'
  BY <1>0, <1>5 DEF OpenTmp, OneUpdate
<1>6. ASSUME NEW c \in Creations, FillTmp(c) PROVE OneUpdate'
  <2>1. tmp' = known[c] \cup {c} /\ UNCHANGED index
    BY <1>0, <1>6 DEF FillTmp, OneUpdate, Overwritten
  <2> QED
    BY <1>0, <1>6, <2>1 DEF FillTmp, OneUpdate
<1>7. ASSUME NEW c \in Creations, Rename(c) PROVE OneUpdate'
  <2>1. index' \in SUBSET Creations
    BY <1>0, <1>7 DEF Rename, OneUpdate
  <2>2. \A d \in Creations : stage'[d] \notin Updating
    BY <1>0, <1>7 DEF Rename, OneUpdate
  <2> QED
    BY <2>1, <2>2 DEF OneUpdate
<1>8. CASE Crash
  BY <1>0, <1>8 DEF Crash, OneUpdate
<1> QED
  BY <1>1, <1>2, <1>3, <1>4, <1>5, <1>6, <1>7, <1>8
     DEF Next, Creation, Restoring, Find, ReadDump, CommitRestore, FailRestore, Answer, Tick, vars

\* An index that is a set of entries is read as it is.
LEMMA ReadableIndex == index \in SUBSET Creations => ReadEntries = index
  BY DEF ReadEntries, Unreadable, Blank, Garbled

\* The update under way keeps having all of the index.
LEMMA NextWholeIndex == TypeOK /\ CreationShape /\ OneUpdate /\ WholeIndex /\ [Next]_vars => WholeIndex'
<1> SUFFICES ASSUME TypeOK, CreationShape, OneUpdate, WholeIndex, [Next]_vars,
                    "overlap" \notin mishap', "misread" \notin mishap'
             PROVE  \A c \in Creations : stage'[c] \in Updating => known'[c] = index'
  BY DEF WholeIndex
<1> USE DEF GoTo, Note, directory, creationVars, restoreVars, TypeOK, Updating
<1>0. "overlap" \notin mishap /\ "misread" \notin mishap
  BY MishapsStay
<1>1. CASE UNCHANGED <<stage, known, index>>
  BY <1>0, <1>1 DEF WholeIndex
<1>2. ASSUME NEW c \in Creations, UNCHANGED <<known, index>>,
             NEW s, stage' = [stage EXCEPT ![c] = s], s \in Updating => stage[c] \in Updating
      PROVE  \A d \in Creations : stage'[d] \in Updating => known'[d] = index'
  BY <1>0, <1>2 DEF WholeIndex
<1>3. ASSUME NEW c \in Creations, ReadIndex(c)
      PROVE  \A d \in Creations : stage'[d] \in Updating => known'[d] = index'
  BY <1>0, <1>3, ReadableIndex DEF ReadIndex, OneUpdate, WholeIndex
<1>4. ASSUME NEW c \in Creations, FillTmp(c)
      PROVE  \A d \in Creations : stage'[d] \in Updating => known'[d] = index'
  <2>1. UNCHANGED index
    BY <1>0, <1>4 DEF FillTmp, OneUpdate
  <2> QED
    BY <1>2, <1>4, <2>1 DEF FillTmp
<1>5. ASSUME NEW c \in Creations, Rename(c)
      PROVE  \A d \in Creations : stage'[d] \notin Updating
  BY <1>0, <1>5 DEF Rename, OneUpdate
<1>6. ASSUME NEW c \in Creations, MisreadIndex(c) PROVE FALSE
  BY <1>6 DEF MisreadIndex
<1>7. CASE Crash
  BY <1>0, <1>7 DEF Crash, WholeIndex
<1> QED
  BY <1>1, <1>2, <1>3, <1>4, <1>5, <1>6, <1>7
     DEF Next, Creation, Restoring, TakeId, Dump, OpenFile, FillFile, OpenTmp, RenameInVain,
         FailCreation, Find, ReadDump, CommitRestore, FailRestore, Answer, Tick, vars

\* A rename keeps every entry, because the update had read the whole index.
LEMMA NextNothingIsLost ==
  TypeOK /\ CreationShape /\ OneUpdate /\ WholeIndex /\ NothingIsLost /\ [Next]_vars => NothingIsLost'
<1> SUFFICES ASSUME TypeOK, CreationShape, OneUpdate, WholeIndex, NothingIsLost, [Next]_vars,
                    "overlap" \notin mishap', "misread" \notin mishap',
                    NEW e \in Creations, stage'[e] = "done"
             PROVE  e \in index'
  BY DEF NothingIsLost
<1> USE DEF GoTo, Note, directory, creationVars, restoreVars, TypeOK
<1>0. "overlap" \notin mishap /\ "misread" \notin mishap
  BY MishapsStay
<1>1. CASE UNCHANGED index /\ stage[e] = "done"
  BY <1>0, <1>1 DEF NothingIsLost
<1>2. ASSUME NEW c \in Creations, Rename(c) PROVE e \in index'
  <2>1. index' = index \cup {c}
    BY <1>0, <1>2 DEF Rename, OneUpdate, WholeIndex, Updating
  <2> QED
    BY <1>0, <1>2, <2>1 DEF Rename, NothingIsLost
<1>3. ASSUME NEW c \in Creations, FillTmp(c) PROVE UNCHANGED index /\ stage[e] = "done"
  BY <1>0, <1>3 DEF FillTmp, OneUpdate
<1>4. ASSUME NEW c \in Creations, Creation(c), ~Rename(c), ~FillTmp(c)
      PROVE  UNCHANGED index /\ stage[e] = "done"
  BY <1>4 DEF Creation, TakeId, Dump, OpenFile, FillFile, ReadIndex, MisreadIndex, OpenTmp,
     RenameInVain, FailCreation
<1> QED
  BY <1>1, <1>2, <1>3, <1>4
     DEF Next, Restoring, Find, ReadDump, CommitRestore, FailRestore, Answer, Crash, Tick, vars

\* Nothing overwrites a dump once it is written.
LEMMA WrittenStays ==
  ASSUME TypeOK, CreationShape, OwnFile, [Next]_vars, "same second" \notin mishap'
  PROVE  Written \subseteq Written'
<1> USE DEF GoTo, Note, directory, creationVars, restoreVars, TypeOK, Written
<1>0. \A c, d \in Creations : id[c] = id[d] /\ id[c] # None => c = d
  BY MishapsStay DEF OwnFile
<1>1. ASSUME NEW c \in Creations, TakeId(c) PROVE Written \subseteq Written'
  BY <1>1 DEF TakeId, CreationShape
<1>2. ASSUME NEW c \in Creations, OpenFile(c) PROVE Written \subseteq Written'
  <2> SUFFICES ASSUME NEW d \in Written PROVE d \in Written'
    OBVIOUS
  <2>1. id[d] # id[c] /\ d # c
    BY <1>0, <1>2 DEF OpenFile, CreationShape
  <2> QED
    BY <1>2, <2>1 DEF OpenFile
<1>3. ASSUME NEW c \in Creations, FillFile(c) PROVE Written \subseteq Written'
  <2> SUFFICES ASSUME NEW d \in Written PROVE d \in Written'
    OBVIOUS
  <2>1. id[d] # id[c] /\ d # c
    BY <1>0, <1>3 DEF FillFile, CreationShape
  <2> QED
    BY <1>3, <2>1 DEF FillFile
<1>4. ASSUME NEW c \in Creations, UNCHANGED <<id, file>>,
             NEW s \in {"dumped", "read", "opened", "replacing", "done", "failed"},
             stage' = [stage EXCEPT ![c] = s], s = "dumped" => stage[c] = "dumping"
      PROVE  Written \subseteq Written'
  BY <1>4
<1>5. CASE Crash
  BY <1>5 DEF Crash
<1>6. CASE UNCHANGED <<id, file, stage>>
  BY <1>6
<1> QED
  BY <1>1, <1>2, <1>3, <1>4, <1>5, <1>6
     DEF Next, Creation, Restoring, Dump, ReadIndex, MisreadIndex, OpenTmp, FillTmp, Rename,
         RenameInVain, FailCreation, Find, ReadDump, CommitRestore, FailRestore, Answer, Tick, vars

\* Nothing mentions a dump before it is written.
LEMMA NextOwnFile == TypeOK /\ CreationShape /\ OwnFile /\ [Next]_vars => OwnFile'
<1> SUFFICES ASSUME TypeOK, CreationShape, OwnFile, [Next]_vars, "same second" \notin mishap'
             PROVE  OwnFile'
  BY DEF OwnFile
<1> USE DEF GoTo, Note, directory, creationVars, restoreVars, TypeOK
<1>0. "same second" \notin mishap /\ Written \subseteq Written'
  BY MishapsStay, WrittenStays
<1>1. \A c, d \in Creations : id'[c] = id'[d] /\ id'[c] # None => c = d
  <2>1. CASE UNCHANGED id
    BY <1>0, <2>1 DEF OwnFile
  <2>2. ASSUME NEW c \in Creations, TakeId(c)
        PROVE  \A d, e \in Creations : id'[d] = id'[e] /\ id'[d] # None => d = e
    BY <1>0, <2>2 DEF TakeId, OwnFile
  <2> QED
    BY <2>1, <2>2
       DEF Next, Creation, Restoring, Dump, OpenFile, FillFile, ReadIndex, MisreadIndex, OpenTmp, FillTmp,
           Rename, RenameInVain, FailCreation, Find, ReadDump, CommitRestore, FailRestore, Answer,
           Crash, Tick, vars
<1>2. ASSUME NEW c \in Creations, stage'[c] = "filling" PROVE file'[id'[c]] = Blank
  <2>1. CASE UNCHANGED <<file, id>> /\ stage[c] = "filling"
    BY <1>0, <2>1 DEF OwnFile
  <2>2. ASSUME NEW d \in Creations, TakeId(d) PROVE file'[id'[c]] = Blank
    BY <1>0, <1>2, <2>2 DEF TakeId, OwnFile
  <2>3. ASSUME NEW d \in Creations, OpenFile(d) PROVE file'[id'[c]] = Blank
    <3>1. CASE c = d
      BY <2>3, <3>1 DEF OpenFile, CreationShape
    <3>2. CASE c # d
      <4>1. stage[c] = "filling" /\ id[c] # id[d]
        BY <1>0, <1>2, <2>3, <3>2 DEF OpenFile, OwnFile, CreationShape
      <4> QED
        BY <1>0, <2>3, <4>1 DEF OpenFile, OwnFile, CreationShape
    <3> QED
      BY <3>1, <3>2
  <2>4. ASSUME NEW d \in Creations, FillFile(d) PROVE file'[id'[c]] = Blank
    <3>1. stage[c] = "filling" /\ id[c] # id[d]
      BY <1>0, <1>2, <2>4 DEF FillFile, OwnFile, CreationShape
    <3> QED
      BY <1>0, <2>4, <3>1 DEF FillFile, OwnFile, CreationShape
  <2>5. ASSUME NEW d \in Creations,
               Dump(d) \/ ReadIndex(d) \/ MisreadIndex(d) \/ OpenTmp(d) \/ FillTmp(d) \/ Rename(d)
                 \/ RenameInVain(d) \/ FailCreation(d)
        PROVE  UNCHANGED <<file, id>> /\ stage[c] = "filling"
    BY <1>2, <2>5 DEF Dump, ReadIndex, MisreadIndex, OpenTmp, FillTmp, Rename, RenameInVain, FailCreation
  <2>6. CASE Crash
    BY <1>2, <2>6 DEF Crash
  <2> QED
    BY <1>2, <2>1, <2>2, <2>3, <2>4, <2>5, <2>6
       DEF Next, Creation, Restoring, Find, ReadDump, CommitRestore, FailRestore, Answer, Tick, vars
<1>3. ASSUME NEW c \in Creations, stage'[c] \in {"filled", "read", "opened", "replacing", "done"}
      PROVE  c \in Written'
  <2>1. CASE stage[c] \in {"filled", "read", "opened", "replacing", "done"}
    BY <1>0, <2>1 DEF OwnFile
  <2>2. CASE FillFile(c)
    <3>1. id[c] \in Seconds /\ file[id[c]] = Blank
      BY <1>0, <2>2 DEF FillFile, OwnFile, CreationShape
    <3>2. file' = [file EXCEPT ![id[c]] = {c}]
      BY <2>2, <3>1 DEF FillFile, Overwritten
    <3>3. file'[id'[c]] = {c} /\ id'[c] # None /\ stage'[c] = "filled"
      BY <2>2, <3>1, <3>2 DEF FillFile, Seconds
    <3> QED
      BY <3>3 DEF Written
  <2>3. ASSUME NEW d \in Creations, Creation(d), ~FillFile(c)
        PROVE  stage[c] \in {"filled", "read", "opened", "replacing", "done"}
    BY <1>3, <2>3 DEF Creation, TakeId, Dump, OpenFile, FillFile, ReadIndex, MisreadIndex, OpenTmp,
       FillTmp, Rename, RenameInVain, FailCreation
  <2>4. CASE Crash
    BY <1>3, <2>1, <2>4 DEF Crash
  <2> QED
    BY <1>3, <2>1, <2>2, <2>3, <2>4
       DEF Next, Restoring, Find, ReadDump, CommitRestore, FailRestore, Answer, Tick, vars
<1>4. /\ index \in Unreadable \/ index \subseteq Written
      /\ tmp \in Unreadable \cup {Missing} \/ tmp \subseteq Written
      /\ \A c \in Creations : known[c] \subseteq Written
      /\ ReadEntries \subseteq Written
  BY <1>0 DEF OwnFile, ReadEntries
<1>5. ASSUME NEW c \in Creations, FillTmp(c)
      PROVE  /\ index' \in Unreadable \/ index' \subseteq Written
             /\ tmp' \in Unreadable \cup {Missing} \/ tmp' \subseteq Written
  <2>1. known[c] \cup {c} \subseteq Written
    BY <1>0, <1>5 DEF FillTmp, OwnFile
  <2> QED
    BY <1>4, <1>5, <2>1 DEF FillTmp, Overwritten, Unreadable
<1>6. /\ index' \in Unreadable \/ index' \subseteq Written'
      /\ tmp' \in Unreadable \cup {Missing} \/ tmp' \subseteq Written'
  <2>1. ASSUME NEW c \in Creations, Rename(c) \/ OpenTmp(c)
        PROVE  /\ index' \in Unreadable \/ index' \subseteq Written
               /\ tmp' \in Unreadable \cup {Missing} \/ tmp' \subseteq Written
    BY <1>4, <2>1 DEF Rename, OpenTmp, Unreadable
  <2> QED
    BY <1>0, <1>4, <1>5, <2>1
       DEF Next, Creation, Restoring, TakeId, Dump, OpenFile, FillFile, ReadIndex, MisreadIndex,
           RenameInVain, FailCreation, Find, ReadDump, CommitRestore, FailRestore, Answer, Crash,
           Tick, vars
<1>7. ASSUME NEW c \in Creations PROVE known'[c] \subseteq Written'
  <2>1. ASSUME NEW d \in Creations, ReadIndex(d) \/ MisreadIndex(d) PROVE known'[c] \subseteq Written
    BY <1>4, <2>1 DEF ReadIndex, MisreadIndex
  <2> QED
    BY <1>0, <1>4, <2>1
       DEF Next, Creation, Restoring, TakeId, Dump, OpenFile, FillFile, OpenTmp, FillTmp, Rename,
           RenameInVain, FailCreation, Find, ReadDump, CommitRestore, FailRestore, Answer, Crash,
           Tick, vars
<1>8. ASSUME NEW r \in Restores
      PROVE  /\ step'[r] \in {"found", "read", "restored"} => wanted'[r] \in Written'
             /\ step'[r] \in {"read", "restored"} => dump'[r] = {wanted'[r]}
             /\ applied'[r] # Missing => step'[r] \in {"restored", "failed"} /\ applied'[r] = {wanted'[r]}
  <2>1. /\ step[r] \in {"found", "read", "restored"} => wanted[r] \in Written
        /\ step[r] \in {"read", "restored"} => dump[r] = {wanted[r]}
        /\ applied[r] # Missing => step[r] \in {"restored", "failed"} /\ applied[r] = {wanted[r]}
    BY <1>0 DEF OwnFile
  <2>2. CASE UNCHANGED <<step, wanted, dump, applied>>
    BY <1>0, <2>1, <2>2
  <2>3. ASSUME NEW q \in Restores, Find(q)
        PROVE  /\ step'[r] \in {"found", "read", "restored"} => wanted'[r] \in Written
               /\ step'[r] \in {"read", "restored"} => dump'[r] = {wanted'[r]}
    BY <1>4, <2>1, <2>3 DEF Find
  <2>4. ASSUME NEW q \in Restores, Find(q)
        PROVE  applied'[r] # Missing => step'[r] \in {"restored", "failed"} /\ applied'[r] = {wanted'[r]}
    BY <2>1, <2>4 DEF Find
  <2>5. ASSUME NEW q \in Restores, ReadDump(q) \/ CommitRestore(q) \/ FailRestore(q) \/ Answer(q)
        PROVE  /\ step'[r] \in {"found", "read", "restored"} => wanted'[r] \in Written
               /\ step'[r] \in {"read", "restored"} => dump'[r] = {wanted'[r]}
               /\ applied'[r] # Missing =>
                    step'[r] \in {"restored", "failed"} /\ applied'[r] = {wanted'[r]}
    <3>1. CASE ReadDump(q)
      <4>1. wanted[q] \in Written => file[id[wanted[q]]] = {wanted[q]}
        BY DEF Written
      <4> QED
        BY <2>1, <3>1, <4>1 DEF ReadDump
    <3>2. CASE CommitRestore(q)
      BY <2>1, <3>2 DEF CommitRestore
    <3>3. CASE FailRestore(q)
      BY <2>1, <3>3 DEF FailRestore
    <3>4. CASE Answer(q)
      BY <2>1, <3>4 DEF Answer
    <3> QED
      BY <2>5, <3>1, <3>2, <3>3, <3>4
  <2>6. CASE Crash
    BY <2>6 DEF Crash
  <2> QED
    BY <1>0, <2>2, <2>3, <2>4, <2>5, <2>6
       DEF Next, Creation, Restoring, TakeId, Dump, OpenFile, FillFile, ReadIndex, MisreadIndex,
           OpenTmp, FillTmp, Rename, RenameInVain, FailCreation, Tick, vars
<1> QED
  BY <1>1, <1>2, <1>3, <1>6, <1>7, <1>8 DEF OwnFile

\* Every step keeps the invariant.
LEMMA NextInv == IInv /\ [Next]_vars => IInv'
  BY NextTypeOK, NextCreationShape, NextOneUpdate, NextWholeIndex, NextNothingIsLost, NextOwnFile
     DEF IInv

\* The inductive invariant holds in every reachable state.
THEOREM Invariance == Spec => []IInv
<1> QED
  BY InitInv, NextInv, PTL DEF Spec

\* Type correctness.
THEOREM TypeCorrect == Spec => []TypeOK
<1>1. IInv => TypeOK
  BY DEF IInv
<1> QED
  BY <1>1, Invariance, PTL

\* Updates of the index that do not overlap never leave it unreadable, wherever they fail
\* or the process ends (snapshots.ts:77-82).
THEOREM IndexReadable == Spec => []IndexStaysReadable
<1>1. IInv => IndexStaysReadable
  BY DEF IInv, OneUpdate, IndexStaysReadable, Unreadable, Blank, Garbled
<1> QED
  BY <1>1, Invariance, PTL

\* A snapshot created stays listed, unless index updates overlapped or an index was
\* misread, with any number of creations and crashes (snapshots.ts:187-189).
THEOREM NothingLost == Spec => []NothingIsLost
<1>1. IInv => NothingIsLost
  BY DEF IInv
<1> QED
  BY <1>1, Invariance, PTL

\* Whatever happens to the index, what it lists has its own whole dump, as long as no two
\* creations fell into one second (snapshots.ts:46-49).
THEOREM ListedWhole == Spec => []ListedIsWhole
<1>1. IInv => ListedIsWhole
  BY DEF IInv, OwnFile, Written, ListedIsWhole, ReadEntries
<1> QED
  BY <1>1, Invariance, PTL

\* Under the same condition a restore commits the dump of the snapshot it was asked for
\* (snapshots.ts:215-252).
THEOREM RestoreExact == Spec => []RestoreAppliesTheDump
<1>1. IInv => RestoreAppliesTheDump
  BY DEF IInv, OwnFile, RestoreAppliesTheDump
<1> QED
  BY <1>1, Invariance, PTL
=============================================================================
