----------------------------- MODULE Snapshots -----------------------------
(***************************************************************************)
(* The dashboard's snapshots (web/packages/core/src/snapshots.ts): a       *)
(* directory of dumps with an index file, which creations - requests of    *)
(* users and the migrations' own - read, extend and replace without a      *)
(* lock, and from which restores are served.                               *)
(*                                                                         *)
(* A step is one file operation, query or child process.  What a file      *)
(* holds is abstracted to whose dump, or which entries, it has; a file     *)
(* being written is an inode that a rename can move under its writer.      *)
(***************************************************************************)
EXTENDS Naturals

CONSTANTS
    Creations,   \* calls of createSnapshot; each stands for its dump, too
    Restores,    \* concurrent requests to restore, or show, a snapshot
    MaxSecond,   \* the clock stops here
    None         \* null / undefined

ASSUME SecondAssumption == MaxSecond \in Nat
ASSUME NoneAssumption == None \notin Creations \cup 0..MaxSecond
ASSUME TextAssumption == Creations \cap {"missing", "blank", "garbled"} = {}

Seconds == 0..MaxSecond

\* What a file holds: the data of one dump, or the entries of an index, or none of these.
Missing == {"missing"}  \* there is no such file
Blank == {"blank"}      \* just created or truncated
Garbled == {"garbled"}  \* what two overlapping writes can leave
Unreadable == {Blank, Garbled}
Dumps == {{c} : c \in Creations} \cup Unreadable
Indexes == (SUBSET Creations) \cup Unreadable

VARIABLES
    second,    \* the time, in the resolution of an id
    id,        \* the id of each creation: the second it was taken in
    stage,     \* where each creation is
    known,     \* the entries it has read from the index
    handle,    \* the inode of the index it has open for writing
    file,      \* the dump file of each id
    index,     \* index.json
    tmp,       \* index.json.tmp
    mishap,    \* which of the things nothing guards against have happened
    step,      \* where each restore is
    wanted,    \* the entry it has found
    dump,      \* what it has read from that entry's file
    applied    \* what it has committed

directory == <<file, index, tmp>>
creationVars == <<id, stage, known, handle>>
restoreVars == <<step, wanted, dump, applied>>
vars == <<second, directory, creationVars, mishap, restoreVars>>

Stage == {"new", "dumping", "dumped", "filling", "filled", "read", "opened", "replacing",
          "done", "failed"}
Updating == {"read", "opened", "replacing"}
Mishap == {"same second", "overlap", "misread"}

TypeOK ==
    /\ second \in Seconds
    /\ id \in [Creations -> Seconds \cup {None}]
    /\ stage \in [Creations -> Stage]
    /\ known \in [Creations -> SUBSET Creations]
    /\ handle \in [Creations -> {"none", "tmp", "index", "gone"}]
    /\ file \in [Seconds -> Dumps \cup {Missing}]
    /\ index \in Indexes
    /\ tmp \in Indexes \cup {Missing}
    /\ mishap \subseteq Mishap
    /\ step \in [Restores -> {"idle", "found", "read", "restored", "failed"}]
    /\ wanted \in [Restores -> Creations \cup {None}]
    /\ dump \in [Restores -> Dumps \cup {Missing}]
    /\ applied \in [Restores -> Dumps \cup {Missing}]

\* A missing index reads as one without entries.
Init ==
    /\ second = 0
    /\ id = [c \in Creations |-> None]
    /\ stage = [c \in Creations |-> "new"]
    /\ known = [c \in Creations |-> {}]
    /\ handle = [c \in Creations |-> "none"]
    /\ file = [s \in Seconds |-> Missing]
    /\ index = {}
    /\ tmp = Missing
    /\ mishap = {}
    /\ step = [r \in Restores |-> "idle"]
    /\ wanted = [r \in Restores |-> None]
    /\ dump = [r \in Restores |-> Missing]
    /\ applied = [r \in Restores |-> Missing]

-----------------------------------------------------------------------------

GoTo(c, s) == stage' = [stage EXCEPT ![c] = s]

\* A file that held `old` after one write of `new` from its beginning: over a longer
\* text of somebody else's the end of that text stays.
Overwritten(old, new) == IF old \in {Blank, new} THEN {new} ELSE {new, Garbled}

\* Mutant of ReadEntries: no catch, takes any text for entries.
ReadEntriesUnchecked == index

\* readIndex: whatever cannot be read or parsed has no entries.
ReadEntries == IF index \in Unreadable THEN {} ELSE index

Note(m, happened) == mishap' = IF happened THEN mishap \cup {m} ELSE mishap

-----------------------------------------------------------------------------
(***************************************************************************)
(* createSnapshot.                                                         *)
(***************************************************************************)

\* The tables have been listed: the time of day becomes the id.
TakeId(c) ==
    /\ stage[c] = "new"
    /\ id' = [id EXCEPT ![c] = second]
    /\ Note("same second", \E d \in Creations : id[d] = second)
    /\ GoTo(c, "dumping")
    /\ UNCHANGED <<second, directory, known, handle, restoreVars>>

\* pg_dump, or the built-in dump when there is no pg_dump, returns the data.
Dump(c) ==
    /\ stage[c] = "dumping"
    /\ GoTo(c, "dumped")
    /\ UNCHANGED <<second, directory, id, known, handle, mishap, restoreVars>>

\* writeFile opens the dump's file, which creates or truncates it ...
OpenFile(c) ==
    /\ stage[c] = "dumped"
    /\ file' = [file EXCEPT ![id[c]] = Blank]
    /\ GoTo(c, "filling")
    /\ UNCHANGED <<second, index, tmp, id, known, handle, mishap, restoreVars>>

\* Mutant of FillFile: the write is not awaited.
FillFileUnawaited(c) ==
    /\ stage[c] = "filling"
    /\ GoTo(c, "filled")
    /\ UNCHANGED <<second, directory, id, known, handle, mishap, restoreVars>>

\* ... and writes it.
FillFile(c) ==
    /\ stage[c] = "filling"
    /\ \E text \in Overwritten(file[id[c]], {c}) : file' = [file EXCEPT ![id[c]] = text]
    /\ GoTo(c, "filled")
    /\ UNCHANGED <<second, index, tmp, id, known, handle, mishap, restoreVars>>

\* The rows have been estimated; the index is read.
ReadIndex(c) ==
    /\ stage[c] = "filled"
    /\ known' = [known EXCEPT ![c] = ReadEntries]
    /\ Note("overlap", \E d \in Creations : stage[d] \in Updating)
    /\ GoTo(c, "read")
    /\ UNCHANGED <<second, directory, id, handle, restoreVars>>

\* readFile fails for a reason of its own; readIndex takes that for an empty index.
MisreadIndex(c) ==
    /\ stage[c] = "filled"
    /\ known' = [known EXCEPT ![c] = {}]
    /\ mishap' = mishap \cup {"misread"}
                        \cup (IF \E d \in Creations : stage[d] \in Updating THEN {"overlap"} ELSE {})
    /\ GoTo(c, "read")
    /\ UNCHANGED <<second, directory, id, handle, restoreVars>>

\* Mutant of OpenTmp: writes the index in its place.
OpenIndex(c) ==
    /\ stage[c] = "read"
    /\ index' = Blank
    /\ handle' = [handle EXCEPT ![c] = "index"]
    /\ GoTo(c, "opened")
    /\ UNCHANGED <<second, file, tmp, id, known, mishap, restoreVars>>

\* writeIndex: writeFile opens the temporary file ...
OpenTmp(c) ==
    /\ stage[c] = "read"
    /\ tmp' = Blank
    /\ handle' = [handle EXCEPT ![c] = "tmp"]
    /\ GoTo(c, "opened")
    /\ UNCHANGED <<second, file, index, id, known, mishap, restoreVars>>

\* Mutant of FillTmp: an entry replaces one that has its id.
FillTmpById(c) ==
    LET entries == {d \in known[c] : id[d] # id[c]} \cup {c} IN
    /\ stage[c] = "opened"
    /\ IF handle[c] = "tmp" THEN tmp' \in Overwritten(tmp, entries) ELSE UNCHANGED tmp
    /\ IF handle[c] = "index" THEN index' \in Overwritten(index, entries) ELSE UNCHANGED index
    /\ handle' = [handle EXCEPT ![c] = "none"]
    /\ GoTo(c, "replacing")
    /\ UNCHANGED <<second, file, id, known, mishap, restoreVars>>

\* ... and writes the entries to the inode it has opened, wherever that is by now.
FillTmp(c) ==
    LET entries == known[c] \cup {c} IN
    /\ stage[c] = "opened"
    /\ IF handle[c] = "tmp" THEN tmp' \in Overwritten(tmp, entries) ELSE UNCHANGED tmp
    /\ IF handle[c] = "index" THEN index' \in Overwritten(index, entries) ELSE UNCHANGED index
    /\ handle' = [handle EXCEPT ![c] = "none"]
    /\ GoTo(c, "replacing")
    /\ UNCHANGED <<second, file, id, known, mishap, restoreVars>>

\* The rename replaces the index; who had the temporary file open now has the index open.
Rename(c) ==
    /\ stage[c] = "replacing" /\ tmp # Missing
    /\ index' = tmp
    /\ tmp' = Missing
    /\ handle' = [d \in Creations |-> CASE handle[d] = "tmp" -> "index"
                                        [] handle[d] = "index" -> "gone"
                                        [] OTHER -> handle[d]]
    /\ GoTo(c, "done")
    /\ UNCHANGED <<second, file, id, known, mishap, restoreVars>>

\* Somebody else has renamed the temporary file: ENOENT.
RenameInVain(c) ==
    /\ stage[c] = "replacing" /\ tmp = Missing
    /\ GoTo(c, "failed")
    /\ UNCHANGED <<second, directory, id, known, handle, mishap, restoreVars>>

\* No tables, no pg_dump, an empty dump, a query or a file operation fails.
FailCreation(c) ==
    /\ stage[c] \notin {"done", "failed"}
    /\ handle' = [handle EXCEPT ![c] = "none"]
    /\ GoTo(c, "failed")
    /\ UNCHANGED <<second, directory, id, known, mishap, restoreVars>>

Creation(c) ==
    \/ TakeId(c) \/ Dump(c) \/ OpenFile(c) \/ FillFile(c)
    \/ ReadIndex(c) \/ MisreadIndex(c) \/ OpenTmp(c) \/ FillTmp(c)
    \/ Rename(c) \/ RenameInVain(c) \/ FailCreation(c)

-----------------------------------------------------------------------------
(***************************************************************************)
(* restoreSnapshot, and readSnapshotContent, which stops after the file.   *)
(***************************************************************************)

\* The request names an id; the index has an entry with it.
Find(r) ==
    /\ step[r] = "idle"
    /\ \E c \in ReadEntries : wanted' = [wanted EXCEPT ![r] = c]
    /\ step' = [step EXCEPT ![r] = "found"]
    /\ UNCHANGED <<second, directory, creationVars, mishap, dump, applied>>

\* Mutant of ReadDump: looks the entry up again, by its position in the list.
ReadDumpByPosition(r) ==
    /\ step[r] = "found"
    /\ \E c \in ReadEntries : dump' = [dump EXCEPT ![r] = file[id[c]]]
    /\ step' = [step EXCEPT ![r] = "read"]
    /\ UNCHANGED <<second, directory, creationVars, mishap, wanted, applied>>

\* The entry's file is read.
ReadDump(r) ==
    /\ step[r] = "found" /\ file[id[wanted[r]]] # Missing
    /\ dump' = [dump EXCEPT ![r] = file[id[wanted[r]]]]
    /\ step' = [step EXCEPT ![r] = "read"]
    /\ UNCHANGED <<second, directory, creationVars, mishap, wanted, applied>>

\* BEGIN, TRUNCATE, the dump and COMMIT, which is answered, or is not.
CommitRestore(r) ==
    /\ step[r] = "read"
    /\ applied' = [applied EXCEPT ![r] = dump[r]]
    /\ \E s \in {"restored", "failed"} : step' = [step EXCEPT ![r] = s]
    /\ UNCHANGED <<second, directory, creationVars, mishap, wanted, dump>>

\* A file that is not there, no client, an error of the TRUNCATE or in the dump: what
\* has begun is rolled back.
FailRestore(r) ==
    /\ step[r] \in {"found", "read"}
    /\ step' = [step EXCEPT ![r] = "failed"]
    /\ UNCHANGED <<second, directory, creationVars, mishap, wanted, dump, applied>>

\* The answer is sent.
Answer(r) ==
    /\ step[r] \in {"read", "restored", "failed"}
    /\ step' = [step EXCEPT ![r] = "idle"]
    /\ wanted' = [wanted EXCEPT ![r] = None]
    /\ dump' = [dump EXCEPT ![r] = Missing]
    /\ applied' = [applied EXCEPT ![r] = Missing]
    /\ UNCHANGED <<second, directory, creationVars, mishap>>

Restoring(r) == Find(r) \/ ReadDump(r) \/ CommitRestore(r) \/ FailRestore(r) \/ Answer(r)

-----------------------------------------------------------------------------

\* The process ends, whatever it was doing, and starts again on the same directory.
Crash ==
    /\ stage' = [c \in Creations |-> IF stage[c] \in {"new", "done"} THEN stage[c] ELSE "failed"]
    /\ handle' = [c \in Creations |-> "none"]
    /\ step' = [r \in Restores |-> "idle"]
    /\ wanted' = [r \in Restores |-> None]
    /\ dump' = [r \in Restores |-> Missing]
    /\ applied' = [r \in Restores |-> Missing]
    /\ UNCHANGED <<second, directory, id, known, mishap>>

Tick ==
    /\ second < MaxSecond
    /\ second' = second + 1
    /\ UNCHANGED <<directory, creationVars, mishap, restoreVars>>

Next ==
    \/ \E c \in Creations : Creation(c)
    \/ \E r \in Restores : Restoring(r)
    \/ Crash
    \/ Tick

Spec == Init /\ [][Next]_vars

-----------------------------------------------------------------------------
(***************************************************************************)
(* Safety: nothing but the three mishaps can cost a snapshot.              *)
(***************************************************************************)

\* Updates of the index one after the other keep it readable, wherever a creation fails
\* or the process ends (writeIndex, snapshots.ts:77-82).
IndexStaysReadable == "overlap" \notin mishap => index \notin Unreadable

\* A snapshot that was created stays listed, through later creations that succeed, fail
\* or die at any point, unless index updates overlapped or an index was misread.
NothingIsLost ==
    {"overlap", "misread"} \cap mishap = {} =>
        \A c \in Creations : stage[c] = "done" => c \in index

\* What is listed is whole: its file has its own dump, written before the entry was, and
\* later creations leave it alone, if they come in other seconds (snapshotId).
ListedIsWhole ==
    "same second" \notin mishap => \A c \in ReadEntries : file[id[c]] = {c}

\* A restore puts back the dump of the entry it was asked for, all of it, although it
\* reads the index and the file at different times.
RestoreAppliesTheDump ==
    "same second" \notin mishap =>
        \A r \in Restores : applied[r] # Missing => applied[r] = {wanted[r]}

(***************************************************************************)
(* What the code does not ensure.                                          *)
(***************************************************************************)

\* web/packages/core/src/snapshots.ts:241: "Restore failed - databases were not
\* modified."  A restore that is reported as failed has committed nothing.
FailedMeansUnmodified == \A r \in Restores : step[r] = "failed" => applied[r] = Missing
=============================================================================
