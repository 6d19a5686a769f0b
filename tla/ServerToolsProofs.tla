------------------------- MODULE ServerToolsProofs -------------------------
(***************************************************************************)
(* Proofs about ServerTools, for any calls, rows, threshold and page size, *)
(* and behind them about Statements, for any keys and values: the two      *)
(* modules of the tool handlers.                                           *)
(*                                                                         *)
(* ServerTools.                                                            *)
(* The properties speak of calls that have written.  What a write will     *)
(* touch is decided before, when the call's arguments are read and its     *)
(* rows are counted: Underway says what is certain of a call on its way.   *)
(* What the caches hold may come from a call that has read before the      *)
(* write and stores after it: Readers says who has what in hand, and that  *)
(* a stale count still has a map to go to only while the write that made   *)
(* it stale is not answered.  What a dump has so far are the first rows,   *)
(* as many as its offset: Dumping says so, and NextRows that the rows at   *)
(* the positions behind them continue it.                                  *)
(***************************************************************************)
EXTENDS ServerTools, Statements, FiniteSetTheorems, SequenceTheorems, TLAPS

Typed ==
    /\ readonly \in BOOLEAN /\ blocked \in BOOLEAN
    /\ rows \in SUBSET Rows
    /\ tool \in [Calls -> Tool] /\ stage \in [Calls -> Stage]
    /\ filter \in [Calls -> Filter] /\ keys \in [Calls -> SUBSET Rows]
    /\ sees \in [Calls -> Age] /\ map \in [Calls -> {"none", "attached", "detached"}]
    /\ warned \in [Calls -> BOOLEAN] /\ confirmed \in [Calls -> BOOLEAN]
    /\ raced \in [Calls -> BOOLEAN] /\ touched \in [Calls -> SUBSET Rows]

\* A call on its way to a write: let in, with its arguments read, and counted for the
\* warning unless rows came or went since.
Underway(c) ==
    /\ stage[c] = "writing" =>
         /\ tool[c] \in {"create", "upsert"} /\ MayWrite(c)
         /\ tool[c] = "upsert" =>
              filter[c] \in {"some", "renamed"} /\ \E k \in Rows : keys[c] = {k}
    /\ stage[c] \in {"counting", "counted"} =>
         /\ tool[c] \in {"update", "delete"} /\ MayWrite(c)
         /\ filter[c] \in {"none", "blank", "some"}
    /\ stage[c] = "counted" /\ Warns(Cardinality(Matching(c))) => warned[c] \/ raced[c]
    /\ stage[c] = "running" => tool[c] \in {"select", "statement", "explain"}

InScope(c) ==
    /\ tool[c] \in {"update", "delete"} =>
         touched[c] \subseteq keys[c] \/ confirmed[c] \/ filter[c] = "blank"
    /\ tool[c] = "upsert" => touched[c] = keys[c] \/ filter[c] = "renamed"
    /\ readonly \/ blocked =>
         touched[c] = {} \/ tool[c] \in {"select", "explain", "statement"}
    /\ readonly => tool[c] # "statement"

Warned(c) ==
    tool[c] \in {"update", "delete"} /\ Warns(Cardinality(touched[c])) => warned[c] \/ raced[c]

Written(c) == stage[c] = "written" => InScope(c) /\ Warned(c)

SomeWritten == \E c \in Calls : stage[c] = "written"

Readers ==
    /\ \A c \in Calls : sees[c] # "nothing" => stage[c] \in {"loading", "tallied"}
    /\ \A c \in Calls : map[c] = "attached" => stage[c] \in {"tallying", "tallied"}
    /\ \A c \in Calls : sees[c] = "outdated" /\ map[c] = "attached" => SomeWritten

\* The position of r in the order of the first column.
Position(r) == Cardinality({q \in rows : q =< r})

\* The rows of d come before the other rows.
First(d) == d \subseteq rows /\ \A r \in d, q \in rows \ d : r < q

\* What a dump has: nothing before it starts, then the first rows, as many as its offset,
\* and in the end the table - unless it was raced.
Dumping(c) ==
    /\ offset[c] \in 0..MaxRow
    /\ dumped[c] \subseteq Rows
    /\ stage[c] \notin {"paging", "dumped"} => offset[c] = 0 /\ dumped[c] = {}
    /\ stage[c] = "paging" /\ ~raced[c] =>
         First(dumped[c]) /\ Cardinality(dumped[c]) = offset[c]
    /\ stage[c] = "dumped" /\ ~raced[c] => dumped[c] = rows

Offsets == offset \in [Calls -> Nat] /\ dumped \in [Calls -> SUBSET Rows]

\* What the caches are; a count that was taken is something to keep.
Cached ==
    /\ structure \in Structure
    /\ counts \in Counts
    /\ \A c \in Calls : stage[c] = "tallied" => sees[c] # "nothing"

IInv ==
    /\ Typed
    /\ Cached
    /\ \A c \in Calls : Underway(c) /\ Written(c)
    /\ Readers
    /\ CachesFollowWrites
    /\ Offsets
    /\ \A c \in Calls : Dumping(c)

-----------------------------------------------------------------------------
(***************************************************************************)
(* Types.                                                                  *)
(***************************************************************************)

\* The steps of call c.
Steps(c) ==
    \/ Begin(c) \/ Resolve(c) \/ Load(c) \/ Loaded(c) \/ Refused(c)
    \/ CountMatching(c) \/ CountOnly(c) \/ UpdateMany(c) \/ DeleteMany(c) \/ Insert(c)
    \/ RunRaw(c) \/ FailRaw(c) \/ Answered(c) \/ AnsweredInVain(c)
    \/ ReadRows(c) \/ Estimated(c) \/ Tally(c) \/ Tallied(c)
    \/ DumpWhole(c) \/ FallBack(c) \/ ReadPage(c) \/ Save(c)

\* No step leaves the types.
LEMMA TypedStep ==
    Typed /\ [Next]_vars => Typed'
<1> SUFFICES ASSUME Typed, [Next]_vars PROVE Typed'
  OBVIOUS
<1>1. CASE UNCHANGED vars
  BY <1>1 DEF vars, server, caches, request, dump, Typed, Tool, Stage, Filter, Age
<1>2. ASSUME NEW c \in Calls, Steps(c) PROVE Typed'
  <2>1. CASE Begin(c)
    BY <2>1 DEF Begin, GoTo, server, Typed, Tool, Stage
  <2>2. CASE Resolve(c)
    BY <2>2 DEF Resolve, Proceed, GoTo, server, Typed, Tool, Stage, Filter
  <2>3. CASE Load(c)
    BY <2>3 DEF Load, GoTo, request, server, Typed, Tool, Stage, Age
  <2>4. CASE Loaded(c)
    BY <2>4 DEF Loaded, Proceed, GoTo, server, Typed, Tool, Stage, Filter, Age
  <2>5. CASE Refused(c)
    BY <2>5 DEF Refused, Leave, GoTo, Forget, server, Typed, Tool, Stage, Filter, Age
  <2>6. CASE CountMatching(c)
    BY <2>6 DEF CountMatching, Warns, GoTo, server, Typed, Tool, Stage
  <2>7. CASE CountOnly(c)
    BY <2>7 DEF CountOnly, Leave, GoTo, server, Typed, Tool, Stage, Filter
  <2>8. CASE UpdateMany(c)
    BY <2>8
       DEF UpdateMany, WriteMatching, Write, RowsBecome, Outrun, Matching, GoTo, server,
           Typed, Tool, Stage
  <2>9. CASE DeleteMany(c)
    BY <2>9
       DEF DeleteMany, WriteMatching, Write, RowsBecome, Outrun, Matching, GoTo, server,
           Typed, Tool, Stage, Age
  <2>10. CASE Insert(c)
    BY <2>10
       DEF Insert, Write, RowsBecome, Outrun, GoTo, request, server, Typed, Tool, Stage,
           Age
  <2>11. CASE RunRaw(c)
    BY <2>11
       DEF RunRaw, Write, RowsBecome, Outrun, GoTo, request, server, Typed, Tool, Stage,
           Age
  <2>12. CASE FailRaw(c)
    BY <2>12 DEF FailRaw, GoTo, server, Typed, Tool, Stage
  <2>13. CASE Answered(c)
    BY <2>13 DEF Answered, Invalidate, Leave, GoTo, server, Typed, Tool, Stage, Filter, Age
  <2>14. CASE AnsweredInVain(c)
    BY <2>14
       DEF AnsweredInVain, Unnoticed, Leave, GoTo, server, Typed, Tool, Stage, Filter, Age
  <2>15. CASE ReadRows(c)
    BY <2>15 DEF ReadRows, Leave, GoTo, server, Typed, Tool, Stage, Filter
  <2>16. CASE Estimated(c)
    BY <2>16 DEF Estimated, Leave, GoTo, request, server, Typed, Tool, Stage, Filter, Age
  <2>17. CASE Tally(c)
    BY <2>17 DEF Tally, GoTo, request, server, Typed, Tool, Stage, Age
  <2>18. CASE Tallied(c)
    BY <2>18 DEF Tallied, Leave, GoTo, Forget, server, Typed, Tool, Stage, Filter, Age
  <2>19. CASE DumpWhole(c)
    BY <2>19 DEF DumpWhole, GoTo, request, server, Typed, Tool, Stage
  <2>20. CASE FallBack(c)
    BY <2>20 DEF FallBack, GoTo, request, server, Typed, Tool, Stage
  <2>21. CASE ReadPage(c)
    BY <2>21 DEF ReadPage, GoTo, request, server, Typed, Tool, Stage
  <2>22. CASE Save(c)
    BY <2>22 DEF Save, Leave, GoTo, server, Typed, Tool, Stage, Filter
  <2>23. QED
    BY <1>2, <2>1, <2>2, <2>3, <2>4, <2>5, <2>6, <2>7, <2>8, <2>9, <2>10, <2>11, <2>12,
       <2>13, <2>14, <2>15, <2>16, <2>17, <2>18, <2>19, <2>20, <2>21, <2>22 DEF Steps
<1>3. CASE OtherWrites
  BY <1>3 DEF OtherWrites, RowsBecome, Outrun, server, request, Typed, Tool, Stage, Age
<1>4. CASE OtherAlters
  BY <1>4 DEF OtherAlters, Outrun, server, request, Typed, Tool, Stage, Age
<1>5. QED
  BY <1>1, <1>2, <1>3, <1>4 DEF Next, Steps

-----------------------------------------------------------------------------
(***************************************************************************)
(* Writes.                                                                 *)
(***************************************************************************)

\* What a step leaves alone stays as it was; rows that come or go make it raced.
LEMMA OthersKeep ==
    ASSUME NEW d \in Calls, Underway(d) /\ Written(d), UNCHANGED server,
           tool'[d] = tool[d], stage'[d] = stage[d], filter'[d] = filter[d],
           keys'[d] = keys[d], warned'[d] = warned[d], confirmed'[d] = confirmed[d],
           touched'[d] = touched[d], raced[d] => raced'[d],
           rows' = rows \/ (stage[d] = "counted" => raced'[d])
    PROVE  (Underway(d) /\ Written(d))'
<1>1. MayWrite(d)' = MayWrite(d)
  BY DEF MayWrite, server
<1>2. rows' = rows => Matching(d)' = Matching(d)
  BY DEF Matching
<1>3. Underway(d)'
  BY <1>1, <1>2 DEF Underway, Warns
<1>4. Written(d)'
  BY DEF Written, InScope, Warned, Warns, server
<1> QED
  BY <1>3, <1>4

\* Of the calls d, the one that takes the step is taken case by case.
LEMMA WritesStep ==
    Typed /\ (\A d \in Calls : Underway(d) /\ Written(d)) /\ [Next]_vars
        => (\A d \in Calls : Underway(d) /\ Written(d))'
<1> SUFFICES ASSUME Typed, \A d \in Calls : Underway(d) /\ Written(d), [Next]_vars,
                    NEW d \in Calls
             PROVE  (Underway(d) /\ Written(d))'
  OBVIOUS
<1>1. CASE UNCHANGED vars
  BY <1>1, OthersKeep DEF vars, server, caches, request, dump
<1>2. ASSUME NEW c \in Calls, Steps(c) PROVE (Underway(d) /\ Written(d))'
  <2>1. CASE d # c
    <3>1. CASE Begin(c)
      BY <2>1, <3>1, OthersKeep DEF Begin, GoTo
    <3>2. CASE Resolve(c)
      BY <2>1, <3>2, OthersKeep DEF Resolve, Proceed, GoTo, Typed
    <3>3. CASE Load(c)
      BY <2>1, <3>3, OthersKeep DEF Load, GoTo, request
    <3>4. CASE Loaded(c)
      BY <2>1, <3>4, OthersKeep DEF Loaded, Proceed, GoTo, Typed
    <3>5. CASE Refused(c)
      BY <2>1, <3>5, OthersKeep DEF Refused, Leave, GoTo, Typed
    <3>6. CASE CountMatching(c)
      BY <2>1, <3>6, OthersKeep DEF CountMatching, GoTo
    <3>7. CASE CountOnly(c)
      BY <2>1, <3>7, OthersKeep DEF CountOnly, Leave, GoTo, Typed
    <3>8. CASE UpdateMany(c)
      BY <2>1, <3>8, OthersKeep DEF UpdateMany, WriteMatching, Write, RowsBecome, GoTo
    <3>9. CASE DeleteMany(c)
      BY <2>1, <3>9, OthersKeep DEF DeleteMany, WriteMatching, Write, RowsBecome, GoTo
    <3>10. CASE Insert(c)
      BY <2>1, <3>10, OthersKeep DEF Insert, Write, RowsBecome, GoTo, request
    <3>11. CASE RunRaw(c)
      BY <2>1, <3>11, OthersKeep DEF RunRaw, Write, RowsBecome, GoTo, request
    <3>12. CASE FailRaw(c)
      BY <2>1, <3>12, OthersKeep DEF FailRaw, GoTo
    <3>13. CASE Answered(c)
      BY <2>1, <3>13, OthersKeep DEF Answered, Leave, GoTo, Typed
    <3>14. CASE AnsweredInVain(c)
      BY <2>1, <3>14, OthersKeep DEF AnsweredInVain, Leave, GoTo, Typed
    <3>15. CASE ReadRows(c)
      BY <2>1, <3>15, OthersKeep DEF ReadRows, Leave, GoTo, Typed
    <3>16. CASE Estimated(c)
      BY <2>1, <3>16, OthersKeep DEF Estimated, Leave, GoTo, request, Typed
    <3>17. CASE Tally(c)
      BY <2>1, <3>17, OthersKeep DEF Tally, GoTo, request
    <3>18. CASE Tallied(c)
      BY <2>1, <3>18, OthersKeep DEF Tallied, Leave, GoTo, Typed
    <3>19. CASE DumpWhole(c)
      BY <2>1, <3>19, OthersKeep DEF DumpWhole, GoTo, request
    <3>20. CASE FallBack(c)
      BY <2>1, <3>20, OthersKeep DEF FallBack, GoTo, request
    <3>21. CASE ReadPage(c)
      BY <2>1, <3>21, OthersKeep DEF ReadPage, GoTo, request, Typed
    <3>22. CASE Save(c)
      BY <2>1, <3>22, OthersKeep DEF Save, Leave, GoTo, Typed
    <3>23. QED
      BY <1>2, <3>1, <3>2, <3>3, <3>4, <3>5, <3>6, <3>7, <3>8, <3>9, <3>10, <3>11, <3>12,
         <3>13, <3>14, <3>15, <3>16, <3>17, <3>18, <3>19, <3>20, <3>21, <3>22 DEF Steps
  <2>2. CASE d = c
    <3>1. CASE Begin(c)
      BY <2>2, <3>1 DEF Begin, GoTo, Underway, Written
    <3>2. CASE Resolve(c)
      BY <2>2, <3>2 DEF Resolve, Proceed, GoTo, server, Typed, Underway, Written, MayWrite
    <3>3. CASE Load(c)
      BY <2>2, <3>3 DEF Load, GoTo, Underway, Written
    <3>4. CASE Loaded(c)
      BY <2>2, <3>4 DEF Loaded, Proceed, GoTo, server, Typed, Underway, Written, MayWrite
    <3>5. CASE Refused(c)
      BY <2>2, <3>5 DEF Refused, Leave, GoTo, Typed, Underway, Written
    <3>6. CASE CountMatching(c)
      <4>1. MayWrite(c)' = MayWrite(c) /\ Matching(c)' = Matching(c)
        BY <3>6 DEF CountMatching, MayWrite, Matching, server
      <4>2. /\ stage[c] = "counting" /\ stage'[c] = "counted" /\ tool' = tool /\ filter' = filter
            /\ warned'[c] = Warns(Cardinality(Matching(c)))
        BY <3>6 DEF CountMatching, GoTo, Typed
      <4> QED
        BY <2>2, <4>1, <4>2 DEF Underway, Written, Warns
    <3>7. CASE CountOnly(c)
      BY <2>2, <3>7 DEF CountOnly, Leave, GoTo, Typed, Underway, Written
    <3>8. CASE UpdateMany(c)
      BY <2>2, <3>8
         DEF UpdateMany, WriteMatching, Write, RowsBecome, Matching, GoTo, server, Typed,
             Underway, Written, InScope, Warned, MayWrite, NeedsConfirmation
    <3>9. CASE DeleteMany(c)
      BY <2>2, <3>9
         DEF DeleteMany, WriteMatching, Write, RowsBecome, Matching, GoTo, server, Typed,
             Underway, Written, InScope, Warned, MayWrite, NeedsConfirmation
    <3>10. CASE Insert(c)
      BY <2>2, <3>10
         DEF Insert, Write, GoTo, request, server, Typed, Underway, Written, InScope,
             Warned, MayWrite
    <3>11. CASE RunRaw(c)
      BY <2>2, <3>11
         DEF RunRaw, Write, GoTo, request, server, Underway, Written, InScope, Warned,
             MayWrite
    <3>12. CASE FailRaw(c)
      BY <2>2, <3>12 DEF FailRaw, GoTo, Typed, Underway, Written
    <3>13. CASE Answered(c)
      BY <2>2, <3>13 DEF Answered, Leave, GoTo, Typed, Underway, Written
    <3>14. CASE AnsweredInVain(c)
      BY <2>2, <3>14 DEF AnsweredInVain, Leave, GoTo, Typed, Underway, Written
    <3>15. CASE ReadRows(c)
      BY <2>2, <3>15 DEF ReadRows, Leave, GoTo, Underway, Written
    <3>16. CASE Estimated(c)
      BY <2>2, <3>16 DEF Estimated, Leave, GoTo, Typed, Underway, Written
    <3>17. CASE Tally(c)
      BY <2>2, <3>17 DEF Tally, GoTo, Underway, Written
    <3>18. CASE Tallied(c)
      BY <2>2, <3>18 DEF Tallied, Leave, GoTo, Underway, Written
    <3>19. CASE DumpWhole(c)
      BY <2>2, <3>19 DEF DumpWhole, GoTo, Underway, Written
    <3>20. CASE FallBack(c)
      BY <2>2, <3>20 DEF FallBack, GoTo, Underway, Written
    <3>21. CASE ReadPage(c)
      BY <2>2, <3>21 DEF ReadPage, GoTo, Typed, Underway, Written
    <3>22. CASE Save(c)
      BY <2>2, <3>22 DEF Save, Leave, GoTo, Underway, Written
    <3>23. QED
      BY <1>2, <3>1, <3>2, <3>3, <3>4, <3>5, <3>6, <3>7, <3>8, <3>9, <3>10, <3>11, <3>12,
         <3>13, <3>14, <3>15, <3>16, <3>17, <3>18, <3>19, <3>20, <3>21, <3>22 DEF Steps
  <2>3. QED
    BY <2>1, <2>2
<1>3. CASE OtherWrites
  BY <1>3, OthersKeep DEF OtherWrites, RowsBecome, request, Typed
<1>4. CASE OtherAlters
  BY <1>4, OthersKeep DEF OtherAlters, request
<1>5. QED
  BY <1>1, <1>2, <1>3, <1>4 DEF Next, Steps

-----------------------------------------------------------------------------
(***************************************************************************)
(* Caches.                                                                 *)
(***************************************************************************)

\* Only a write makes what is in hand outdated, and its answer detaches the map.
LEMMA ReadersStep ==
    Typed /\ Readers /\ [Next]_vars => Readers'
<1> SUFFICES ASSUME Typed, Readers, [Next]_vars PROVE Readers'
  OBVIOUS
<1>1. CASE UNCHANGED vars
  BY <1>1 DEF vars, server, caches, request, dump, Typed, Readers, SomeWritten
<1>2. ASSUME NEW c \in Calls, Steps(c) PROVE Readers'
  <2>1. CASE Begin(c)
    BY <2>1 DEF Begin, GoTo, Readers, SomeWritten
  <2>2. CASE Resolve(c)
    BY <2>2 DEF Resolve, Proceed, GoTo, Typed, Readers, SomeWritten
  <2>3. CASE Load(c)
    BY <2>3 DEF Load, GoTo, Typed, Readers, SomeWritten
  <2>4. CASE Loaded(c)
    BY <2>4 DEF Loaded, Proceed, GoTo, Typed, Readers, SomeWritten
  <2>5. CASE Refused(c)
    BY <2>5 DEF Refused, Leave, GoTo, Forget, Typed, Readers, SomeWritten
  <2>6. CASE CountMatching(c)
    BY <2>6 DEF CountMatching, GoTo, Readers, SomeWritten
  <2>7. CASE CountOnly(c)
    BY <2>7 DEF CountOnly, Leave, GoTo, Readers, SomeWritten
  <2>8. CASE UpdateMany(c)
    BY <2>8 DEF UpdateMany, WriteMatching, Write, Outrun, GoTo, Readers, SomeWritten
  <2>9. CASE DeleteMany(c)
    BY <2>9 DEF DeleteMany, WriteMatching, Write, Outrun, GoTo, Typed, Readers, SomeWritten
  <2>10. CASE Insert(c)
    BY <2>10 DEF Insert, Write, Outrun, GoTo, Typed, Readers, SomeWritten
  <2>11. CASE RunRaw(c)
    BY <2>11 DEF RunRaw, Write, Outrun, GoTo, Typed, Readers, SomeWritten
  <2>12. CASE FailRaw(c)
    BY <2>12 DEF FailRaw, GoTo, Readers, SomeWritten
  <2>13. CASE Answered(c)
    BY <2>13 DEF Answered, Invalidate, Leave, GoTo, Readers
  <2>14. CASE AnsweredInVain(c)
    BY <2>14 DEF AnsweredInVain, Unnoticed, Leave, GoTo, Readers
  <2>15. CASE ReadRows(c)
    BY <2>15 DEF ReadRows, Leave, GoTo, Readers, SomeWritten
  <2>16. CASE Estimated(c)
    BY <2>16 DEF Estimated, Leave, GoTo, Typed, Readers, SomeWritten
  <2>17. CASE Tally(c)
    BY <2>17 DEF Tally, GoTo, Typed, Readers, SomeWritten
  <2>18. CASE Tallied(c)
    BY <2>18 DEF Tallied, Leave, GoTo, Forget, Typed, Readers, SomeWritten
  <2>19. CASE DumpWhole(c)
    BY <2>19 DEF DumpWhole, GoTo, Readers, SomeWritten
  <2>20. CASE FallBack(c)
    BY <2>20 DEF FallBack, GoTo, Readers, SomeWritten
  <2>21. CASE ReadPage(c)
    BY <2>21 DEF ReadPage, GoTo, Typed, Readers, SomeWritten
  <2>22. CASE Save(c)
    BY <2>22 DEF Save, Leave, GoTo, Readers, SomeWritten
  <2>23. QED
    BY <1>2, <2>1, <2>2, <2>3, <2>4, <2>5, <2>6, <2>7, <2>8, <2>9, <2>10, <2>11, <2>12,
       <2>13, <2>14, <2>15, <2>16, <2>17, <2>18, <2>19, <2>20, <2>21, <2>22 DEF Steps
<1>3. CASE OtherWrites
  BY <1>3 DEF OtherWrites, Outrun, Readers, SomeWritten
<1>4. CASE OtherAlters
  BY <1>4 DEF OtherAlters, Outrun, Readers, SomeWritten
<1>5. QED
  BY <1>1, <1>2, <1>3, <1>4 DEF Next, Steps

\* No step leaves the types of the caches.
LEMMA CachedStep ==
    Typed /\ Cached /\ [Next]_vars => Cached'
<1> SUFFICES ASSUME Typed, Cached, [Next]_vars PROVE Cached'
  OBVIOUS
<1> USE DEF Cached
<1>1. CASE UNCHANGED vars
  BY <1>1 DEF vars, caches
<1>2. ASSUME NEW c \in Calls, Steps(c) PROVE Cached'
  <2>1. CASE Begin(c)
    BY <2>1 DEF Begin, GoTo, caches, Typed
  <2>2. CASE Resolve(c)
    BY <2>2 DEF Resolve, Proceed, GoTo, caches, Typed
  <2>3. CASE Load(c)
    BY <2>3 DEF Load, GoTo, caches, Typed
  <2>4. CASE Loaded(c)
    BY <2>4 DEF Loaded, Proceed, GoTo, Structure, Typed
  <2>5. CASE Refused(c)
    BY <2>5 DEF Refused, Leave, GoTo, Forget, caches, Typed
  <2>6. CASE CountMatching(c)
    BY <2>6 DEF CountMatching, GoTo, caches, Typed
  <2>7. CASE CountOnly(c)
    BY <2>7 DEF CountOnly, Leave, GoTo, caches, Typed
  <2>8. CASE UpdateMany(c)
    BY <2>8 DEF UpdateMany, WriteMatching, Write, RowsBecome, Outrun, GoTo, Counts, Typed
  <2>9. CASE DeleteMany(c)
    BY <2>9 DEF DeleteMany, WriteMatching, Write, RowsBecome, Outrun, GoTo, Counts, Typed
  <2>10. CASE Insert(c)
    BY <2>10 DEF Insert, Write, RowsBecome, Outrun, GoTo, Counts, Typed
  <2>11. CASE RunRaw(c)
    BY <2>11 DEF RunRaw, Write, RowsBecome, Outrun, StructureBecomes, GoTo, Structure, Counts, Typed
  <2>12. CASE FailRaw(c)
    BY <2>12 DEF FailRaw, GoTo, caches, Typed
  <2>13. CASE Answered(c)
    BY <2>13 DEF Answered, Invalidate, Leave, GoTo, Structure, Counts, Typed
  <2>14. CASE AnsweredInVain(c)
    BY <2>14 DEF AnsweredInVain, Unnoticed, Leave, GoTo, Structure, Counts, Typed
  <2>15. CASE ReadRows(c)
    BY <2>15 DEF ReadRows, Leave, GoTo, caches, Typed
  <2>16. CASE Estimated(c)
    BY <2>16 DEF Estimated, Leave, GoTo, Counts, Typed
  <2>17. CASE Tally(c)
    BY <2>17 DEF Tally, GoTo, caches, Typed
  <2>18. CASE Tallied(c)
    BY <2>18 DEF Tallied, Leave, GoTo, Forget, Counts, Age, Typed
  <2>19. CASE DumpWhole(c)
    BY <2>19 DEF DumpWhole, GoTo, caches, Typed
  <2>20. CASE FallBack(c)
    BY <2>20 DEF FallBack, GoTo, caches, Typed
  <2>21. CASE ReadPage(c)
    BY <2>21 DEF ReadPage, GoTo, caches, Typed
  <2>22. CASE Save(c)
    BY <2>22 DEF Save, Leave, GoTo, caches, Typed
  <2>23. QED
    BY <1>2, <2>1, <2>2, <2>3, <2>4, <2>5, <2>6, <2>7, <2>8, <2>9, <2>10,
       <2>11, <2>12, <2>13, <2>14, <2>15, <2>16, <2>17, <2>18, <2>19, <2>20,
       <2>21, <2>22 DEF Steps
<1>3. CASE OtherWrites
  BY <1>3 DEF OtherWrites, RowsBecome, Outrun, Counts, Typed
<1>4. CASE OtherAlters
  BY <1>4 DEF OtherAlters, StructureBecomes, Outrun, Structure, Typed
<1>5. QED
  BY <1>1, <1>2, <1>3, <1>4 DEF Next, Steps

\* A count that is stored late has its map only while the write is not answered.
LEMMA CachesStep ==
    Typed /\ Readers /\ CachesFollowWrites /\ [Next]_vars => CachesFollowWrites'
<1> SUFFICES ASSUME Typed, Readers, CachesFollowWrites, [Next]_vars PROVE CachesFollowWrites'
  OBVIOUS
<1>1. CASE UNCHANGED vars
  BY <1>1
     DEF vars, server, caches, request, dump, Typed, Readers, SomeWritten,
         CachesFollowWrites
<1>2. ASSUME NEW c \in Calls, Steps(c) PROVE CachesFollowWrites'
  <2>1. CASE Begin(c)
    BY <2>1 DEF Begin, GoTo, caches, Readers, CachesFollowWrites
  <2>2. CASE Resolve(c)
    BY <2>2 DEF Resolve, Proceed, GoTo, caches, Typed, Readers, CachesFollowWrites
  <2>3. CASE Load(c)
    BY <2>3 DEF Load, GoTo, caches, Readers, CachesFollowWrites
  <2>4. CASE Loaded(c)
    BY <2>4 DEF Loaded, Proceed, GoTo, Typed, Readers, CachesFollowWrites
  <2>5. CASE Refused(c)
    BY <2>5 DEF Refused, Leave, GoTo, caches, Readers, CachesFollowWrites
  <2>6. CASE CountMatching(c)
    BY <2>6 DEF CountMatching, GoTo, caches, Readers, CachesFollowWrites
  <2>7. CASE CountOnly(c)
    BY <2>7 DEF CountOnly, Leave, GoTo, caches, Readers, CachesFollowWrites
  <2>8. CASE UpdateMany(c)
    BY <2>8
       DEF UpdateMany, WriteMatching, Write, RowsBecome, GoTo, Readers, CachesFollowWrites
  <2>9. CASE DeleteMany(c)
    BY <2>9 DEF DeleteMany, WriteMatching, Write, GoTo, Typed, Readers, CachesFollowWrites
  <2>10. CASE Insert(c)
    BY <2>10 DEF Insert, Write, GoTo, Typed, Readers, CachesFollowWrites
  <2>11. CASE RunRaw(c)
    BY <2>11 DEF RunRaw, Write, GoTo, Typed, Readers, CachesFollowWrites
  <2>12. CASE FailRaw(c)
    BY <2>12 DEF FailRaw, GoTo, caches, Readers, CachesFollowWrites
  <2>13. CASE Answered(c)
    BY <2>13 DEF Answered, Invalidate, Leave, GoTo, Readers, CachesFollowWrites
  <2>14. CASE AnsweredInVain(c)
    BY <2>14 DEF AnsweredInVain, Unnoticed, Leave, GoTo, Readers, CachesFollowWrites
  <2>15. CASE ReadRows(c)
    BY <2>15 DEF ReadRows, Leave, GoTo, caches, Readers, CachesFollowWrites
  <2>16. CASE Estimated(c)
    BY <2>16 DEF Estimated, Leave, GoTo, Typed, Readers, CachesFollowWrites
  <2>17. CASE Tally(c)
    BY <2>17 DEF Tally, GoTo, caches, Readers, CachesFollowWrites
  <2>18. CASE Tallied(c)
    BY <2>18 DEF Tallied, Leave, GoTo, TakeMap, Readers, SomeWritten, CachesFollowWrites
  <2>19. CASE DumpWhole(c)
    BY <2>19 DEF DumpWhole, GoTo, caches, Readers, CachesFollowWrites
  <2>20. CASE FallBack(c)
    BY <2>20 DEF FallBack, GoTo, caches, Readers, CachesFollowWrites
  <2>21. CASE ReadPage(c)
    BY <2>21 DEF ReadPage, GoTo, caches, Typed, Readers, CachesFollowWrites
  <2>22. CASE Save(c)
    BY <2>22 DEF Save, Leave, GoTo, caches, Readers, CachesFollowWrites
  <2>23. QED
    BY <1>2, <2>1, <2>2, <2>3, <2>4, <2>5, <2>6, <2>7, <2>8, <2>9, <2>10, <2>11, <2>12,
       <2>13, <2>14, <2>15, <2>16, <2>17, <2>18, <2>19, <2>20, <2>21, <2>22 DEF Steps
<1>3. CASE OtherWrites
  BY <1>3 DEF OtherWrites, RowsBecome, Readers, CachesFollowWrites
<1>4. CASE OtherAlters
  BY <1>4 DEF OtherAlters, StructureBecomes, Readers, CachesFollowWrites
<1>5. QED
  BY <1>1, <1>2, <1>3, <1>4 DEF Next, Steps

-----------------------------------------------------------------------------
(***************************************************************************)
(* Dumps.                                                                  *)
(***************************************************************************)

\* Sets of rows are finite.
LEMMA RowsFinite ==
    ASSUME NEW S \in SUBSET Rows
    PROVE  IsFiniteSet(S) /\ Cardinality(S) \in Nat /\ Cardinality(S) \in 0..MaxRow
<1>1. IsFiniteSet(Rows) /\ Cardinality(Rows) = MaxRow
  BY RowAssumption, FS_Interval DEF Rows
<1>2. IsFiniteSet(S) /\ Cardinality(S) =< Cardinality(Rows)
  BY <1>1, FS_Subset
<1>3. Cardinality(S) \in Nat
  BY <1>2, FS_CardinalityType
<1> QED
  BY <1>1, <1>2, <1>3, RowAssumption

\* Of some rows one is the first.
LEMMA SmallestRow ==
    ASSUME NEW S \in SUBSET Rows, S # {}
    PROVE  \E m \in S : \A q \in S : m =< q
<1> DEFINE less == {p \in Nat \X Nat : p[1] < p[2]}
<1>1. IsWellFoundedOn(less, Nat)
  BY NatLessThanWellFounded DEF OpToRel
<1>2. S \subseteq Nat
  BY RowAssumption DEF Rows
<1>3. PICK m \in S : \A q \in S : <<q, m>> \notin less
  BY <1>1, <1>2, WFMin, Zenon
<1>4. \A q \in S : ~(q < m)
  BY <1>2, <1>3
<1> QED
  BY <1>2, <1>4

\* Positions follow the order.
LEMMA PositionGrows ==
    ASSUME rows \in SUBSET Rows, NEW r \in rows, NEW q \in rows, r < q
    PROVE  Position(r) < Position(q)
<1> DEFINE upTo(x) == {y \in rows : y =< x}
<1>1. rows \subseteq Nat
  BY RowAssumption DEF Rows
<1>2. upTo(r) \subseteq upTo(q) /\ q \in upTo(q) /\ q \notin upTo(r)
  <2>1. ASSUME NEW y \in rows, y =< r
        PROVE  y =< q
    BY <1>1, <2>1
  <2>2. q =< q /\ ~(q =< r)
    BY <1>1
  <2> QED
    BY <2>1, <2>2
<1>3. IsFiniteSet(upTo(q)) /\ Cardinality(upTo(q)) \in Nat /\ Cardinality(upTo(r)) \in Nat
  BY RowsFinite
<1> HIDE DEF upTo
<1>4. Cardinality(upTo(r)) =< Cardinality(upTo(q)) /\ upTo(r) # upTo(q)
  BY <1>2, <1>3, FS_Subset
<1>5. Cardinality(upTo(r)) # Cardinality(upTo(q))
  BY <1>2, <1>3, FS_Subset
<1> QED
  BY <1>3, <1>4, <1>5 DEF Position, upTo

\* There is one row to a position.
LEMMA PositionsBound ==
    ASSUME rows \in SUBSET Rows, NEW page \in SUBSET rows, NEW a \in Nat, NEW b \in Nat, a =< b,
           \A r \in page : Position(r) \in (a + 1)..b
    PROVE  Cardinality(page) =< b - a
<1> DEFINE T == (a + 1)..b
           f == [r \in page |-> Position(r)]
<1>1. f \in [page -> T]
  OBVIOUS
<1>2. \A r, q \in page : f[r] = f[q] => r = q
  <2> SUFFICES ASSUME NEW r \in page, NEW q \in page, r # q
               PROVE  Position(r) # Position(q)
    OBVIOUS
  <2>1. r \in rows /\ q \in rows /\ r \in Nat /\ q \in Nat
    BY RowAssumption DEF Rows
  <2>2. Position(r) \in Nat /\ Position(q) \in Nat
    OBVIOUS
  <2>3. CASE r < q
    BY <2>1, <2>2, <2>3, PositionGrows
  <2>4. CASE q < r
    BY <2>1, <2>2, <2>4, PositionGrows
  <2> QED
    BY <2>1, <2>3, <2>4
<1>3. IsFiniteSet(T) /\ Cardinality(T) = b - a
  <2>1. a + 1 \in Int /\ b \in Int
    OBVIOUS
  <2>2. IsFiniteSet(T) /\ Cardinality(T) = IF a + 1 > b THEN 0 ELSE b - (a + 1) + 1
    BY <2>1, FS_Interval
  <2> HIDE DEF T
  <2> QED
    BY <2>2
<1> HIDE DEF f, T
<1>4. f \in Injection(page, T)
  BY <1>1, <1>2 DEF Injection, IsInjective
<1> QED
  BY <1>3, <1>4, FS_Injection

\* The first rows are those whose positions do not exceed their number.
LEMMA FirstByPosition ==
    ASSUME rows \in SUBSET Rows, NEW d, First(d), NEW r \in rows
    PROVE  r \in d <=> Position(r) =< Cardinality(d)
<1> DEFINE upTo == {q \in rows : q =< r}
<1>1. /\ IsFiniteSet(d) /\ Cardinality(d) \in Nat
      /\ IsFiniteSet(upTo) /\ Cardinality(upTo) \in Nat
  BY RowsFinite DEF First
<1>2. rows \subseteq Nat
  BY RowAssumption DEF Rows
<1>3. CASE r \in d
  <2>1. ASSUME NEW q \in rows, q =< r, q \notin d
        PROVE  FALSE
    BY <1>2, <1>3, <2>1 DEF First
  <2>2. upTo \subseteq d
    BY <2>1
  <2> QED
    BY <1>1, <1>3, <2>2, FS_Subset DEF Position
<1>4. CASE r \notin d
  <2>1. ASSUME NEW q \in d
        PROVE  q \in rows /\ q =< r
    BY <1>2, <1>4 DEF First
  <2>2. r =< r
    BY <1>2
  <2>3. d \cup {r} \subseteq upTo
    BY <2>1, <2>2
  <2>4. IsFiniteSet(d \cup {r}) /\ Cardinality(d \cup {r}) = Cardinality(d) + 1
    BY <1>1, <1>4, FS_AddElement
  <2>5. Cardinality(d \cup {r}) =< Cardinality(upTo)
    BY <1>1, <2>3, FS_Subset
  <2> QED
    BY <1>1, <1>4, <2>4, <2>5 DEF Position
<1> QED
  BY <1>3, <1>4

\* A page has at most PageSize rows; a full one lies within the table.
LEMMA PageFits ==
    ASSUME rows \in SUBSET Rows, NEW o \in Nat
    PROVE  /\ Cardinality(Page(o)) \in Nat /\ Cardinality(Page(o)) =< PageSize
           /\ Cardinality(Page(o)) >= PageSize => o + PageSize =< MaxRow
<1>1. Page(o) \subseteq rows /\ Cardinality(Page(o)) \in Nat
  BY RowsFinite DEF Page
<1>2. Cardinality(Page(o)) =< PageSize
  <2> DEFINE b == o + PageSize
  <2>1. b \in Nat /\ o =< b /\ b - o = PageSize
    BY PageAssumption
  <2>2. \A r \in Page(o) : Position(r) \in (o + 1)..b
    BY DEF Page, Position
  <2> HIDE DEF b
  <2>3. Cardinality(Page(o)) =< b - o
    BY <1>1, <2>1, <2>2, PositionsBound
  <2> QED
    BY <2>1, <2>3
<1>3. ASSUME Cardinality(Page(o)) >= PageSize
      PROVE  o + PageSize =< MaxRow
  <2>1. \A r \in Page(o) : Position(r) \in 0..MaxRow
    BY RowsFinite DEF Position
  <2>2. \A r \in Page(o) : Position(r) \in (o + 1)..(o + PageSize)
    BY DEF Page, Position
  <2>3. \A r \in Page(o) : Position(r) \in (o + 1)..MaxRow
    BY <2>1, <2>2, PageAssumption, RowAssumption
  <2>4. Page(o) # {}
    BY <1>1, <1>3, FS_EmptySet, PageAssumption
  <2>5. o =< MaxRow
    BY <2>3, <2>4, RowAssumption
  <2>6. Cardinality(Page(o)) =< MaxRow - o
    BY <1>1, <2>3, <2>5, PositionsBound, RowAssumption
  <2> QED
    BY <1>1, <1>3, <2>6, PageAssumption, RowAssumption
<1> QED
  BY <1>1, <1>2, <1>3

\* A page behind the first rows continues them, and a short one completes them.
LEMMA NextRows ==
    ASSUME rows \in SUBSET Rows, NEW d, First(d),
           NEW page, page = Page(Cardinality(d))
    PROVE  /\ First(d \cup page)
           /\ Cardinality(d \cup page) = Cardinality(d) + Cardinality(page)
           /\ Cardinality(page) < PageSize => d \cup page = rows
<1> DEFINE o == Cardinality(d)
           all == d \cup page
<1>1. /\ d \subseteq rows /\ page \subseteq rows /\ all \in SUBSET Rows
      /\ IsFiniteSet(d) /\ o \in Nat
      /\ IsFiniteSet(page) /\ Cardinality(page) \in Nat
      /\ IsFiniteSet(all) /\ Cardinality(all) \in Nat
  BY RowsFinite DEF First, Page
<1>2. \A r \in rows : Position(r) \in Nat
  BY RowsFinite DEF Position
<1>3. \A r \in rows : r \in d <=> Position(r) =< o
  BY FirstByPosition
<1>4. \A r \in rows : r \in page <=> Position(r) > o /\ Position(r) =< o + PageSize
  BY <1>1, <1>2, PageAssumption DEF Page, Position
<1>5. \A r \in rows : r \in all <=> Position(r) =< o + PageSize
  BY <1>1, <1>2, <1>3, <1>4, PageAssumption
<1>6. First(all)
  <2> SUFFICES ASSUME NEW r \in all, NEW q \in rows \ all
               PROVE  r < q
    BY <1>1 DEF First
  <2>1. Position(r) < Position(q)
    BY <1>1, <1>2, <1>5, PageAssumption
  <2>2. r \in Nat /\ q \in Nat
    BY <1>1, RowAssumption DEF Rows
  <2> QED
    BY <1>1, <1>2, <2>1, <2>2, PositionGrows
<1>7. Cardinality(all) = o + Cardinality(page)
  <2>1. d \cap page = {}
    BY <1>1, <1>2, <1>3, <1>4
  <2>2. Cardinality(all) = o + Cardinality(page) - Cardinality({})
    BY <1>1, <2>1, FS_Union
  <2> QED
    BY <1>1, <2>2, FS_EmptySet
<1>8. ASSUME Cardinality(page) < PageSize, rows \ all # {}
      PROVE  FALSE
  <2>1. PICK m \in rows \ all : \A q \in rows \ all : m =< q
    BY <1>8, SmallestRow
  <2>2. {q \in rows : q =< m} = all \cup {m}
    <3>1. rows \subseteq Nat /\ m \in rows
      BY RowAssumption DEF Rows
    <3>2. ASSUME NEW q \in rows, q =< m
          PROVE  q \in all \cup {m}
      BY <2>1, <3>1, <3>2
    <3>3. ASSUME NEW q \in all \cup {m}
          PROVE  q \in rows /\ q =< m
      <4>1. CASE q = m
        BY <3>1, <4>1
      <4>2. CASE q \in all
        BY <1>1, <1>6, <3>1, <4>2 DEF First
      <4> QED
        BY <3>3, <4>1, <4>2
    <3> QED
      BY <3>2, <3>3
  <2>3. Position(m) = Cardinality(all) + 1
    <3>1. m \notin all
      OBVIOUS
    <3> HIDE DEF all
    <3>2. Cardinality(all \cup {m}) = Cardinality(all) + 1
      BY <1>1, <3>1, FS_AddElement
    <3> QED
      BY <2>2, <3>2 DEF Position
  <2> QED
    BY <1>1, <1>5, <1>7, <1>8, <2>1, <2>3, PageAssumption
<1> QED
  BY <1>1, <1>6, <1>7, <1>8

\* What a step leaves alone stays as it was; rows that come or go make it raced.
LEMMA DumpsKeep ==
    ASSUME NEW d \in Calls, Dumping(d), stage'[d] = stage[d], offset'[d] = offset[d],
           dumped'[d] = dumped[d], raced[d] => raced'[d],
           rows' = rows \/ (stage[d] \in {"paging", "dumped"} => raced'[d])
    PROVE  Dumping(d)'
BY DEF Dumping, First

\* A call without a dump has none.
LEMMA NoDump ==
    ASSUME NEW d \in Calls, offset'[d] = 0, dumped'[d] = {},
           stage'[d] \notin {"paging", "dumped"}
    PROVE  Dumping(d)'
BY RowAssumption DEF Dumping

\* No step leaves the types of offsets and dumps.
LEMMA OffsetsStep ==
    Typed /\ Offsets /\ [Next]_vars => Offsets'
<1> SUFFICES ASSUME Typed, Offsets, [Next]_vars PROVE Offsets'
  OBVIOUS
<1>1. CASE UNCHANGED dump
  BY <1>1 DEF dump, Offsets
<1>2. ASSUME NEW c \in Calls,
             \/ Refused(c) \/ CountOnly(c) \/ Answered(c) \/ AnsweredInVain(c) \/ ReadRows(c)
             \/ Estimated(c) \/ Tallied(c) \/ Save(c)
      PROVE  Offsets'
  <2>1. Leave(c) \/ UNCHANGED dump
    BY <1>2
       DEF Refused, CountOnly, Answered, AnsweredInVain, ReadRows, Estimated, Tallied, Save,
           dump
  <2>2. CASE Leave(c)
    BY <2>2 DEF Leave, Offsets
  <2> QED
    BY <1>1, <2>1, <2>2
<1>3. ASSUME NEW c \in Calls, DumpWhole(c)
      PROVE  Offsets'
  BY <1>3 DEF DumpWhole, Typed, Offsets
<1>4. ASSUME NEW c \in Calls, ReadPage(c)
      PROVE  Offsets'
  <2>1. PICK page \in SUBSET rows :
          /\ dumped' = [dumped EXCEPT ![c] = @ \cup page]
          /\ \/ UNCHANGED offset
             \/ offset' = [offset EXCEPT ![c] = NextOffset(@, PageSize)]
    BY <1>4 DEF ReadPage
  <2>2. page \subseteq Rows /\ NextOffset(offset[c], PageSize) \in Nat
    BY PageAssumption DEF NextOffset, Typed, Offsets
  <2>3. dumped' \in [Calls -> SUBSET Rows]
    BY <2>1, <2>2 DEF Offsets
  <2>4. offset' \in [Calls -> Nat]
    BY <2>1, <2>2 DEF Offsets
  <2> QED
    BY <2>3, <2>4 DEF Offsets
<1> QED
  BY <1>1, <1>2, <1>3, <1>4
     DEF Next, vars, Begin, Resolve, Load, Loaded, CountMatching, UpdateMany, DeleteMany,
         WriteMatching, Insert, RunRaw, FailRaw, Tally, FallBack, OtherWrites, OtherAlters,
         dump

\* Of the calls d, the one that takes the step is taken case by case.
LEMMA DumpsStep ==
    Typed /\ Offsets /\ (\A d \in Calls : Dumping(d)) /\ [Next]_vars
        => (\A d \in Calls : Dumping(d))'
<1> SUFFICES ASSUME Typed, Offsets, \A d \in Calls : Dumping(d), [Next]_vars,
                    NEW d \in Calls
             PROVE  Dumping(d)'
  OBVIOUS
<1>1. CASE UNCHANGED vars
  BY <1>1, DumpsKeep DEF vars, request, dump
<1>2. ASSUME NEW c \in Calls, Steps(c) PROVE Dumping(d)'
  <2>1. CASE d # c
    <3>1. CASE Begin(c)
      BY <2>1, <3>1, DumpsKeep DEF Begin, GoTo, dump, Offsets
    <3>2. CASE Resolve(c)
      BY <2>1, <3>2, DumpsKeep DEF Resolve, Proceed, GoTo, caches, dump, Typed, Offsets
    <3>3. CASE Load(c)
      BY <2>1, <3>3, DumpsKeep DEF Load, GoTo, dump, Offsets
    <3>4. CASE Loaded(c)
      BY <2>1, <3>4, DumpsKeep DEF Loaded, Proceed, GoTo, dump, Typed, Offsets
    <3>5. CASE Refused(c)
      BY <2>1, <3>5, DumpsKeep DEF Refused, Leave, GoTo, Typed, Offsets
    <3>6. CASE CountMatching(c)
      BY <2>1, <3>6, DumpsKeep DEF CountMatching, GoTo, dump, Offsets
    <3>7. CASE CountOnly(c)
      BY <2>1, <3>7, DumpsKeep DEF CountOnly, Leave, GoTo, Typed, Offsets
    <3>8. CASE UpdateMany(c)
      BY <2>1, <3>8, DumpsKeep DEF UpdateMany, WriteMatching, Write, RowsBecome, GoTo, dump, Offsets
    <3>9. CASE DeleteMany(c)
      BY <2>1, <3>9, DumpsKeep DEF DeleteMany, WriteMatching, Write, RowsBecome, GoTo, dump, Offsets
    <3>10. CASE Insert(c)
      BY <2>1, <3>10, DumpsKeep DEF Insert, Write, RowsBecome, GoTo, dump, Offsets
    <3>11. CASE RunRaw(c)
      BY <2>1, <3>11, DumpsKeep DEF RunRaw, Write, RowsBecome, GoTo, dump, Offsets
    <3>12. CASE FailRaw(c)
      BY <2>1, <3>12, DumpsKeep DEF FailRaw, GoTo, dump, Offsets
    <3>13. CASE Answered(c)
      BY <2>1, <3>13, DumpsKeep DEF Answered, Leave, GoTo, Typed, Offsets
    <3>14. CASE AnsweredInVain(c)
      BY <2>1, <3>14, DumpsKeep DEF AnsweredInVain, Leave, GoTo, Typed, Offsets
    <3>15. CASE ReadRows(c)
      BY <2>1, <3>15, DumpsKeep DEF ReadRows, Leave, GoTo, Typed, Offsets
    <3>16. CASE Estimated(c)
      BY <2>1, <3>16, DumpsKeep DEF Estimated, Leave, GoTo, dump, Typed, Offsets
    <3>17. CASE Tally(c)
      BY <2>1, <3>17, DumpsKeep DEF Tally, GoTo, dump, Offsets
    <3>18. CASE Tallied(c)
      BY <2>1, <3>18, DumpsKeep DEF Tallied, Leave, GoTo, Typed, Offsets
    <3>19. CASE DumpWhole(c)
      BY <2>1, <3>19, DumpsKeep DEF DumpWhole, GoTo, Typed, Offsets
    <3>20. CASE FallBack(c)
      BY <2>1, <3>20, DumpsKeep DEF FallBack, GoTo, dump, Offsets
    <3>21. CASE ReadPage(c)
      BY <2>1, <3>21, DumpsKeep DEF ReadPage, GoTo, Typed, Offsets
    <3>22. CASE Save(c)
      BY <2>1, <3>22, DumpsKeep DEF Save, Leave, GoTo, Typed, Offsets
    <3>23. QED
      BY <1>2, <3>1, <3>2, <3>3, <3>4, <3>5, <3>6, <3>7, <3>8, <3>9, <3>10,
         <3>11, <3>12, <3>13, <3>14, <3>15, <3>16, <3>17, <3>18, <3>19, <3>20,
         <3>21, <3>22 DEF Steps
  <2>2. CASE d = c
    <3>1. CASE Begin(c)
      BY <2>2, <3>1, NoDump DEF Begin, GoTo, dump, Dumping, Offsets, Typed
    <3>2. CASE Resolve(c)
      BY <2>2, <3>2, NoDump DEF Resolve, Proceed, GoTo, caches, dump, Typed, Dumping, Offsets, Typed
    <3>3. CASE Load(c)
      BY <2>2, <3>3, NoDump DEF Load, GoTo, dump, Dumping, Offsets, Typed
    <3>4. CASE Loaded(c)
      BY <2>2, <3>4, NoDump DEF Loaded, Proceed, GoTo, dump, Typed, Dumping, Offsets, Typed
    <3>5. CASE Refused(c)
      BY <2>2, <3>5, NoDump DEF Refused, Leave, GoTo, Typed, Dumping, Offsets, Typed
    <3>6. CASE CountMatching(c)
      BY <2>2, <3>6, NoDump DEF CountMatching, GoTo, dump, Dumping, Offsets, Typed
    <3>7. CASE CountOnly(c)
      BY <2>2, <3>7, NoDump DEF CountOnly, Leave, GoTo, Typed, Dumping, Offsets, Typed
    <3>8. CASE UpdateMany(c)
      BY <2>2, <3>8, NoDump DEF UpdateMany, WriteMatching, Write, RowsBecome, GoTo, dump, Dumping, Offsets, Typed
    <3>9. CASE DeleteMany(c)
      BY <2>2, <3>9, NoDump DEF DeleteMany, WriteMatching, Write, RowsBecome, GoTo, dump, Dumping, Offsets, Typed
    <3>10. CASE Insert(c)
      BY <2>2, <3>10, NoDump DEF Insert, Write, RowsBecome, GoTo, dump, Dumping, Offsets, Typed
    <3>11. CASE RunRaw(c)
      BY <2>2, <3>11, NoDump DEF RunRaw, Write, RowsBecome, GoTo, dump, Dumping, Offsets, Typed
    <3>12. CASE FailRaw(c)
      BY <2>2, <3>12, NoDump DEF FailRaw, GoTo, dump, Dumping, Offsets, Typed
    <3>13. CASE Answered(c)
      BY <2>2, <3>13, NoDump DEF Answered, Leave, GoTo, Typed, Dumping, Offsets, Typed
    <3>14. CASE AnsweredInVain(c)
      BY <2>2, <3>14, NoDump DEF AnsweredInVain, Leave, GoTo, Typed, Dumping, Offsets, Typed
    <3>15. CASE ReadRows(c)
      BY <2>2, <3>15, NoDump DEF ReadRows, Leave, GoTo, Typed, Dumping, Offsets, Typed
    <3>16. CASE Estimated(c)
      BY <2>2, <3>16, NoDump DEF Estimated, Leave, GoTo, dump, Typed, Dumping, Offsets, Typed
    <3>17. CASE Tally(c)
      BY <2>2, <3>17, NoDump DEF Tally, GoTo, dump, Dumping, Offsets, Typed
    <3>18. CASE Tallied(c)
      BY <2>2, <3>18, NoDump DEF Tallied, Leave, GoTo, Typed, Dumping, Offsets, Typed
    <3>19. CASE DumpWhole(c)
      BY <2>2, <3>19 DEF DumpWhole, GoTo, Typed, Dumping, Offsets
    <3>20. CASE FallBack(c)
      <4>1. /\ stage[c] = "dumping" /\ stage'[c] = "paging" /\ rows' = rows
            /\ offset' = offset /\ dumped' = dumped
        BY <3>20 DEF FallBack, GoTo, dump, Typed
      <4>2. offset[c] = 0 /\ dumped[c] = {}
        BY <2>2, <4>1 DEF Dumping
      <4>3. First({}) /\ Cardinality({}) = 0
        BY FS_EmptySet DEF First
      <4> QED
        BY <2>2, <4>1, <4>2, <4>3 DEF Dumping, First
    <3>21. CASE ReadPage(c)
      <4>1. PICK page \in SUBSET rows :
              /\ IF raced[c] THEN Cardinality(page) = Cardinality(Page(offset[c]))
                             ELSE page = Page(offset[c])
              /\ dumped' = [dumped EXCEPT ![c] = @ \cup page]
              /\ IF Cardinality(page) < PageSize
                   THEN GoTo(c, "dumped") /\ UNCHANGED offset
                   ELSE /\ offset' = [offset EXCEPT ![c] = NextOffset(@, PageSize)]
                        /\ UNCHANGED stage
        BY <3>21 DEF ReadPage
      <4>2. stage[c] = "paging" /\ rows' = rows /\ raced' = raced
        BY <3>21 DEF ReadPage
      <4>3. /\ dumped'[c] = dumped[c] \cup page /\ dumped'[c] \subseteq Rows
            /\ rows \in SUBSET Rows /\ offset[c] \in Nat
        BY <4>1 DEF Typed, Offsets
      <4>4. /\ Cardinality(page) = Cardinality(Page(offset[c]))
            /\ Cardinality(page) \in Nat /\ Cardinality(page) =< PageSize
            /\ Cardinality(page) >= PageSize => offset[c] + PageSize =< MaxRow
        BY <4>1, <4>3, PageFits
      <4>5. ~raced[c] => /\ First(dumped'[c])
                         /\ Cardinality(dumped'[c]) = offset[c] + Cardinality(page)
                         /\ Cardinality(page) < PageSize => dumped'[c] = rows
        <5> SUFFICES ASSUME ~raced[c]
                     PROVE  /\ First(dumped'[c])
                            /\ Cardinality(dumped'[c]) = offset[c] + Cardinality(page)
                            /\ Cardinality(page) < PageSize => dumped'[c] = rows
          OBVIOUS
        <5>1. First(dumped[c]) /\ Cardinality(dumped[c]) = offset[c]
          BY <2>2, <4>2 DEF Dumping
        <5>2. page = Page(Cardinality(dumped[c]))
          BY <4>1, <5>1
        <5> QED
          BY <4>3, <5>1, <5>2, NextRows
      <4>6. CASE Cardinality(page) < PageSize
        <5>1. stage'[c] = "dumped" /\ offset' = offset
          BY <4>1, <4>6 DEF GoTo, Typed
        <5> QED
          BY <2>2, <4>2, <4>3, <4>5, <4>6, <5>1 DEF Dumping
      <4>7. CASE ~(Cardinality(page) < PageSize)
        <5>1. stage' = stage /\ offset'[c] = offset[c] + PageSize
          BY <4>1, <4>7 DEF NextOffset, Offsets
        <5>2. Cardinality(page) = PageSize /\ offset'[c] \in 0..MaxRow
          BY <4>3, <4>4, <4>7, <5>1, PageAssumption, RowAssumption
        <5> QED
          BY <2>2, <4>2, <4>3, <4>5, <5>1, <5>2 DEF Dumping, First
      <4> QED
        BY <4>6, <4>7
    <3>22. CASE Save(c)
      BY <2>2, <3>22, NoDump DEF Save, Leave, GoTo, Typed, Dumping, Offsets, Typed
    <3>23. QED
      BY <1>2, <3>1, <3>2, <3>3, <3>4, <3>5, <3>6, <3>7, <3>8, <3>9, <3>10,
         <3>11, <3>12, <3>13, <3>14, <3>15, <3>16, <3>17, <3>18, <3>19, <3>20,
         <3>21, <3>22 DEF Steps
  <2>3. QED
    BY <2>1, <2>2
<1>3. CASE OtherWrites
  BY <1>3, DumpsKeep DEF OtherWrites, RowsBecome, dump
<1>4. CASE OtherAlters
  BY <1>4, DumpsKeep DEF OtherAlters, dump
<1>5. QED
  BY <1>1, <1>2, <1>3, <1>4 DEF Next, Steps

-----------------------------------------------------------------------------
(***************************************************************************)
(* Theorems.                                                               *)
(***************************************************************************)

\* The types, what is certain of a call that will write or has written, and who holds which
\* count: of every server, whatever its calls and other programs do.
THEOREM Invariance == Spec => []IInv
<1>1. Init => IInv
  <2> SUFFICES ASSUME Init PROVE IInv
    OBVIOUS
  <2>1. Typed
    BY DEF Init, Typed, Tool, Stage, Filter, Age
  <2>2. \A c \in Calls : Underway(c) /\ Written(c)
    BY DEF Init, Underway, Written
  <2>3. Readers /\ CachesFollowWrites /\ Cached
    BY DEF Init, Readers, CachesFollowWrites, Cached, Structure, Counts
  <2>4. Offsets /\ \A c \in Calls : Dumping(c)
    BY RowAssumption DEF Init, Offsets, Dumping
  <2> QED
    BY <2>1, <2>2, <2>3, <2>4 DEF IInv
<1>2. IInv /\ [Next]_vars => IInv'
  BY TypedStep, WritesStep, CachedStep, ReadersStep, CachesStep, OffsetsStep, DumpsStep
     DEF IInv
<1> QED
  BY <1>1, <1>2, PTL DEF Spec

\* Every variable keeps its type; an offset never leaves the table.
THEOREM TypeCorrect == Spec => []TypeOK
<1>1. IInv => TypeOK
  <2> SUFFICES ASSUME IInv PROVE TypeOK
    OBVIOUS
  <2>1. offset \in [Calls -> 0..MaxRow]
    BY DEF IInv, Offsets, Dumping
  <2> QED
    BY <2>1 DEF IInv, Typed, Cached, Offsets, TypeOK
<1> QED
  BY <1>1, Invariance, PTL

\* A structured write touches only what its arguments name, or all of it on purpose, and
\* nothing of a blocked table or of a read-only server: the arguments are read, and access
\* is checked, steps before the statement that has to keep to them.
THEOREM WritesInScope == Spec => []WritesStayInScope
<1>1. IInv => WritesStayInScope
  BY DEF IInv, Written, InScope, WritesStayInScope
<1> QED
  BY <1>1, Invariance, PTL

\* A write of more rows than the threshold warns, unless rows came or went after the count:
\* no other interleaving of the server's calls separates the two.
THEOREM WarnedOrRaced == Spec => []WarnedUnlessRaced
<1>1. IInv => WarnedUnlessRaced
  BY DEF IInv, Written, Warned, Warns, WarnedUnlessRaced
<1> QED
  BY <1>1, Invariance, PTL

\* What is cached is never behind a write of this server that has been answered, but for a
\* structure that was being read meanwhile.
THEOREM CachesFollow == Spec => []CachesFollowWrites
<1>1. IInv => CachesFollowWrites
  BY DEF IInv
<1> QED
  BY <1>1, Invariance, PTL

\* The built-in dump is the table, and each of its pages the next rows, for any size of
\* page and of table: unless rows came or went while it was read, or the order it is read
\* in is not unique.
THEOREM DumpsMatch == Spec => []DumpMatchesTable
<1>1. IInv => DumpMatchesTable
  BY DEF IInv, Dumping, First, DumpMatchesTable
<1> QED
  BY <1>1, Invariance, PTL

-----------------------------------------------------------------------------
(***************************************************************************)
(* Statements. First the sequences: what FlattenSeq puts where. It is      *)
(* defined by a recursive function, whose existence and uniqueness are     *)
(* shown with the least number at which they would fail.                   *)
(***************************************************************************)

\* The function FlattenSeq takes the last value of.
Flattening(s) ==
    CHOOSE f : f = [i \in 1..Len(s) |-> IF i = 1 THEN s[i] ELSE f[i - 1] \o s[i]]

\* Where an induction over numbers would fail there is a least number.
LEMMA LeastNumber ==
    ASSUME NEW N \in SUBSET Nat, N # {}
    PROVE  \E n \in N : \A m \in N : n <= m
<1> DEFINE less == {p \in Nat \X Nat : p[1] < p[2]}
<1>1. IsWellFoundedOn(less, Nat)
  BY NatLessThanWellFounded DEF OpToRel
<1>2. PICK n \in N : \A m \in N : <<m, n>> \notin less
  BY <1>1, WFMin, Zenon
<1>3. \A m \in N : m \in Nat /\ n \in Nat /\ ~(m < n)
  BY <1>2
<1> QED BY <1>3

\* The sequences are joined one by one.
IsFlattening(f, s, n, S) ==
    /\ f \in [1..n -> Seq(S)]
    /\ \A i \in 1..n : f[i] = IF i = 1 THEN s[i] ELSE f[i - 1] \o s[i]

\* There is a function that joins them.
LEMMA FlatteningExists ==
    ASSUME NEW S, NEW s \in Seq(Seq(S))
    PROVE  \E f : IsFlattening(f, s, Len(s), S)
<1> DEFINE Missing == {n \in Nat : n <= Len(s) /\ ~ \E f : IsFlattening(f, s, n, S)}
<1>1. SUFFICES ASSUME Missing # {}
               PROVE  FALSE
  <2>1. Len(s) \in Nat /\ Len(s) <= Len(s)
    OBVIOUS
  <2>2. Len(s) \in Missing => Missing # {}
    OBVIOUS
  <2>3. Len(s) \notin Missing => \E f : IsFlattening(f, s, Len(s), S)
    BY <2>1
  <2> HIDE DEF Missing
  <2> QED BY <1>1, <2>2, <2>3
<1>2. PICK n \in Missing : \A m \in Missing : n <= m
  <2>1. Missing \in SUBSET Nat
    OBVIOUS
  <2> HIDE DEF Missing
  <2> QED BY <1>1, <2>1, LeastNumber
<1>3. n \in Nat /\ n <= Len(s) /\ ~ \E f : IsFlattening(f, s, n, S)
  BY <1>2
<1>4. CASE n = 0
  <2>1. IsFlattening(<<>>, s, 0, S)
    BY DEF IsFlattening
  <2> QED BY <1>3, <1>4, <2>1
<1>5. CASE n # 0
  <2>1. n - 1 \in Nat /\ n - 1 <= Len(s) /\ ~(n <= n - 1)
    BY <1>3, <1>5
  <2>2. n - 1 \notin Missing
    BY <1>2, <2>1
  <2>3. PICK f : IsFlattening(f, s, n - 1, S)
    BY <2>1, <2>2
  <2> DEFINE g == [i \in 1..n |-> IF i = n THEN IF n = 1 THEN s[n] ELSE f[n - 1] \o s[n] ELSE f[i]]
  <2>4. s[n] \in Seq(S) /\ (n # 1 => f[n - 1] \in Seq(S))
    BY <1>3, <1>5, <2>3 DEF IsFlattening
  <2>5. ASSUME NEW i \in 1..n
        PROVE  g[i] \in Seq(S) /\ g[i] = IF i = 1 THEN s[i] ELSE g[i - 1] \o s[i]
    <3>1. CASE i = n
      BY <1>3, <1>5, <2>4, <3>1
    <3>2. CASE i # n
      <4>1. i \in 1..(n - 1) /\ i \in 1..n /\ (i # 1 => i - 1 \in 1..n /\ i - 1 # n)
        BY <1>3, <3>2
      <4>2. f[i] \in Seq(S) /\ f[i] = IF i = 1 THEN s[i] ELSE f[i - 1] \o s[i]
        BY <2>3, <4>1 DEF IsFlattening
      <4>3. g[i] = f[i] /\ (i # 1 => g[i - 1] = f[i - 1])
        BY <3>2, <4>1
      <4> QED BY <4>2, <4>3
    <3> QED BY <3>1, <3>2
  <2>6. IsFlattening(g, s, n, S)
    BY <2>5 DEF IsFlattening
  <2> QED BY <1>3, <2>6
<1> QED BY <1>4, <1>5

\* FlattenSeq's function is one.
LEMMA FlatteningIs ==
    ASSUME NEW S, NEW s \in Seq(Seq(S))
    PROVE  IsFlattening(Flattening(s), s, Len(s), S)
<1>1. PICK f : IsFlattening(f, s, Len(s), S)
  BY FlatteningExists
<1>2. f = [i \in 1..Len(s) |-> IF i = 1 THEN s[i] ELSE f[i - 1] \o s[i]]
  BY <1>1 DEF IsFlattening
<1>3. Flattening(s) = [i \in 1..Len(s) |-> IF i = 1 THEN s[i] ELSE Flattening(s)[i - 1] \o s[i]]
  BY <1>2 DEF Flattening
<1> DEFINE g == Flattening(s)
<1>4. DOMAIN g = 1..Len(s) /\ \A i \in 1..Len(s) : g[i] = IF i = 1 THEN s[i] ELSE g[i - 1] \o s[i]
  BY <1>3
<1> HIDE DEF g
<1> DEFINE Other == {i \in Nat : i \in 1..Len(s) /\ g[i] # f[i]}
<1>5. Other = {}
  <2> SUFFICES ASSUME Other # {} PROVE FALSE
    OBVIOUS
  <2>1. Other \in SUBSET Nat
    OBVIOUS
  <2>2. PICK i \in Other : \A j \in Other : i <= j
    <3> HIDE DEF Other
    <3> QED BY <2>1, LeastNumber
  <2>3. i \in 1..Len(s) /\ g[i] # f[i]
    BY <2>2
  <2>4. i # 1
    BY <1>1, <1>4, <2>3 DEF IsFlattening
  <2>5. i - 1 \in 1..Len(s) /\ i - 1 \in Nat /\ ~(i <= i - 1)
    BY <2>3, <2>4
  <2>6. g[i - 1] = f[i - 1]
    BY <2>2, <2>5
  <2> QED BY <1>1, <1>4, <2>3, <2>4, <2>6 DEF IsFlattening
<1>6. \A i \in 1..Len(s) : g[i] = f[i]
  BY <1>5
<1>7. \A i \in 1..Len(s) : g[i] \in Seq(S)
  BY <1>1, <1>6 DEF IsFlattening
<1>8. g = [i \in 1..Len(s) |-> IF i = 1 THEN s[i] ELSE g[i - 1] \o s[i]]
  BY <1>3 DEF g
<1>9. g = [i \in 1..Len(s) |-> g[i]]
  BY <1>8
<1>10. g \in [1..Len(s) -> Seq(S)]
  BY <1>7, <1>9
<1> QED BY <1>4, <1>10 DEF IsFlattening, g


\* FlattenSeq gives its last value.
LEMMA FlattenIs ==
    ASSUME NEW S, NEW s \in Seq(Seq(S)), s # <<>>
    PROVE  /\ IsFlattening(Flattening(s), s, Len(s), S)
           /\ FlattenSeq(s) = Flattening(s)[Len(s)]
<1>1. Len(s) # 0
  OBVIOUS
<1>2. FlattenSeq(s) = Flattening(s)[Len(s)]
  BY <1>1 DEF FlattenSeq, Flattening
<1> QED BY <1>2, FlatteningIs

BeginAlike(s, t, n) == \A i \in 1..n : s[i] = t[i]

\* Two sequences that begin alike are joined alike so far.
LEMMA SameFlattening ==
    ASSUME NEW S, NEW s, NEW t, NEW f, NEW g, NEW n \in Nat, NEW m \in Nat, n <= m,
           IsFlattening(f, s, n, S), IsFlattening(g, t, m, S),
           BeginAlike(s, t, n)
    PROVE  BeginAlike(f, g, n)
<1> DEFINE Other == {i \in Nat : i \in 1..n /\ g[i] # f[i]}
<1> SUFFICES ASSUME Other # {} PROVE FALSE
  BY DEF BeginAlike
<1>1. Other \in SUBSET Nat
  OBVIOUS
<1>2. PICK i \in Other : \A j \in Other : i <= j
  <2> HIDE DEF Other
  <2> QED BY <1>1, LeastNumber
<1>3. i \in 1..n /\ i \in 1..m /\ g[i] # f[i]
  BY <1>2
<1>4. i # 1
  <2>1. i = 1 => f[i] = s[i] /\ g[i] = t[i]
    BY <1>3 DEF IsFlattening
  <2>2. s[i] = t[i]
    BY <1>3 DEF BeginAlike
  <2> QED BY <1>3, <2>1, <2>2
<1>5. i - 1 \in 1..n /\ i - 1 \in Nat /\ ~(i <= i - 1)
  BY <1>3, <1>4
<1>6. g[i - 1] = f[i - 1]
  BY <1>2, <1>5
<1>7. s[i] = t[i] /\ f[i] = f[i - 1] \o s[i]
  BY <1>3, <1>4 DEF IsFlattening, BeginAlike
<1>8. g[i] = g[i - 1] \o t[i]
  BY <1>3, <1>4 DEF IsFlattening
<1> QED BY <1>3, <1>6, <1>7, <1>8

\* The first n of the sequences joined.
Joined(s, n) == FlattenSeq([i \in 1..n |-> s[i]])

\* They are joined one after the other.
LEMMA JoinedStep ==
    ASSUME NEW S, NEW s \in Seq(Seq(S))
    PROVE  /\ Joined(s, 0) = <<>>
           /\ Joined(s, Len(s)) = FlattenSeq(s)
           /\ \A n \in 0..Len(s) : Joined(s, n) \in Seq(S)
           /\ \A n \in 1..Len(s) : Joined(s, n) = Joined(s, n - 1) \o s[n]
<1> DEFINE p(n) == [i \in 1..n |-> s[i]]
<1>1. \A n \in 0..Len(s) : p(n) \in Seq(Seq(S)) /\ Len(p(n)) = n
  OBVIOUS
<1>2. Joined(s, 0) = <<>>
  BY DEF Joined, FlattenSeq
<1>3. p(Len(s)) = s
  OBVIOUS
<1>4. ASSUME NEW n \in 1..Len(s)
      PROVE  /\ IsFlattening(Flattening(p(n)), p(n), n, S)
             /\ Joined(s, n) = Flattening(p(n))[n]
  <2>1. p(n) \in Seq(Seq(S)) /\ Len(p(n)) = n /\ p(n) # <<>>
    BY <1>1
  <2> HIDE DEF p
  <2>2. Joined(s, n) = FlattenSeq(p(n))
    BY DEF Joined, p
  <2> QED BY <2>1, <2>2, FlattenIs
<1>5. \A n \in 1..Len(s) : Joined(s, n) \in Seq(S)
  <2> TAKE n \in 1..Len(s)
  <2> HIDE DEF p
  <2>1. Flattening(p(n)) \in [1..n -> Seq(S)] /\ n \in 1..n
    BY <1>4 DEF IsFlattening
  <2> QED BY <1>4, <2>1
<1>6. \A n \in 0..Len(s) : Joined(s, n) \in Seq(S)
  <2> TAKE n \in 0..Len(s)
  <2>1. n = 0 \/ n \in 1..Len(s)
    OBVIOUS
  <2>2. <<>> \in Seq(S)
    OBVIOUS
  <2> HIDE DEF p
  <2> QED BY <1>2, <1>5, <2>1, <2>2
<1>7. ASSUME NEW n \in 1..Len(s)
      PROVE  Joined(s, n) = Joined(s, n - 1) \o s[n]
  <2>1. CASE n = 1
    <3>1. Joined(s, 1) = p(1)[1]
      <4>1. Joined(s, 1) = Flattening(p(1))[1] /\ IsFlattening(Flattening(p(1)), p(1), 1, S)
        BY <1>4, <2>1
      <4>2. 1 \in 1..1
        OBVIOUS
      <4> HIDE DEF p
      <4> QED BY <4>1, <4>2 DEF IsFlattening
    <3>2. p(1)[1] = s[1] /\ s[1] \in Seq(S)
      BY <2>1
    <3> QED BY <1>2, <2>1, <3>1, <3>2
  <2>2. CASE n # 1
    <3>1. n - 1 \in 1..Len(s) /\ n - 1 \in Nat /\ n \in Nat /\ n - 1 <= n /\ n - 1 \in 1..n
      BY <2>2
    <3>2. \A i \in 1..(n - 1) : p(n - 1)[i] = p(n)[i]
      BY <3>1
    <3>3. p(n)[n] = s[n]
      OBVIOUS
    <3> HIDE DEF p
    <3>4. Flattening(p(n - 1))[n - 1] = Flattening(p(n))[n - 1]
      <4>1. IsFlattening(Flattening(p(n - 1)), p(n - 1), n - 1, S)
        BY <1>4, <3>1
      <4>2. \A i \in 1..(n - 1) : Flattening(p(n - 1))[i] = Flattening(p(n))[i]
        <5>1. IsFlattening(Flattening(p(n)), p(n), n, S)
          BY <1>4
        <5> DEFINE f == Flattening(p(n - 1))
                   g == Flattening(p(n))
                   u == p(n - 1)
                   v == p(n)
                   m == n - 1
        <5>2. /\ IsFlattening(f, u, m, S) /\ IsFlattening(g, v, n, S)
              /\ m \in Nat /\ n \in Nat /\ m <= n /\ BeginAlike(u, v, m)
          BY <3>1, <3>2, <4>1, <5>1 DEF BeginAlike
        <5> HIDE DEF f, g, u, v, m
        <5>3. BeginAlike(f, g, m)
          BY <5>2, SameFlattening
        <5> QED BY <5>3 DEF f, g, m, BeginAlike
      <4>3. n - 1 \in 1..(n - 1)
        BY <3>1
      <4> QED BY <4>2, <4>3
    <3>5. Flattening(p(n))[n] = Flattening(p(n))[n - 1] \o p(n)[n]
      <4>1. n \in 1..n
        OBVIOUS
      <4> QED BY <1>4, <2>2, <4>1 DEF IsFlattening
    <3> QED BY <1>4, <3>1, <3>3, <3>4, <3>5
  <2> QED BY <2>1, <2>2
<1> HIDE DEF p
<1>8. Joined(s, Len(s)) = FlattenSeq(s)
  BY <1>3 DEF Joined, p
<1> QED BY <1>2, <1>6, <1>7, <1>8

\* An element of the i-th sequence is behind those of the sequences before it, and there
\* are no other elements.
LEMMA JoinedPlaces ==
    ASSUME NEW S, NEW s \in Seq(Seq(S))
    PROVE  \A n \in 0..Len(s) :
             /\ \A i \in 1..n : \A k \in 1..Len(s[i]) :
                    /\ Len(Joined(s, i - 1)) + k \in 1..Len(Joined(s, n))
                    /\ Joined(s, n)[Len(Joined(s, i - 1)) + k] = s[i][k]
             /\ \A m \in 1..Len(Joined(s, n)) :
                    \E i \in 1..n : \E k \in 1..Len(s[i]) :
                        m = Len(Joined(s, i - 1)) + k
<1> DEFINE Placed(n) ==
             /\ \A i \in 1..n : \A k \in 1..Len(s[i]) :
                    /\ Len(Joined(s, i - 1)) + k \in 1..Len(Joined(s, n))
                    /\ Joined(s, n)[Len(Joined(s, i - 1)) + k] = s[i][k]
             /\ \A m \in 1..Len(Joined(s, n)) :
                    \E i \in 1..n : \E k \in 1..Len(s[i]) :
                        m = Len(Joined(s, i - 1)) + k
<1> DEFINE Other == {n \in Nat : n \in 0..Len(s) /\ ~Placed(n)}
<1> SUFFICES ASSUME Other # {} PROVE FALSE
  <2>1. Other = {} => \A n \in 0..Len(s) : Placed(n)
    <3> HIDE DEF Placed
    <3> QED OBVIOUS
  <2> HIDE DEF Other
  <2> QED BY <2>1
<1>1. Other \in SUBSET Nat
  OBVIOUS
<1>2. PICK n \in Other : \A j \in Other : n <= j
  <2> HIDE DEF Other
  <2> QED BY <1>1, LeastNumber
<1>3. n \in 0..Len(s) /\ ~Placed(n)
  BY <1>2
<1>4. n # 0
  <2>1. Joined(s, 0) = <<>>
    BY JoinedStep
  <2>2. Placed(0)
    BY <2>1
  <2> QED BY <1>3, <2>2
<1>5. n - 1 \in 0..Len(s) /\ n - 1 \in Nat /\ ~(n <= n - 1) /\ n \in 1..Len(s)
  BY <1>3, <1>4
<1>6. Placed(n - 1)
  BY <1>2, <1>5
<1>7. /\ Joined(s, n) = Joined(s, n - 1) \o s[n]
      /\ Joined(s, n - 1) \in Seq(S) /\ Joined(s, n) \in Seq(S) /\ s[n] \in Seq(S)
  <2>1. /\ \A j \in 0..Len(s) : Joined(s, j) \in Seq(S)
        /\ \A j \in 1..Len(s) : Joined(s, j) = Joined(s, j - 1) \o s[j]
    BY JoinedStep
  <2>2. s[n] \in Seq(S)
    BY <1>5
  <2> HIDE DEF Other, Placed
  <2> QED BY <1>3, <1>5, <2>1, <2>2
<1>8. /\ Len(Joined(s, n)) = Len(Joined(s, n - 1)) + Len(s[n])
      /\ \A m \in 1..Len(Joined(s, n - 1)) : Joined(s, n)[m] = Joined(s, n - 1)[m]
      /\ \A k \in 1..Len(s[n]) : Joined(s, n)[Len(Joined(s, n - 1)) + k] = s[n][k]
      /\ Len(Joined(s, n - 1)) \in Nat /\ Len(s[n]) \in Nat
  BY <1>7
<1> DEFINE had == Len(Joined(s, n - 1))
           has == Len(Joined(s, n))
<1>81. has = had + Len(s[n]) /\ had \in Nat /\ Len(s[n]) \in Nat /\ has \in Nat
  <2> HIDE DEF Placed, Other
  <2>1. has \in Nat
    <3>1. Joined(s, n) \in Seq(S)
      BY <1>7
    <3> QED BY <3>1, LenProperties
  <2> QED BY <1>8, <2>1
<1>9. ASSUME NEW i \in 1..n, NEW k \in 1..Len(s[i])
      PROVE  /\ Len(Joined(s, i - 1)) + k \in 1..Len(Joined(s, n))
             /\ Joined(s, n)[Len(Joined(s, i - 1)) + k] = s[i][k]
  <2>1. CASE i = n
    BY <1>8, <2>1
  <2>2. CASE i # n
    <3>1. i \in 1..(n - 1)
      BY <1>5, <2>2
    <3>2. /\ Len(Joined(s, i - 1)) + k \in 1..Len(Joined(s, n - 1))
          /\ Joined(s, n - 1)[Len(Joined(s, i - 1)) + k] = s[i][k]
      BY <1>6, <3>1
    <3> HIDE DEF Placed, Other
    <3>3. Joined(s, n)[Len(Joined(s, i - 1)) + k] = Joined(s, n - 1)[Len(Joined(s, i - 1)) + k]
      BY <1>8, <3>2
    <3>4. Len(Joined(s, i - 1)) + k \in 1..had
      BY <3>2
    <3> HIDE DEF had, has
    <3>5. Len(Joined(s, i - 1)) + k \in 1..has
      BY <1>81, <3>4
    <3> QED BY <3>2, <3>3, <3>5 DEF has
  <2> QED BY <2>1, <2>2
<1>10. ASSUME NEW m \in 1..Len(Joined(s, n))
       PROVE  \E i \in 1..n : \E k \in 1..Len(s[i]) : m = Len(Joined(s, i - 1)) + k
  <2>1. CASE m <= Len(Joined(s, n - 1))
    <3>1. m \in 1..Len(Joined(s, n - 1))
      BY <1>8, <2>1
    <3>2. PICK i \in 1..(n - 1) : \E k \in 1..Len(s[i]) : m = Len(Joined(s, i - 1)) + k
      BY <1>6, <3>1
    <3>3. i \in 1..n
      BY <1>5
    <3> QED BY <3>2, <3>3
  <2>2. CASE ~(m <= Len(Joined(s, n - 1)))
    <3>1. m - Len(Joined(s, n - 1)) \in 1..Len(s[n])
      <4> HIDE DEF Placed, Other
      <4>1. m \in 1..has /\ ~(m <= had)
        BY <2>2
      <4>2. m - had \in 1..Len(s[n])
        <5> HIDE DEF had, has
        <5> QED BY <1>81, <4>1
      <4> QED BY <4>2
    <3>2. m = Len(Joined(s, n - 1)) + (m - Len(Joined(s, n - 1)))
      BY <1>8
    <3>3. n \in 1..n
      BY <1>5
    <3> QED BY <3>1, <3>2, <3>3
  <2> QED BY <2>1, <2>2
<1> HIDE DEF Placed
<1>11. Placed(n)
  BY <1>9, <1>10 DEF Placed
<1> QED BY <1>3, <1>11

-----------------------------------------------------------------------------
(***************************************************************************)
(* The parameters. A test is legal if it has as many operands as its       *)
(* operator takes; of legal entries buildWhere makes clauses whose         *)
(* parameters are, wherever they begin, the operands.                      *)
(***************************************************************************)

FlatTest ==
    {t \in [column : {"id", "v"}, op : Operators \cup {"isNull", "in", "notIn"},
            operands : Seq(Operand)] : Test(t.op, t.operands) \in LegalTest}

\* The tests of an entry with their column, and those of all entries.
TestsOf(e) ==
    [j \in DOMAIN e.tests |->
        [column |-> e.column, op |-> e.tests[j].op, operands |-> e.tests[j].operands]]

\* All tests of all entries are there, and no others.
LEMMA FlatPlaces ==
    ASSUME NEW w \in Seq(LegalEntry)
    PROVE  /\ Flat(w) \in Seq(FlatTest)
           /\ \A i \in DOMAIN w : \A j \in DOMAIN w[i].tests :
                \E p \in DOMAIN Flat(w) : Flat(w)[p] = TestsOf(w[i])[j]
           /\ \A p \in DOMAIN Flat(w) :
                \E i \in DOMAIN w : \E j \in DOMAIN w[i].tests : Flat(w)[p] = TestsOf(w[i])[j]
<1> DEFINE s == [i \in DOMAIN w |-> TestsOf(w[i])]
<1>1. ASSUME NEW e \in LegalEntry
      PROVE  TestsOf(e) \in Seq(FlatTest) /\ DOMAIN e.tests = 1..Len(TestsOf(e))
  <2>1. e.tests \in Seq(LegalTest) /\ e.column \in {"id", "v"}
    BY DEF LegalEntry
  <2>2. ASSUME NEW j \in DOMAIN e.tests
        PROVE  [column |-> e.column, op |-> e.tests[j].op,
                operands |-> e.tests[j].operands] \in FlatTest
    <3>1. e.tests[j] \in LegalTest
      BY <2>1
    <3>2. e.tests[j] = Test(e.tests[j].op, e.tests[j].operands)
      BY <3>1 DEF LegalTest, Test
    <3> QED BY <2>1, <3>1, <3>2 DEF FlatTest, LegalTest
  <2>3. DOMAIN e.tests = 1..Len(e.tests) /\ Len(e.tests) \in Nat
    BY <2>1
  <2> QED BY <2>2, <2>3 DEF TestsOf
<1>2. s \in Seq(Seq(FlatTest)) /\ DOMAIN s = DOMAIN w /\ DOMAIN w = 1..Len(s)
  <2>1. DOMAIN w = 1..Len(w) /\ Len(w) \in Nat /\ \A i \in DOMAIN w : w[i] \in LegalEntry
    OBVIOUS
  <2> QED BY <1>1, <2>1
<1>3. Flat(w) = FlattenSeq(s)
  BY DEF Flat, TestsOf
<1>4. \A i \in DOMAIN w : s[i] = TestsOf(w[i]) /\ DOMAIN w[i].tests = 1..Len(s[i])
  BY <1>1
<1> HIDE DEF s
<1>5. Len(s) \in 0..Len(s) /\ Joined(s, Len(s)) = Flat(w) /\ Flat(w) \in Seq(FlatTest)
  <2>1. Len(s) \in Nat
    BY <1>2, LenProperties
  <2>2. Len(s) \in 0..Len(s)
    BY <2>1
  <2> QED BY <1>2, <1>3, <2>2, JoinedStep
<1>6. /\ \A i \in 1..Len(s) : \A k \in 1..Len(s[i]) :
           /\ Len(Joined(s, i - 1)) + k \in 1..Len(Joined(s, Len(s)))
           /\ Joined(s, Len(s))[Len(Joined(s, i - 1)) + k] = s[i][k]
      /\ \A m \in 1..Len(Joined(s, Len(s))) :
           \E i \in 1..Len(s) : \E k \in 1..Len(s[i]) : m = Len(Joined(s, i - 1)) + k
  BY <1>2, <1>5, JoinedPlaces
<1>7. DOMAIN Flat(w) = 1..Len(Flat(w))
  BY <1>5
<1>8. ASSUME NEW i \in DOMAIN w, NEW j \in DOMAIN w[i].tests
      PROVE  \E p \in DOMAIN Flat(w) : Flat(w)[p] = TestsOf(w[i])[j]
  <2>1. i \in 1..Len(s) /\ j \in 1..Len(s[i])
    BY <1>2, <1>4
  <2> DEFINE p == Len(Joined(s, i - 1)) + j
  <2>2. p \in DOMAIN Flat(w) /\ Flat(w)[p] = s[i][j]
    BY <1>5, <1>6, <1>7, <2>1
  <2> QED BY <1>4, <2>2
<1>9. ASSUME NEW p \in DOMAIN Flat(w)
      PROVE  \E i \in DOMAIN w : \E j \in DOMAIN w[i].tests : Flat(w)[p] = TestsOf(w[i])[j]
  <2>0. p \in 1..Len(Joined(s, Len(s)))
    BY <1>5, <1>7
  <2>1. PICK i \in 1..Len(s) : \E j \in 1..Len(s[i]) : p = Len(Joined(s, i - 1)) + j
    BY <1>6, <2>0
  <2>2. PICK j \in 1..Len(s[i]) : p = Len(Joined(s, i - 1)) + j
    BY <2>1
  <2>3. Flat(w)[p] = s[i][j]
    BY <1>5, <1>6, <2>2
  <2> QED BY <1>2, <1>4, <2>2, <2>3
<1> QED BY <1>5, <1>8, <1>9

\* Behind as many values as come first, each parameter is the operand it stands for.
LEMMA ParametersAreOperands ==
    ASSUME NEW w \in Seq(LegalEntry), NEW first \in Seq(Operand)
    PROVE  LET built == BuildWhere(w, Len(first) + 1)
           IN  /\ DOMAIN built.clauses = DOMAIN Flat(w)
               /\ built.values \in Seq(Operand)
               /\ \A p \in DOMAIN Flat(w) :
                    /\ built.clauses[p].column = Flat(w)[p].column
                    /\ built.clauses[p].op = Flat(w)[p].op
                    /\ DOMAIN built.clauses[p].params = DOMAIN Flat(w)[p].operands
                    /\ \A k \in DOMAIN Flat(w)[p].operands :
                         (first \o built.values)[built.clauses[p].params[k]]
                            = Flat(w)[p].operands[k]
<1> DEFINE tests == Flat(w)
           ops == [p \in DOMAIN tests |-> tests[p].operands]
           built == BuildWhere(w, Len(first) + 1)
<1>1. tests \in Seq(FlatTest)
  BY FlatPlaces
<1> HIDE DEF tests
<1>2. /\ ops \in Seq(Seq(Operand)) /\ Len(ops) = Len(tests) /\ Len(tests) \in Nat
      /\ DOMAIN tests = 1..Len(ops)
  <2>1. DOMAIN tests = 1..Len(tests) /\ Len(tests) \in Nat /\ \A p \in DOMAIN tests : tests[p] \in FlatTest
    BY <1>1
  <2>2. \A p \in DOMAIN tests : tests[p].operands \in Seq(Operand)
    BY <2>1 DEF FlatTest
  <2> QED BY <2>1, <2>2
<1>3. \A n \in 0..Len(tests) : FlattenSeq([i \in 1..n |-> tests[i].operands]) = Joined(ops, n)
  <2> TAKE n \in 0..Len(tests)
  <2>1. [i \in 1..n |-> tests[i].operands] = [i \in 1..n |-> ops[i]]
    BY <1>2
  <2> QED BY <2>1 DEF Joined
<1>4. /\ DOMAIN built.clauses = DOMAIN tests
      /\ built.values = Joined(ops, Len(ops))
      /\ \A p \in DOMAIN tests :
           /\ built.clauses[p].column = tests[p].column
           /\ built.clauses[p].op = tests[p].op
           /\ DOMAIN built.clauses[p].params = DOMAIN tests[p].operands
           /\ \A k \in DOMAIN tests[p].operands :
                built.clauses[p].params[k] =
                    Len(first) + 1 + Len(FlattenSeq([i \in 1..(p - 1) |-> tests[i].operands])) + k - 1
  <2>1. /\ DOMAIN built.clauses = DOMAIN tests
        /\ built.values = FlattenSeq([i \in 1..Len(tests) |-> tests[i].operands])
        /\ \A p \in DOMAIN tests :
             /\ built.clauses[p].column = tests[p].column
             /\ built.clauses[p].op = tests[p].op
             /\ DOMAIN built.clauses[p].params = DOMAIN tests[p].operands
             /\ \A k \in DOMAIN tests[p].operands :
                  built.clauses[p].params[k] =
                      Len(first) + 1 + Len(FlattenSeq([i \in 1..(p - 1) |-> tests[i].operands])) + k - 1
    BY DEF BuildWhere, tests
  <2>2. Len(tests) \in 0..Len(tests)
    BY <1>2
  <2> HIDE DEF built, ops
  <2> QED BY <1>2, <1>3, <2>1, <2>2
<1> HIDE DEF built
<1>5. built.values \in Seq(Operand)
  <2>1. Len(ops) \in 0..Len(ops)
    BY <1>2
  <2> HIDE DEF ops
  <2> QED BY <1>2, <1>4, <2>1, JoinedStep
<1>6. ASSUME NEW p \in DOMAIN tests, NEW k \in DOMAIN tests[p].operands
      PROVE  (first \o built.values)[built.clauses[p].params[k]] = tests[p].operands[k]
  <2>1. p \in 1..Len(ops) /\ ops[p] = tests[p].operands /\ p - 1 \in 0..Len(tests)
    BY <1>2
  <2>2. ops[p] \in Seq(Operand)
    BY <1>2, <2>1
  <2>3. k \in 1..Len(ops[p])
    BY <2>1, <2>2
  <2> DEFINE shift == Len(Joined(ops, p - 1))
  <2>4. shift \in Nat
    BY <1>2, <2>1, JoinedStep, LenProperties
  <2>5. /\ shift + k \in 1..Len(built.values)
        /\ built.values[shift + k] = ops[p][k]
    <3>1. Len(ops) \in 0..Len(ops)
      BY <1>2
    <3> HIDE DEF ops
    <3> DEFINE n == Len(ops)
    <3>2. /\ n \in 0..Len(ops)
          /\ p \in 1..n
          /\ built.values = Joined(ops, n)
      BY <1>4, <2>1, <3>1
    <3> HIDE DEF n
    <3>3. \A i \in 1..n : \A l \in 1..Len(ops[i]) :
            /\ Len(Joined(ops, i - 1)) + l \in 1..Len(Joined(ops, n))
            /\ Joined(ops, n)[Len(Joined(ops, i - 1)) + l] = ops[i][l]
      <4> HIDE DEF ops
      <4> QED BY <1>2, <3>2, JoinedPlaces
    <3> HIDE DEF ops
    <3> QED BY <2>3, <3>2, <3>3
  <2>6. built.clauses[p].params[k] = Len(first) + 1 + shift + k - 1
    BY <1>3, <1>4, <2>1
  <2> HIDE DEF shift, ops
  <2>7. Len(first) \in Nat /\ k \in Nat
    BY <2>2, <2>3
  <2>8. built.clauses[p].params[k] = Len(first) + (shift + k)
    BY <2>4, <2>6, <2>7
  <2>9. (first \o built.values)[Len(first) + (shift + k)] = built.values[shift + k]
    BY <1>5, <2>5
  <2> QED BY <2>1, <2>5, <2>8, <2>9
<1> QED BY <1>4, <1>5, <1>6 DEF tests, built

\* PostgreSQL's comparisons select what a test means, a list of NOT IN not being empty.
LEMMA IsTrueIfMeant ==
    ASSUME NEW row \in Row, NEW column \in {"id", "v"}, NEW test \in LegalTest,
           test.op = "notIn" => test.operands # <<>>,
           NEW clause, NEW values,
           clause.column = column, clause.op = test.op,
           DOMAIN clause.params = DOMAIN test.operands,
           \A k \in DOMAIN test.operands : values[clause.params[k]] = test.operands[k]
    PROVE  IsTrue(clause, row, values) <=> Meant(row, column, test)
<1> DEFINE x == row[column]
           given == {test.operands[k] : k \in DOMAIN test.operands}
<1>1. x \in Nat \cup {Null}
  BY IdsAssumption DEF Row
<1>2. {values[clause.params[k]] : k \in DOMAIN clause.params} = given
  OBVIOUS
<1>3. given \subseteq Nat \cup {Null}
  BY DEF LegalTest, Operand
<1>4. test.op \in Operators \cup {"isNull", "in", "notIn"}
  BY DEF LegalTest
<1>5. Null \notin Nat
  BY NullAssumption
<1>6. /\ test.op \in Operators => \E y \in Nat \cup {Null} : given = {y}
      /\ test.op = "notIn" => given # {}
  <2>1. ASSUME test.op \in Operators
        PROVE  \E y \in Nat \cup {Null} : given = {y}
    <3>1. test.operands \in Seq(Operand) /\ Len(test.operands) = 1
      BY <2>1 DEF LegalTest
    <3>2. DOMAIN test.operands = {1} /\ test.operands[1] \in Operand
      BY <3>1
    <3> QED BY <3>2 DEF Operand
  <2>2. test.op = "notIn" => given # {}
    <3> HAVE test.op = "notIn"
    <3>1. test.operands \in Seq(Operand) /\ test.operands # <<>>
      BY DEF LegalTest
    <3>2. 1 \in DOMAIN test.operands
      BY <3>1
    <3> QED BY <3>2
  <2> QED BY <2>1, <2>2
<1>7. Meant(row, column, test) <=>
        CASE test.op = "isNull" -> x = Null
          [] test.op = "equals" -> x # Null /\ x \in given
          [] test.op = "in" -> x # Null /\ x \in given
          [] test.op \in {"not", "notIn"} -> x # Null /\ Null \notin given /\ x \notin given
          [] OTHER -> /\ x # Null /\ Null \notin given
                      /\ \A y \in given : CASE test.op = "gt" -> y < x
                                            [] test.op = "gte" -> y =< x
                                            [] test.op = "lt" -> x < y
                                            [] test.op = "lte" -> x =< y
  BY DEF Meant
<1>8. IsTrue(clause, row, values) <=>
        CASE test.op = "isNull" -> x = Null
          [] test.op = "in" -> \E y \in given : Compares("equals", x, y)
          [] test.op = "notIn" -> \A y \in given : Compares("not", x, y)
          [] OTHER -> \A y \in given : Compares(test.op, x, y)
  BY <1>2 DEF IsTrue
<1> HIDE DEF x, given
<1>9. CASE test.op = "isNull"
  BY <1>7, <1>8, <1>9
<1>10. CASE test.op = "equals"
  BY <1>5, <1>6, <1>7, <1>8, <1>10 DEF Compares, Operators
<1>11. CASE test.op = "not"
  BY <1>5, <1>6, <1>7, <1>8, <1>11 DEF Compares, Operators
<1>12. CASE test.op \in {"gt", "gte", "lt", "lte"}
  <2>1. PICK y \in Nat \cup {Null} : given = {y}
    BY <1>6, <1>12 DEF Operators
  <2>2. Meant(row, column, test) <=>
          /\ x # Null /\ Null # y
          /\ CASE test.op = "gt" -> y < x
               [] test.op = "gte" -> y =< x
               [] test.op = "lt" -> x < y
               [] test.op = "lte" -> x =< y
    BY <1>7, <1>12, <2>1
  <2>3. IsTrue(clause, row, values) <=> Compares(test.op, x, y)
    BY <1>8, <1>12, <2>1
  <2>4. CASE test.op = "gt"
    BY <1>1, <2>1, <2>2, <2>3, <2>4 DEF Compares
  <2>5. CASE test.op = "gte"
    BY <1>1, <2>1, <2>2, <2>3, <2>5 DEF Compares
  <2>6. CASE test.op = "lt"
    BY <1>1, <2>1, <2>2, <2>3, <2>6 DEF Compares
  <2>7. CASE test.op = "lte"
    BY <1>1, <2>1, <2>2, <2>3, <2>7 DEF Compares
  <2> QED BY <1>12, <2>4, <2>5, <2>6, <2>7
<1>13. CASE test.op = "in"
  BY <1>5, <1>7, <1>8, <1>13 DEF Compares
<1>14. CASE test.op = "notIn"
  BY <1>5, <1>6, <1>7, <1>8, <1>14 DEF Compares
<1> QED BY <1>4, <1>9, <1>10, <1>11, <1>12, <1>13, <1>14 DEF Operators

\* The rows a filter means, of any rows.
MeantOf(where, among) ==
    {r \in among : \A i \in DOMAIN where : \A j \in DOMAIN where[i].tests :
                      Meant(r, where[i].column, where[i].tests[j])}

\* A statement selects the rows its filter means, whatever values come before the filter's.
LEMMA SelectedIsMeant ==
    ASSUME NEW w \in Where, ~WhereIsBad(w), NEW first \in Seq(Operand),
           table \subseteq Row, NEW s,
           s.clauses = BuildWhere(w, Len(first) + 1).clauses,
           s.values = first \o BuildWhere(w, Len(first) + 1).values
    PROVE  Selects(s) = MeantOf(w, table)
<1>1. w \in Seq(LegalEntry)
  BY WhereAssumption
<1>2. /\ DOMAIN s.clauses = DOMAIN Flat(w)
      /\ \A p \in DOMAIN Flat(w) :
           /\ s.clauses[p].column = Flat(w)[p].column
           /\ s.clauses[p].op = Flat(w)[p].op
           /\ DOMAIN s.clauses[p].params = DOMAIN Flat(w)[p].operands
           /\ \A k \in DOMAIN Flat(w)[p].operands :
                s.values[s.clauses[p].params[k]] = Flat(w)[p].operands[k]
  <2> DEFINE built == BuildWhere(w, Len(first) + 1)
  <2>1. /\ DOMAIN built.clauses = DOMAIN Flat(w)
        /\ \A p \in DOMAIN Flat(w) :
             /\ built.clauses[p].column = Flat(w)[p].column
             /\ built.clauses[p].op = Flat(w)[p].op
             /\ DOMAIN built.clauses[p].params = DOMAIN Flat(w)[p].operands
             /\ \A k \in DOMAIN Flat(w)[p].operands :
                  (first \o built.values)[built.clauses[p].params[k]] = Flat(w)[p].operands[k]
    BY <1>1, ParametersAreOperands, Zenon
  <2>2. s.clauses = built.clauses /\ s.values = first \o built.values
    OBVIOUS
  <2> HIDE DEF built
  <2> QED BY <2>1, <2>2, Zenon
<1>3. \A p \in DOMAIN Flat(w) : Flat(w)[p].op = "notIn" => Flat(w)[p].operands # <<>>
  BY DEF WhereIsBad
<1>4. ASSUME NEW i \in DOMAIN w, NEW j \in DOMAIN w[i].tests
      PROVE  /\ w[i].column \in {"id", "v"} /\ w[i].tests[j] \in LegalTest
             /\ TestsOf(w[i])[j].column = w[i].column
             /\ TestsOf(w[i])[j].op = w[i].tests[j].op
             /\ TestsOf(w[i])[j].operands = w[i].tests[j].operands
  <2>1. w[i] \in LegalEntry
    BY <1>1
  <2>2. w[i].column \in {"id", "v"} /\ w[i].tests \in Seq(LegalTest)
    BY <2>1 DEF LegalEntry
  <2> QED BY <2>2 DEF TestsOf
<1>5. ASSUME NEW r \in table, NEW i \in DOMAIN w, NEW j \in DOMAIN w[i].tests,
             NEW p \in DOMAIN Flat(w), Flat(w)[p] = TestsOf(w[i])[j]
      PROVE  IsTrue(s.clauses[p], r, s.values) <=> Meant(r, w[i].column, w[i].tests[j])
  <2> DEFINE column == w[i].column
             test == w[i].tests[j]
             clause == s.clauses[p]
             values == s.values
  <2>1. /\ column \in {"id", "v"} /\ test \in LegalTest /\ r \in Row
        /\ test.op = "notIn" => test.operands # <<>>
        /\ clause.column = column /\ clause.op = test.op
        /\ DOMAIN clause.params = DOMAIN test.operands
        /\ \A k \in DOMAIN test.operands : values[clause.params[k]] = test.operands[k]
    <3>1. /\ w[i].column \in {"id", "v"} /\ w[i].tests[j] \in LegalTest
          /\ Flat(w)[p].column = w[i].column
          /\ Flat(w)[p].op = w[i].tests[j].op
          /\ Flat(w)[p].operands = w[i].tests[j].operands
      BY <1>4, <1>5
    <3>2. r \in Row
      OBVIOUS
    <3>3. Flat(w)[p].op = "notIn" => Flat(w)[p].operands # <<>>
      BY <1>3
    <3>4. /\ s.clauses[p].column = Flat(w)[p].column
          /\ s.clauses[p].op = Flat(w)[p].op
          /\ DOMAIN s.clauses[p].params = DOMAIN Flat(w)[p].operands
          /\ \A k \in DOMAIN Flat(w)[p].operands :
                s.values[s.clauses[p].params[k]] = Flat(w)[p].operands[k]
      BY <1>2
    <3> QED BY <3>1, <3>2, <3>3, <3>4, Zenon
  <2> HIDE DEF column, test, clause, values
  <2>2. IsTrue(clause, r, values) <=> Meant(r, column, test)
    BY <2>1, IsTrueIfMeant
  <2> QED BY <2>2 DEF column, test, clause, values
<1>6. ASSUME NEW r \in table
      PROVE  (\A p \in DOMAIN s.clauses : IsTrue(s.clauses[p], r, s.values))
             <=> \A i \in DOMAIN w : \A j \in DOMAIN w[i].tests :
                     Meant(r, w[i].column, w[i].tests[j])
  <2>1. ASSUME \A p \in DOMAIN s.clauses : IsTrue(s.clauses[p], r, s.values),
               NEW i \in DOMAIN w, NEW j \in DOMAIN w[i].tests
        PROVE  Meant(r, w[i].column, w[i].tests[j])
    <3>1. PICK p \in DOMAIN Flat(w) : Flat(w)[p] = TestsOf(w[i])[j]
      BY <1>1, FlatPlaces
    <3> QED BY <1>2, <1>5, <2>1, <3>1
  <2>2. ASSUME \A i \in DOMAIN w : \A j \in DOMAIN w[i].tests : Meant(r, w[i].column, w[i].tests[j]),
               NEW p \in DOMAIN s.clauses
        PROVE  IsTrue(s.clauses[p], r, s.values)
    <3>1. p \in DOMAIN Flat(w)
      BY <1>2
    <3>2. PICK i \in DOMAIN w : \E j \in DOMAIN w[i].tests : Flat(w)[p] = TestsOf(w[i])[j]
      BY <1>1, <3>1, FlatPlaces
    <3>3. PICK j \in DOMAIN w[i].tests : Flat(w)[p] = TestsOf(w[i])[j]
      BY <3>2
    <3> QED BY <1>5, <2>2, <3>1, <3>3
  <2> QED BY <2>1, <2>2
<1> QED BY <1>6 DEF Selects, MeantOf

-----------------------------------------------------------------------------
(***************************************************************************)
(* Data. A column has one value in them, those that remain of some columns *)
(* keep theirs, and so a SET does to a row what its data say.              *)
(***************************************************************************)

\* A field is a column and a value of its kind.
LEMMA FieldIs ==
    ASSUME NEW f \in Field
    PROVE  /\ f = <<f[1], f[2]>> /\ f[1] \in Column
           /\ f[1] = "id" => f[2] \in Ids
           /\ f[1] = "v" => f[2] \in Values \cup {Null}
           /\ f[1] # "secret" => f[2] \in Operand
<1>1. CASE f \in {"id"} \X Ids
  <2>1. PICK k \in Ids : f = <<"id", k>>
    BY <1>1
  <2>2. f[1] = "id" /\ f[2] = k /\ k \in Operand
    BY <2>1, IdsAssumption DEF Operand
  <2> QED BY <2>1, <2>2 DEF Column
<1>2. CASE f \in {"v"} \X (Values \cup {Null})
  <2>1. PICK x \in Values \cup {Null} : f = <<"v", x>>
    BY <1>2
  <2>2. f[1] = "v" /\ f[2] = x /\ x \in Operand
    BY <2>1, IdsAssumption DEF Operand
  <2> QED BY <2>1, <2>2 DEF Column
<1>3. CASE f \in {"secret"} \X {Hidden}
  <2>1. f = <<"secret", Hidden>>
    BY <1>3
  <2>2. f[1] = "secret" /\ f[2] = Hidden
    BY <2>1
  <2> QED BY <2>1, <2>2 DEF Column
<1> QED BY <1>1, <1>2, <1>3 DEF Field

\* In data a column has one value.
LEMMA GetIs ==
    ASSUME NEW d \in LegalData, NEW i \in DOMAIN d
    PROVE  Has(d, d[i][1]) /\ Get(d, d[i][1]) = d[i][2]
<1>1. \A j \in DOMAIN d : d[j][1] = d[i][1] => j = i
  BY DEF LegalData
<1>2. (CHOOSE j \in DOMAIN d : d[j][1] = d[i][1]) = i
  BY <1>1
<1> QED BY <1>2 DEF Has, Get

\* Of the entries those of some columns are kept, with their values.
LEMMA OnlyKeeps ==
    ASSUME NEW d \in LegalData, NEW columns
    PROVE  /\ Only(d, columns) \in LegalData
           /\ \A c : Has(Only(d, columns), c) <=> c \in columns /\ Has(d, c)
           /\ \A c : c \in columns /\ Has(d, c) => Get(Only(d, columns), c) = Get(d, c)
<1> DEFINE s == [i \in DOMAIN d |-> IF d[i][1] \in columns THEN <<d[i]>> ELSE <<>>]
           o == Only(d, columns)
<1>1. d \in Seq(Field) /\ DOMAIN d = 1..Len(d) /\ Len(d) \in Nat
  BY DEF LegalData
<1>2. ASSUME NEW i \in DOMAIN d
      PROVE  /\ s[i] \in Seq(Field)
             /\ d[i][1] \in columns => Len(s[i]) = 1 /\ s[i][1] = d[i]
             /\ d[i][1] \notin columns => Len(s[i]) = 0
  <2>1. d[i] \in Field
    BY <1>1
  <2>2. <<d[i]>> \in Seq(Field) /\ Len(<<d[i]>>) = 1 /\ <<d[i]>>[1] = d[i]
    BY <2>1
  <2>3. <<>> \in Seq(Field) /\ Len(<<>>) = 0
    OBVIOUS
  <2>4. /\ d[i][1] \in columns => s[i] = <<d[i]>>
        /\ d[i][1] \notin columns => s[i] = <<>>
    OBVIOUS
  <2> HIDE DEF s
  <2> QED BY <2>2, <2>3, <2>4
<1>3. s \in Seq(Seq(Field)) /\ Len(s) = Len(d)
  <2>1. \A i \in 1..Len(d) : s[i] \in Seq(Field)
    BY <1>1, <1>2
  <2>2. s = [i \in 1..Len(d) |-> s[i]]
    BY <1>1
  <2> HIDE DEF s
  <2> QED BY <1>1, <2>1, <2>2
<1>4. o = FlattenSeq(s)
  BY DEF Only
<1> HIDE DEF s, o
<1>5. Len(s) \in 0..Len(s) /\ Joined(s, Len(s)) = o /\ o \in Seq(Field) /\ DOMAIN o = 1..Len(o)
  <2>1. Len(s) \in 0..Len(s)
    BY <1>1, <1>3
  <2>2. Joined(s, Len(s)) = o /\ o \in Seq(Field)
    BY <1>3, <1>4, <2>1, JoinedStep
  <2> QED BY <2>1, <2>2
<1>6. /\ \A i \in 1..Len(s) : \A k \in 1..Len(s[i]) :
           /\ Len(Joined(s, i - 1)) + k \in 1..Len(Joined(s, Len(s)))
           /\ Joined(s, Len(s))[Len(Joined(s, i - 1)) + k] = s[i][k]
      /\ \A m \in 1..Len(Joined(s, Len(s))) :
           \E i \in 1..Len(s) : \E k \in 1..Len(s[i]) : m = Len(Joined(s, i - 1)) + k
  BY <1>3, <1>5, JoinedPlaces
<1>7. ASSUME NEW i \in DOMAIN d, d[i][1] \in columns
      PROVE  \E p \in DOMAIN o : o[p] = d[i]
  <2>1. i \in 1..Len(s) /\ 1 \in 1..Len(s[i])
    BY <1>1, <1>2, <1>3, <1>7
  <2>2. Len(Joined(s, i - 1)) + 1 \in DOMAIN o /\ o[Len(Joined(s, i - 1)) + 1] = s[i][1]
    BY <1>5, <1>6, <2>1
  <2> QED BY <1>2, <1>7, <2>2
<1>8. ASSUME NEW p \in DOMAIN o
      PROVE  \E i \in DOMAIN d : /\ d[i][1] \in columns /\ o[p] = d[i]
                                 /\ p = Len(Joined(s, i - 1)) + 1
  <2>1. p \in 1..Len(Joined(s, Len(s)))
    BY <1>5
  <2>2. PICK i \in 1..Len(s) : \E k \in 1..Len(s[i]) : p = Len(Joined(s, i - 1)) + k
    BY <1>6, <2>1
  <2>3. PICK k \in 1..Len(s[i]) : p = Len(Joined(s, i - 1)) + k
    BY <2>2
  <2>4. i \in DOMAIN d
    BY <1>1, <1>3
  <2>5. d[i][1] \in columns /\ k = 1
    <3>1. Len(s[i]) = 0 => FALSE
      OBVIOUS
    <3>2. Len(s[i]) = 1 => k = 1
      OBVIOUS
    <3> QED BY <1>2, <2>4, <3>1, <3>2
  <2>6. o[p] = s[i][k]
    BY <1>5, <1>6, <2>3
  <2> QED BY <1>2, <2>3, <2>4, <2>5, <2>6
<1>9. ASSUME NEW p \in DOMAIN o, NEW q \in DOMAIN o, o[p][1] = o[q][1]
      PROVE  p = q
  <2>1. PICK i \in DOMAIN d : o[p] = d[i] /\ p = Len(Joined(s, i - 1)) + 1
    BY <1>8
  <2>2. PICK j \in DOMAIN d : o[q] = d[j] /\ q = Len(Joined(s, j - 1)) + 1
    BY <1>8
  <2>3. i = j
    BY <1>9, <2>1, <2>2 DEF LegalData
  <2> QED BY <2>1, <2>2, <2>3
<1>10. o \in LegalData
  BY <1>5, <1>9 DEF LegalData
<1>11. ASSUME NEW c, Has(o, c)
       PROVE  c \in columns /\ Has(d, c)
  <2>1. PICK p \in DOMAIN o : o[p][1] = c
    BY <1>11 DEF Has
  <2> QED BY <1>8, <2>1 DEF Has
<1>12. ASSUME NEW c, c \in columns, Has(d, c)
       PROVE  Has(o, c) /\ Get(o, c) = Get(d, c)
  <2>1. PICK i \in DOMAIN d : d[i][1] = c
    BY <1>12 DEF Has
  <2>2. PICK p \in DOMAIN o : o[p] = d[i]
    BY <1>7, <1>12, <2>1
  <2>3. Get(d, c) = d[i][2]
    BY <2>1, GetIs
  <2>4. Has(o, o[p][1]) /\ Get(o, o[p][1]) = o[p][2]
    BY <1>10, GetIs
  <2> QED BY <2>1, <2>2, <2>3, <2>4
<1> QED BY <1>10, <1>11, <1>12 DEF o

\* Cleaned data have no sensitive column.
LEMMA CleanedKeeps ==
    ASSUME NEW d \in LegalData
    PROVE  /\ Cleaned(d) \in LegalData
           /\ \A c \in Column : Has(Cleaned(d), c) <=> c # "secret" /\ Has(d, c)
           /\ \A c \in Column : c # "secret" /\ Has(d, c) => Get(Cleaned(d), c) = Get(d, c)
BY OnlyKeeps DEF Cleaned

\* Values come in the order of their columns.
LEMMA ValuesAreThere ==
    ASSUME NEW d \in LegalData
    PROVE  /\ Len(d) \in Nat /\ DOMAIN d = 1..Len(d)
           /\ Len(Keys(d)) = Len(d) /\ DOMAIN Keys(d) = DOMAIN d
           /\ Len(ValuesOf(d)) = Len(d) /\ DOMAIN ValuesOf(d) = DOMAIN d
           /\ \A i \in DOMAIN d : Keys(d)[i] = d[i][1] /\ ValuesOf(d)[i] = d[i][2]
           /\ (~Has(d, "secret") => ValuesOf(d) \in Seq(Operand))
<1>1. d \in Seq(Field) /\ Len(d) \in Nat /\ DOMAIN d = 1..Len(d)
  BY DEF LegalData
<1>2. Keys(d) = [i \in 1..Len(d) |-> d[i][1]] /\ ValuesOf(d) = [i \in 1..Len(d) |-> d[i][2]]
  BY <1>1 DEF Keys, ValuesOf
<1>3. /\ Len(Keys(d)) = Len(d) /\ DOMAIN Keys(d) = DOMAIN d
      /\ Len(ValuesOf(d)) = Len(d) /\ DOMAIN ValuesOf(d) = DOMAIN d
  BY <1>1, <1>2
<1>4. \A i \in DOMAIN d : Keys(d)[i] = d[i][1] /\ ValuesOf(d)[i] = d[i][2]
  BY <1>1, <1>2
<1>5. ASSUME ~Has(d, "secret")
      PROVE  ValuesOf(d) \in Seq(Operand)
  <2>1. \A i \in 1..Len(d) : d[i][2] \in Operand
    <3> TAKE i \in 1..Len(d)
    <3>1. d[i] \in Field /\ d[i][1] # "secret"
      BY <1>1, <1>5 DEF Has
    <3> QED BY <3>1, FieldIs
  <2> QED BY <1>1, <1>2, <2>1
<1> QED BY <1>1, <1>3, <1>4, <1>5

\* What a SET of the columns of d does, if their values are those of d.
LEMMA AssignIs ==
    ASSUME NEW d \in LegalData, NEW r, NEW values, \A i \in DOMAIN d : values[i] = d[i][2]
    PROVE  Assign(r, Keys(d), values) = [c \in Column |-> IF Has(d, c) THEN Get(d, c) ELSE r[c]]
<1> DEFINE columns == Keys(d)
<1>1. DOMAIN columns = DOMAIN d /\ \A i \in DOMAIN d : columns[i] = d[i][1]
  BY ValuesAreThere
<1> HIDE DEF columns
<1>2. ASSUME NEW c \in Column
      PROVE  (IF \E i \in DOMAIN columns : columns[i] = c
                THEN values[CHOOSE i \in DOMAIN columns : columns[i] = c] ELSE r[c])
             = IF Has(d, c) THEN Get(d, c) ELSE r[c]
  <2>1. CASE Has(d, c)
    <3>1. PICK i \in DOMAIN d : d[i][1] = c
      BY <2>1 DEF Has
    <3>2. \A j \in DOMAIN columns : columns[j] = c => j = i
      BY <1>1, <3>1 DEF LegalData
    <3>3. (CHOOSE j \in DOMAIN columns : columns[j] = c) = i
      BY <1>1, <3>1, <3>2
    <3>4. Get(d, c) = d[i][2]
      BY <3>1, GetIs
    <3>5. \E j \in DOMAIN columns : columns[j] = c
      BY <1>1, <3>1
    <3> QED BY <2>1, <3>3, <3>4, <3>5
  <2>2. CASE ~Has(d, c)
    <3>1. ~ \E i \in DOMAIN columns : columns[i] = c
      BY <1>1, <2>2 DEF Has
    <3> QED BY <2>2, <3>1
  <2> QED BY <2>1, <2>2
<1> QED BY <1>2 DEF Assign, columns

\* The values of the cleaned data.
LEMMA CleanedValues ==
    ASSUME NEW data \in Data
    PROVE  /\ ValuesOf(Cleaned(data)) \in Seq(Operand)
           /\ Len(ValuesOf(Cleaned(data))) = Len(Cleaned(data))
<1>1. data \in LegalData
  BY DataAssumption
<1>2. Cleaned(data) \in LegalData /\ ~Has(Cleaned(data), "secret")
  BY <1>1, CleanedKeeps DEF Column
<1> QED BY <1>2, ValuesAreThere

\* What SET does with the cleaned data, whatever values follow: every column given but the
\* sensitive one gets its value.
LEMMA AssignsTheData ==
    ASSUME NEW data \in Data, NEW r, NEW more \in Seq(Operand)
    PROVE  Assign(r, Keys(Cleaned(data)), ValuesOf(Cleaned(data)) \o more) =
             [c \in Column |-> IF c # "secret" /\ Has(data, c) THEN Get(data, c) ELSE r[c]]
<1> DEFINE d == Cleaned(data)
           values == ValuesOf(d)
<1>1. data \in LegalData
  BY DataAssumption
<1>2. /\ d \in LegalData
      /\ \A c \in Column : Has(d, c) <=> c # "secret" /\ Has(data, c)
      /\ \A c \in Column : c # "secret" /\ Has(data, c) => Get(d, c) = Get(data, c)
  BY <1>1, CleanedKeeps
<1>3. values \in Seq(Operand) /\ Len(values) = Len(d)
  BY CleanedValues
<1> HIDE DEF d
<1>4. DOMAIN d = 1..Len(d) /\ \A i \in DOMAIN d : values[i] = d[i][2]
  BY <1>2, ValuesAreThere
<1> HIDE DEF values
<1>5. \A i \in DOMAIN d : (values \o more)[i] = d[i][2]
  BY <1>3, <1>4
<1>6. Assign(r, Keys(d), values \o more) = [c \in Column |-> IF Has(d, c) THEN Get(d, c) ELSE r[c]]
  BY <1>2, <1>5, AssignIs
<1>7. \A c \in Column : (IF Has(d, c) THEN Get(d, c) ELSE r[c])
                        = IF c # "secret" /\ Has(data, c) THEN Get(data, c) ELSE r[c]
  BY <1>2
<1> QED BY <1>6, <1>7 DEF d, values

-----------------------------------------------------------------------------
\* The row an update makes of r.
Updated(r, data) ==
    [c \in Column |-> IF c # "secret" /\ Has(data, c) THEN Get(data, c) ELSE r[c]]

\* Until its statement runs, an update or a delete has counted the rows its filter means,
\* written nothing, and has the statement of its arguments.
Prepared ==
    /\ running = "none" => table \subseteq Row
    /\ running \in {"update", "delete"} =>
         /\ before \subseteq Row
         /\ call.where \in Where /\ ~WhereIsBad(call.where)
         /\ call.matched = Cardinality(MeantOf(call.where, before))
         /\ statement # Nothing => table = before
    /\ running = "update" =>
         /\ call.data \in Data
         /\ statement # Nothing => statement = BuildUpdate(Cleaned(call.data), call.where)
    /\ running = "delete" /\ statement # Nothing => statement = BuildDelete(call.where)

\* Updates and deletes are prepared, and have done what they were asked for.
WritesInv == Prepared /\ WritesAreAsAsked

\* What counting, updating and deleting select.
LEMMA StatementsSelect ==
    ASSUME NEW w \in Where, ~WhereIsBad(w), table \subseteq Row
    PROVE  /\ Selects(BuildCount(w)) = MeantOf(w, table)
           /\ Selects(BuildDelete(w)) = MeantOf(w, table)
           /\ \A data \in Data :
                Selects(BuildUpdate(Cleaned(data), w)) = MeantOf(w, table)
<1> DEFINE built == BuildWhere(w, 1)
<1>1. <<>> \in Seq(Operand) /\ Len(<<>>) + 1 = 1
  OBVIOUS
<1>2. <<>> \o built.values = built.values
  <2>1. w \in Seq(LegalEntry)
    BY WhereAssumption
  <2>2. BuildWhere(w, Len(<<>>) + 1).values \in Seq(Operand)
    BY <1>1, <2>1, ParametersAreOperands
  <2>3. built.values \in Seq(Operand)
    BY <1>1, <2>2
  <2> HIDE DEF built
  <2> QED BY <2>3
<1>3. ASSUME NEW s, s.clauses = built.clauses, s.values = built.values
      PROVE  Selects(s) = MeantOf(w, table)
  <2>1. /\ s.clauses = BuildWhere(w, Len(<<>>) + 1).clauses
        /\ s.values = <<>> \o BuildWhere(w, Len(<<>>) + 1).values
    BY <1>1, <1>2, <1>3
  <2> QED BY <1>1, <2>1, SelectedIsMeant
<1>4. Selects(BuildCount(w)) = MeantOf(w, table)
  BY <1>3 DEF BuildCount
<1>5. Selects(BuildDelete(w)) = MeantOf(w, table)
  BY <1>3 DEF BuildDelete
<1>6. ASSUME NEW data \in Data
      PROVE  Selects(BuildUpdate(Cleaned(data), w)) = MeantOf(w, table)
  <2> DEFINE first == ValuesOf(Cleaned(data))
             s == BuildUpdate(Cleaned(data), w)
  <2>1. first \in Seq(Operand) /\ Len(first) = Len(Cleaned(data))
    BY CleanedValues
  <2>2. /\ s.clauses = BuildWhere(w, Len(Cleaned(data)) + 1).clauses
        /\ s.values = first \o BuildWhere(w, Len(Cleaned(data)) + 1).values
    BY DEF BuildUpdate
  <2> HIDE DEF s, first
  <2>3. Selects(s) = MeantOf(w, table)
    BY <2>1, <2>2, SelectedIsMeant
  <2> QED BY <2>3 DEF s
<1> QED BY <1>4, <1>5, <1>6

\* What an update and a delete make of the rows.
LEMMA EffectIsMeant ==
    ASSUME NEW w \in Where, ~WhereIsBad(w), table \subseteq Row
    PROVE  /\ Effect(BuildDelete(w)) = table \ MeantOf(w, table)
           /\ \A data \in Data :
                Effect(BuildUpdate(Cleaned(data), w)) =
                    (table \ MeantOf(w, table)) \cup {Updated(r, data) : r \in MeantOf(w, table)}
<1>1. Effect(BuildDelete(w)) = table \ MeantOf(w, table)
  <2>1. BuildDelete(w).kind = "delete"
    BY DEF BuildDelete
  <2>2. Selects(BuildDelete(w)) = MeantOf(w, table)
    BY StatementsSelect
  <2> QED BY <2>1, <2>2 DEF Effect
<1>2. ASSUME NEW data \in Data
      PROVE  Effect(BuildUpdate(Cleaned(data), w)) =
               (table \ MeantOf(w, table)) \cup {Updated(r, data) : r \in MeantOf(w, table)}
  <2> DEFINE s == BuildUpdate(Cleaned(data), w)
             more == BuildWhere(w, Len(Cleaned(data)) + 1).values
  <2>1. /\ s.kind = "update" /\ s.sets = Keys(Cleaned(data))
        /\ s.values = ValuesOf(Cleaned(data)) \o more
    BY DEF BuildUpdate
  <2>2. Selects(s) = MeantOf(w, table)
    BY StatementsSelect
  <2>3. more \in Seq(Operand)
    <3>1. w \in Seq(LegalEntry)
      BY WhereAssumption
    <3>2. /\ ValuesOf(Cleaned(data)) \in Seq(Operand)
          /\ Len(ValuesOf(Cleaned(data))) = Len(Cleaned(data))
      BY CleanedValues
    <3>3. BuildWhere(w, Len(ValuesOf(Cleaned(data))) + 1).values \in Seq(Operand)
      BY <3>1, <3>2, ParametersAreOperands
    <3> QED BY <3>2, <3>3
  <2> HIDE DEF s, more
  <2>4. \A r \in MeantOf(w, table) : Assign(r, s.sets, s.values) = Updated(r, data)
    <3> TAKE r \in MeantOf(w, table)
    <3>1. r \in Row
      BY DEF MeantOf
    <3> QED BY <2>1, <2>3, <3>1, AssignsTheData DEF Updated
  <2>5. Effect(s) = (table \ Selects(s)) \cup {Assign(r, s.sets, s.values) : r \in Selects(s)}
    BY <2>1 DEF Effect
  <2>6. Effect(s) = (table \ MeantOf(w, table)) \cup {Updated(r, data) : r \in MeantOf(w, table)}
    BY <2>2, <2>4, <2>5
  <2> QED BY <2>6 DEF s
<1> QED BY <1>1, <1>2

\* Before a call nothing has been asked for.
LEMMA WritesInvInit == StatementsInit => WritesInv
BY DEF StatementsInit, WritesInv, Prepared, WritesAreAsAsked, Done

\* A statement is not nothing.
LEMMA BuiltIsSomething ==
    /\ \A data, where : BuildUpdate(data, where) # Nothing
    /\ \A where : BuildDelete(where) # Nothing
    /\ \A where, orderBy, take, skip : BuildSelect(where, orderBy, take, skip) # Nothing
    /\ \A data : BuildInsert(data) # Nothing
    /\ \A insert, update, conflict : BuildUpsert(insert, update, conflict) # Nothing
<1>1. ASSUME NEW s, "kind" \in DOMAIN s
      PROVE  s # Nothing
  <2>1. DOMAIN Nothing = {"none"}
    BY DEF Nothing
  <2> QED BY <1>1, <2>1
<1>2. \A data, where : BuildUpdate(data, where) # Nothing
  BY <1>1 DEF BuildUpdate
<1>3. \A where : BuildDelete(where) # Nothing
  BY <1>1 DEF BuildDelete
<1>4. \A where, orderBy, take, skip : BuildSelect(where, orderBy, take, skip) # Nothing
  BY <1>1 DEF BuildSelect
<1>5. \A data : BuildInsert(data) # Nothing
  BY <1>1 DEF BuildInsert
<1>6. \A insert, update, conflict : BuildUpsert(insert, update, conflict) # Nothing
  BY <1>1 DEF BuildUpsert
<1> QED BY <1>2, <1>3, <1>4, <1>5, <1>6

\* The steps that prepare an update or a delete, and the one that runs it.
LEMMA WritesInvNext == WritesInv /\ [StatementsNext]_statementVars => WritesInv'
<1> SUFFICES ASSUME WritesInv, [StatementsNext]_statementVars
             PROVE  WritesInv'
  OBVIOUS
<1>1. Prepared
  BY DEF WritesInv
<1>2. ASSUME running' \notin {"none", "update", "delete"}
      PROVE  WritesInv'
  BY <1>2 DEF WritesInv, Prepared, WritesAreAsAsked, Done
<1>3. CASE PrepareUpdate
  <2>1. PICK where \in Where, data \in Data :
          /\ ~WhereIsBad(where)
          /\ Builds("update", [where |-> where, data |-> data,
                               matched |-> Cardinality(Selects(BuildCount(where)))],
                    BuildUpdate(Cleaned(data), where))
    BY <1>3 DEF PrepareUpdate
  <2>2. running = "none" /\ table \subseteq Row
    BY <1>1, <1>3 DEF PrepareUpdate, Prepared
  <2>3. /\ running' = "update" /\ table' = table /\ before' = table
        /\ call' = [where |-> where, data |-> data,
                    matched |-> Cardinality(Selects(BuildCount(where)))]
        /\ statement' = BuildUpdate(Cleaned(data), where)
    BY <2>1 DEF Builds
  <2>4. Selects(BuildCount(where)) = MeantOf(where, table)
    BY <2>1, <2>2, StatementsSelect
  <2>5. statement' # Nothing
    BY <2>3, BuiltIsSomething
  <2>6. call'.where = where /\ call'.data = data /\ call'.matched = Cardinality(MeantOf(where, table))
    BY <2>3, <2>4
  <2>7. Prepared'
    <3>1. MeantOf(call.where, before)' = MeantOf(where, table)
      BY <2>3, <2>6 DEF MeantOf
    <3>2. WhereIsBad(call.where)' = WhereIsBad(where)
      BY <2>6 DEF WhereIsBad, Flat
    <3>3. BuildUpdate(Cleaned(call.data), call.where)' = BuildUpdate(Cleaned(data), where)
      BY <2>6
    <3> QED BY <2>1, <2>2, <2>3, <2>5, <2>6, <3>1, <3>2, <3>3 DEF Prepared
  <2> QED BY <2>3, <2>5, <2>7 DEF WritesInv, WritesAreAsAsked, Done
<1>4. CASE PrepareDelete
  <2>1. PICK where \in Where :
          /\ ~WhereIsBad(where)
          /\ Builds("delete", [where |-> where,
                               matched |-> Cardinality(Selects(BuildCount(where)))],
                    BuildDelete(where))
    BY <1>4 DEF PrepareDelete
  <2>2. running = "none" /\ table \subseteq Row
    BY <1>1, <1>4 DEF PrepareDelete, Prepared
  <2>3. /\ running' = "delete" /\ table' = table /\ before' = table
        /\ call' = [where |-> where, matched |-> Cardinality(Selects(BuildCount(where)))]
        /\ statement' = BuildDelete(where)
    BY <2>1 DEF Builds
  <2>4. Selects(BuildCount(where)) = MeantOf(where, table)
    BY <2>1, <2>2, StatementsSelect
  <2>5. statement' # Nothing
    BY <2>3, BuiltIsSomething
  <2>6. call'.where = where /\ call'.matched = Cardinality(MeantOf(where, table))
    BY <2>3, <2>4
  <2>7. Prepared'
    BY <2>1, <2>2, <2>3, <2>5, <2>6 DEF Prepared
  <2> QED BY <2>3, <2>5, <2>7 DEF WritesInv, WritesAreAsAsked, Done
<1>5. CASE RunWrite
  <2>1. /\ statement # Nothing /\ statement' = Nothing
        /\ running' = running /\ call' = call /\ before' = before
        /\ running \in {"create", "upsert", "update", "delete"}
        /\ \/ Accepts(statement) /\ table' = Effect(statement)
           \/ answer' = [error |-> TRUE] /\ table' = table
    BY <1>5 DEF RunWrite
  <2>2. Prepared'
    BY <1>1, <2>1 DEF Prepared
  <2>3. MeantBy(call.where)' = MeantOf(call.where, before)
    BY <2>1 DEF MeantBy, MeantOf
  <2>4. running \in {"update", "delete"} => call.matched = Cardinality(MeantOf(call.where, before))
    BY <1>1 DEF Prepared
  <2>5. CASE running = "update"
    <3>1. /\ call.where \in Where /\ ~WhereIsBad(call.where) /\ before \subseteq Row
          /\ table = before /\ call.data \in Data
          /\ statement = BuildUpdate(Cleaned(call.data), call.where)
      BY <1>1, <2>1, <2>5 DEF Prepared
    <3>2. Effect(statement) = (table \ MeantOf(call.where, table)) \cup
                              {Updated(r, call.data) : r \in MeantOf(call.where, table)}
      BY <3>1, EffectIsMeant
    <3>3. CASE table' = Effect(statement)
      <4>1. table' = (before' \ MeantBy(call.where)') \cup
                     {Updated(r, call.data)' : r \in MeantBy(call.where)'}
        BY <2>1, <2>3, <3>1, <3>2, <3>3 DEF Updated
      <4>2. call.matched' = Cardinality(MeantBy(call.where)')
        BY <2>1, <2>5, <2>3, <2>4
      <4> QED BY <2>1, <2>2, <2>5, <4>1, <4>2 DEF WritesInv, WritesAreAsAsked, Done, Updated
    <3>4. CASE answer' = [error |-> TRUE]
      BY <2>1, <2>2, <2>5, <3>4 DEF WritesInv, WritesAreAsAsked, Done
    <3> QED BY <2>1, <3>3, <3>4
  <2>6. CASE running = "delete"
    <3>1. /\ call.where \in Where /\ ~WhereIsBad(call.where) /\ before \subseteq Row
          /\ table = before /\ statement = BuildDelete(call.where)
      BY <1>1, <2>1, <2>6 DEF Prepared
    <3>2. Effect(statement) = table \ MeantOf(call.where, table)
      BY <3>1, EffectIsMeant
    <3>3. CASE table' = Effect(statement)
      <4>1. table' = before' \ MeantBy(call.where)'
        BY <2>1, <2>3, <3>1, <3>2, <3>3
      <4>2. call.matched' = Cardinality(MeantBy(call.where)')
        BY <2>1, <2>6, <2>3, <2>4
      <4> QED BY <2>1, <2>2, <2>6, <4>1, <4>2 DEF WritesInv, WritesAreAsAsked, Done
    <3>4. CASE answer' = [error |-> TRUE]
      BY <2>1, <2>2, <2>6, <3>4 DEF WritesInv, WritesAreAsAsked, Done
    <3> QED BY <2>1, <3>3, <3>4
  <2> QED BY <1>2, <2>1, <2>5, <2>6
<1>6. CASE Create
  BY <1>2, <1>6 DEF Create, Builds
<1>7. CASE Upsert
  BY <1>2, <1>7 DEF Upsert, Builds
<1>8. CASE Repeat
  BY <1>2, <1>8 DEF Repeat
<1>9. CASE FindMany
  BY <1>2, <1>9 DEF FindMany, Builds
<1>10. CASE RunFind
  BY <1>2, <1>10 DEF RunFind
<1>11. CASE NextPage
  BY <1>1, <1>2, <1>11 DEF NextPage
<1>12. CASE UNCHANGED statementVars
  BY <1>12 DEF WritesInv, Prepared, WritesAreAsAsked, Done, statementVars, MeantBy, MeantOf
<1> QED BY <1>3, <1>4, <1>5, <1>6, <1>7, <1>8, <1>9, <1>10, <1>11, <1>12 DEF StatementsNext

\* Whatever filter and data an update or a delete is called with, the statement that
\* sqlBuilder.ts makes of them reaches the rows the filter means and no others, and sets what
\* the data says: the numbers of its parameters are right for every number of entries.
THEOREM WritesDoWhatIsAsked == StatementsSpec => []WritesAreAsAsked
<1>1. StatementsInit => WritesInv
  BY WritesInvInit
<1>2. WritesInv /\ [StatementsNext]_statementVars => WritesInv'
  BY WritesInvNext
<1>3. WritesInv => WritesAreAsAsked
  BY DEF WritesInv
<1> QED BY <1>1, <1>2, <1>3, PTL DEF StatementsSpec

-----------------------------------------------------------------------------
(***************************************************************************)
(* Pages. The pages so far are the beginning of an order of the rows that  *)
(* are meant; by the key there is only one, so that the next page, cut     *)
(* from an order of its own, continues it.                                 *)
(***************************************************************************)

\* An order of finitely many rows is a sequence that has each of them once.
LEMMA OrdersEnumerate ==
    ASSUME NEW found, IsFiniteSet(found), NEW orderBy, NEW e \in Orders(found, orderBy)
    PROVE  /\ Cardinality(found) \in Nat
           /\ e \in [1..Cardinality(found) -> found] /\ e \in Seq(found) /\ Len(e) = Cardinality(found)
           /\ \A i, j \in 1..Cardinality(found) : i # j => e[i] # e[j]
           /\ \A r \in found : \E i \in 1..Cardinality(found) : e[i] = r
<1> DEFINE n == Cardinality(found)
<1>1. n \in Nat
  BY FS_CardinalityType
<1>2. /\ e \in [1..n -> found]
      /\ \A i, j \in DOMAIN e : i < j => e[i] # e[j]
  BY DEF Orders
<1> HIDE DEF n
<1>3. e \in Seq(found) /\ Len(e) = n /\ DOMAIN e = 1..n
  BY <1>1, <1>2
<1>4. ASSUME NEW i \in 1..n, NEW j \in 1..n, i # j
      PROVE  e[i] # e[j]
  <2>1. i < j \/ j < i
    BY <1>1, <1>4
  <2> QED BY <1>2, <1>3, <2>1
<1>5. e \in Injection(1..n, found)
  BY <1>2, <1>4 DEF Injection, IsInjective
<1>6. Cardinality(1..n) = n
  <2>1. 1 \in Int /\ n \in Int /\ (1 > n => n = 0) /\ n - 1 + 1 = n
    BY <1>1
  <2>2. Cardinality(1..n) = IF 1 > n THEN 0 ELSE n - 1 + 1
    BY <2>1, FS_Interval
  <2> QED BY <2>1, <2>2
<1>7. e \in Surjection(1..n, found)
  BY <1>5, <1>6, FS_Injection DEF n
<1>8. \A r \in found : \E i \in 1..n : e[i] = r
  BY <1>7 DEF Surjection
<1> QED BY <1>1, <1>2, <1>3, <1>4, <1>8 DEF n

\* Rows with different keys have one order by the key.
LEMMA OneOrderByKey ==
    ASSUME NEW found, IsFiniteSet(found), found \subseteq Row,
           \A r, q \in found : r.id = q.id => r = q,
           NEW e \in Orders(found, "id"), NEW f \in Orders(found, "id")
    PROVE  \A i \in 1..Cardinality(found) : e[i] = f[i]
<1> DEFINE n == Cardinality(found)
<1>1. ASSUME NEW g \in Orders(found, "id")
      PROVE  /\ n \in Nat /\ g \in [1..n -> found]
             /\ \A i, j \in 1..n : i # j => g[i] # g[j]
             /\ \A r \in found : \E i \in 1..n : g[i] = r
             /\ \A i, j \in 1..n : i < j => g[i].id < g[j].id
  <2>1. /\ n \in Nat /\ g \in [1..n -> found]
        /\ \A i, j \in 1..n : i # j => g[i] # g[j]
        /\ \A r \in found : \E i \in 1..n : g[i] = r
    BY OrdersEnumerate
  <2>2. \A i, j \in DOMAIN g : i < j => g[i].id < g[j].id
    BY DEF Orders
  <2> QED BY <2>1, <2>2
<1>2. \A r \in found : r.id \in Nat
  BY IdsAssumption DEF Row
<1> HIDE DEF n
<1>3. ASSUME NEW g \in Orders(found, "id"), NEW h \in Orders(found, "id"), NEW i \in 1..n,
             \A j \in 1..n : j < i => g[j] = h[j], g[i] # h[i]
      PROVE  h[i].id < g[i].id
  <2>1. g[i] \in found
    BY <1>1
  <2>2. PICK j \in 1..n : h[j] = g[i]
    BY <1>1, <2>1
  <2>3. j \in Nat /\ i \in Nat
    BY <1>1
  <2>4. j # i
    BY <1>3, <2>2
  <2>5. ~(j < i)
    BY <1>1, <1>3, <2>2, <2>4
  <2>6. i < j
    BY <2>3, <2>4, <2>5
  <2>7. h[i].id < h[j].id
    BY <1>1, <2>6
  <2> QED BY <2>2, <2>7
<1> DEFINE Other == {i \in Nat : i \in 1..n /\ e[i] # f[i]}
<1> SUFFICES ASSUME Other # {} PROVE FALSE
  BY DEF n
<1>4. Other \in SUBSET Nat
  OBVIOUS
<1>5. PICK i \in Other : \A j \in Other : i <= j
  <2> HIDE DEF Other
  <2> QED BY <1>4, LeastNumber
<1>6. i \in 1..n /\ e[i] # f[i]
  BY <1>5
<1>7. \A j \in 1..n : j < i => e[j] = f[j]
  <2> TAKE j \in 1..n
  <2>1. j \in Nat /\ i \in Nat
    BY <1>1, <1>6
  <2>2. j < i => ~(i <= j)
    BY <2>1
  <2> QED BY <1>5, <2>1, <2>2
<1>8. f[i].id < e[i].id /\ e[i].id < f[i].id
  BY <1>3, <1>6, <1>7
<1>9. f[i].id \in Nat /\ e[i].id \in Nat
  BY <1>1, <1>2, <1>6
<1> QED BY <1>8, <1>9

\* What the pages are cut from: the rows the filter means.
Found == MeantOf(call.where, before)

Finding ==
    /\ table = before
    /\ before \subseteq Row /\ IsFiniteSet(before) /\ KeyHolds(before)
    /\ call.where \in Where /\ ~WhereIsBad(call.where)
    /\ call.orderBy \in {"none", "id"} /\ call.take \in Nat

\* The pages so far are the first rows of the order.
Seen ==
    /\ seen \in Seq(Ids) /\ Len(seen) <= Cardinality(Found)
    /\ call.orderBy = "id" /\ seen # <<>> =>
         \E e \in Orders(Found, "id") : \A i \in 1..Len(seen) : seen[i] = e[i].id

\* The next page begins where they end, and there is one if rows are left.
Continues ==
    /\ statement # Nothing =>
         statement = BuildSelect(call.where, call.orderBy, call.take, Len(seen))
    /\ statement = Nothing =>
         /\ answer.hasMore <=> Len(seen) < Cardinality(Found)
         /\ call.take > 0 /\ answer.rows = <<>> => ~answer.hasMore
         /\ call.take > 0 /\ answer.hasMore => call.next = Len(seen)

PagesInv ==
    /\ running = "none" =>
         table \subseteq Row /\ IsFiniteSet(table) /\ KeyHolds(table) /\ seen = <<>>
    /\ running = "find" => Finding /\ Seen /\ Continues

\* The count and every page select the same finitely many rows.
LEMMA FoundIsFinite ==
    ASSUME Finding
    PROVE  /\ Found \subseteq Row /\ IsFiniteSet(Found) /\ Cardinality(Found) \in Nat
           /\ \A r, q \in Found : r.id = q.id => r = q
           /\ Selects(BuildCount(call.where)) = Found
           /\ \A orderBy, take, skip : Selects(BuildSelect(call.where, orderBy, take, skip)) = Found
<1>1. Found \subseteq before
  BY DEF Found, MeantOf
<1>2. IsFiniteSet(Found) /\ Cardinality(Found) \in Nat
  BY <1>1, FS_Subset, FS_CardinalityType DEF Finding
<1>3. \A r, q \in Found : r.id = q.id => r = q
  BY <1>1 DEF Finding, KeyHolds
<1>4. Selects(BuildCount(call.where)) = Found
  BY StatementsSelect DEF Finding, Found
<1>5. ASSUME NEW orderBy, NEW take, NEW skip
      PROVE  Selects(BuildSelect(call.where, orderBy, take, skip)) = Found
  <2>1. Selects(BuildSelect(call.where, orderBy, take, skip)) = Selects(BuildCount(call.where))
    BY DEF Selects, BuildSelect, BuildCount
  <2> QED BY <1>4, <2>1
<1> QED BY <1>1, <1>2, <1>3, <1>4, <1>5 DEF Finding

\* What a page adds: the next rows of an order, as many as are asked for and left.
LEMMA PageOf ==
    ASSUME NEW n \in Nat, NEW skip \in Nat, skip <= n, NEW take \in Nat
    PROVE  \E count \in Nat :
             /\ {i \in 1..take : skip + i <= n} = 1..count
             /\ Cardinality(1..count) = count
             /\ skip + count <= n
             /\ skip + count < n => count = take
             /\ count = 0 => take = 0 \/ skip = n
<1> DEFINE count == IF take <= n - skip THEN take ELSE n - skip
<1>1. count \in Nat /\ skip + count <= n /\ (skip + count < n => count = take)
  OBVIOUS
<1>2. count = 0 => take = 0 \/ skip = n
  OBVIOUS
<1>3. {i \in 1..take : skip + i <= n} = 1..count
  OBVIOUS
<1> HIDE DEF count
<1>4. Cardinality(1..count) = count
  <2>1. 1 \in Int /\ count \in Int /\ (1 > count => count = 0) /\ count - 1 + 1 = count
    BY <1>1
  <2>2. Cardinality(1..count) = IF 1 > count THEN 0 ELSE count - 1 + 1
    BY <2>1, FS_Interval
  <2> QED BY <2>1, <2>2
<1> QED BY <1>1, <1>2, <1>3, <1>4

\* Before the first page nothing has been seen.
LEMMA PagesInvInit == StatementsInit => PagesInv
BY DEF StatementsInit, PagesInv

\* The first page begins at the first row.
LEMMA PagesInvFindMany ==
    ASSUME PagesInv, FindMany
    PROVE  PagesInv'
<1>1. PICK where \in Where, orderBy \in {"none", "id"}, take \in 0..MaxTake :
        /\ ~WhereIsBad(where)
        /\ Builds("find", [where |-> where, orderBy |-> orderBy, take |-> take],
                  BuildSelect(where, orderBy, take, 0))
  BY DEF FindMany
<1>2. running = "none" /\ table \subseteq Row /\ IsFiniteSet(table) /\ KeyHolds(table) /\ seen = <<>>
  BY DEF FindMany, PagesInv
<1>3. /\ running' = "find" /\ table' = table /\ before' = table /\ seen' = seen
      /\ call' = [where |-> where, orderBy |-> orderBy, take |-> take]
      /\ statement' = BuildSelect(where, orderBy, take, 0)
  BY <1>1 DEF Builds
<1>4. call'.where = where /\ call'.orderBy = orderBy /\ call'.take = take /\ take \in Nat
  BY <1>3
<1>5. Finding'
  BY <1>1, <1>2, <1>3, <1>4 DEF Finding
<1>6. Cardinality(Found') \in Nat
  <2>1. Found' \subseteq table
    BY <1>3 DEF Found, MeantOf
  <2> QED BY <1>2, <2>1, FS_Subset, FS_CardinalityType
<1>7. Seen'
  BY <1>2, <1>3, <1>6 DEF Seen
<1>8. Continues'
  <2>1. statement' # Nothing
    BY <1>3, BuiltIsSomething
  <2>2. Len(seen') = 0
    BY <1>2, <1>3
  <2> QED BY <1>3, <1>4, <2>1, <2>2 DEF Continues
<1> QED BY <1>3, <1>5, <1>7, <1>8 DEF PagesInv

\* A page continues those before it, and hasMore says whether rows are left.
LEMMA PagesInvRunFind ==
    ASSUME PagesInv, RunFind
    PROVE  PagesInv'
<1>1. Finding /\ Seen /\ Continues /\ running = "find" /\ statement # Nothing
  BY DEF RunFind, PagesInv
<1> DEFINE n == Cardinality(Found)
           skip == Len(seen)
           take == call.take
<1>2. n \in Nat /\ skip \in Nat /\ skip <= n /\ take \in Nat /\ Found \subseteq Row /\ IsFiniteSet(Found)
      /\ seen \in Seq(Ids)
  BY <1>1, FoundIsFinite, LenProperties DEF Seen, Finding
<1>3. /\ statement.take = take /\ statement.skip = skip /\ statement.orderBy = call.orderBy
      /\ Selects(statement) = Found /\ Selects(BuildCount(call.where)) = Found
  <2>1. statement = BuildSelect(call.where, call.orderBy, call.take, Len(seen))
    BY <1>1 DEF Continues
  <2>2. /\ statement.take = take /\ statement.skip = skip /\ statement.orderBy = call.orderBy
    BY <2>1 DEF BuildSelect
  <2> QED BY <1>1, <2>1, <2>2, FoundIsFinite
<1>4. PICK order \in Orders(Found, call.orderBy) :
        LET page == [i \in {i \in 1..take : skip + i <= Len(order)} |-> order[skip + i]]
        IN  /\ answer' = [rows |-> [i \in DOMAIN page |-> Redact(page[i])],
                          hasMore |-> HasMore(skip, Cardinality(DOMAIN page), n)]
            /\ seen' = seen \o [i \in DOMAIN page |-> page[i].id]
  BY <1>3 DEF RunFind
<1>5. /\ statement' = Nothing /\ running' = running /\ table' = table /\ before' = before
      /\ call' = [where |-> call.where, orderBy |-> call.orderBy, take |-> call.take,
                  next |-> skip + take]
  BY <1>3 DEF RunFind
<1>6. /\ call'.where = call.where /\ call'.orderBy = call.orderBy /\ call'.take = take
      /\ call'.next = skip + take
  BY <1>5
<1>7. Found' = Found
  BY <1>5, <1>6 DEF Found, MeantOf
<1>8. Finding'
  BY <1>1, <1>5, <1>6 DEF Finding
<1>9. /\ order \in [1..n -> Found] /\ Len(order) = n
      /\ call.orderBy = "id" => order \in Orders(Found, "id")
  BY <1>2, OrdersEnumerate
<1> HIDE DEF n, skip, take
<1>10. PICK count \in Nat :
         /\ {i \in 1..take : skip + i <= n} = 1..count
         /\ Cardinality(1..count) = count
         /\ skip + count <= n
         /\ skip + count < n => count = take
         /\ count = 0 => take = 0 \/ skip = n
  BY <1>2, PageOf
<1> DEFINE added == [i \in 1..count |-> order[skip + i].id]
<1>11. /\ \E p \in [1..count -> {Redact(r) : r \in Found}] :
             answer' = [rows |-> p, hasMore |-> HasMore(skip, count, n)]
       /\ seen' = seen \o added
  <2> DEFINE page == [i \in {i \in 1..take : skip + i <= Len(order)} |-> order[skip + i]]
  <2>1. page = [i \in 1..count |-> order[skip + i]]
    BY <1>9, <1>10
  <2>2. /\ answer' = [rows |-> [i \in DOMAIN page |-> Redact(page[i])],
                      hasMore |-> HasMore(skip, Cardinality(DOMAIN page), n)]
        /\ seen' = seen \o [i \in DOMAIN page |-> page[i].id]
    BY <1>4
  <2>3. \A i \in 1..count : skip + i \in 1..n
    BY <1>2, <1>10
  <2>4. DOMAIN page = 1..count /\ \A i \in 1..count : page[i] = order[skip + i] /\ page[i] \in Found
    BY <1>9, <2>1, <2>3
  <2> HIDE DEF page
  <2>5. [i \in DOMAIN page |-> Redact(page[i])] \in [1..count -> {Redact(r) : r \in Found}]
    BY <2>4
  <2>6. [i \in DOMAIN page |-> page[i].id] = added
    BY <2>4
  <2> QED BY <1>10, <2>2, <2>4, <2>5, <2>6
<1>12. \A i \in 1..count : skip + i \in 1..n /\ order[skip + i] \in Found
  BY <1>2, <1>9, <1>10
<1>13. /\ added \in Seq(Ids) /\ Len(added) = count
       /\ \A i \in 1..count : added[i] = order[skip + i].id
  <2>1. \A i \in 1..count : order[skip + i].id \in Ids
    BY <1>2, <1>12 DEF Row
  <2> QED BY <1>10, <2>1
<1> HIDE DEF added
<1>14. /\ seen' \in Seq(Ids) /\ Len(seen') = skip + count
       /\ \A i \in 1..skip : seen'[i] = seen[i]
       /\ \A i \in 1..(skip + count) : i \notin 1..skip => seen'[i] = added[i - skip]
  <2>1. /\ seen \o added \in Seq(Ids) /\ Len(seen \o added) = skip + count
        /\ \A i \in 1..(skip + count) :
             (seen \o added)[i] = IF i <= skip THEN seen[i] ELSE added[i - skip]
    BY <1>2, <1>13, ConcatProperties DEF skip
  <2>2. \A i \in 1..skip : i \in 1..(skip + count) /\ i <= skip
    BY <1>2, <1>10
  <2>3. \A i \in 1..(skip + count) : i \notin 1..skip => ~(i <= skip)
    BY <1>2, <1>10
  <2> QED BY <1>11, <2>1, <2>2, <2>3
<1>15. Seen'
  <2>1. seen' \in Seq(Ids) /\ Len(seen') <= Cardinality(Found')
    BY <1>7, <1>10, <1>14 DEF n
  <2>2. ASSUME call.orderBy = "id"
        PROVE  \A i \in 1..(skip + count) : seen'[i] = order[i].id
    <3>1. \A i \in 1..skip : seen[i] = order[i].id
      <4>1. CASE seen = <<>>
        BY <4>1 DEF skip
      <4>2. CASE seen # <<>>
        <5>1. PICK e \in Orders(Found, "id") : \A i \in 1..skip : seen[i] = e[i].id
          BY <1>1, <2>2, <4>2 DEF Seen, skip
        <5>2. order \in Orders(Found, "id")
          BY <1>9, <2>2
        <5>3. \A i \in 1..n : e[i] = order[i]
          BY <1>1, <1>2, <5>2, FoundIsFinite, OneOrderByKey DEF n
        <5>4. \A i \in 1..skip : i \in 1..n
          BY <1>2
        <5> QED BY <5>1, <5>3, <5>4
      <4> QED BY <4>1, <4>2
    <3> TAKE i \in 1..(skip + count)
    <3>2. CASE i \in 1..skip
      BY <1>14, <3>1, <3>2
    <3>3. CASE i \notin 1..skip
      <4>1. i - skip \in 1..count /\ skip + (i - skip) = i
        BY <1>2, <1>10, <3>3
      <4> QED BY <1>13, <1>14, <3>3, <4>1
    <3> QED BY <3>2, <3>3
  <2>3. call.orderBy = "id" =>
          \E e \in Orders(Found, "id") : \A i \in 1..Len(seen') : seen'[i] = e[i].id
    BY <1>9, <1>14, <2>2
  <2> QED BY <1>6, <1>7, <2>1, <2>3 DEF Seen
<1>16. Continues'
  <2>1. answer'.hasMore <=> skip + count < n
    <3>1. answer'.hasMore = HasMore(skip, count, n)
      BY <1>11
    <3> QED BY <3>1, Zenon DEF HasMore
  <2>2. answer'.rows = <<>> => count = 0
    <3>1. PICK p \in [1..count -> {Redact(r) : r \in Found}] : answer'.rows = p
      BY <1>11
    <3>2. p = <<>> => DOMAIN p = {}
      OBVIOUS
    <3>3. DOMAIN p = 1..count
      OBVIOUS
    <3>4. count # 0 => 1 \in 1..count
      BY <1>10
    <3> QED BY <3>1, <3>2, <3>3, <3>4
  <2>3. answer'.hasMore <=> Len(seen') < Cardinality(Found')
    BY <1>7, <1>14, <2>1 DEF n
  <2>4. take > 0 /\ answer'.rows = <<>> => ~answer'.hasMore
    BY <1>2, <1>10, <2>1, <2>2
  <2>5. take > 0 /\ answer'.hasMore => call'.next = Len(seen')
    BY <1>6, <1>10, <1>14, <2>1
  <2> QED BY <1>5, <1>6, <2>3, <2>4, <2>5 DEF Continues
<1> QED BY <1>1, <1>5, <1>8, <1>15, <1>16 DEF PagesInv

\* The other steps leave the pages alone.
LEMMA PagesInvNext == PagesInv /\ [StatementsNext]_statementVars => PagesInv'
<1> SUFFICES ASSUME PagesInv, [StatementsNext]_statementVars
             PROVE  PagesInv'
  OBVIOUS
<1>1. ASSUME running' \notin {"none", "find"}
      PROVE  PagesInv'
  BY <1>1 DEF PagesInv
<1>2. CASE FindMany
  BY <1>2, PagesInvFindMany
<1>3. CASE RunFind
  BY <1>3, PagesInvRunFind
<1>4. CASE NextPage
  <2>1. /\ running = "find" /\ statement = Nothing /\ answer.hasMore /\ call.take > 0
        /\ statement' = BuildSelect(call.where, call.orderBy, call.take, call.next)
        /\ UNCHANGED <<table, running, call, answer, before, seen, repeats>>
    BY <1>4 DEF NextPage
  <2>2. Finding /\ Seen /\ Continues
    BY <2>1 DEF PagesInv
  <2>3. call.next = Len(seen)
    BY <2>1, <2>2 DEF Continues
  <2>4. Found' = Found
    BY <2>1 DEF Found, MeantOf
  <2>5. Finding' /\ Seen'
    BY <2>1, <2>2, <2>4 DEF Finding, Seen
  <2>6. Continues'
    BY <2>1, <2>3, BuiltIsSomething DEF Continues
  <2> QED BY <2>1, <2>5, <2>6 DEF PagesInv
<1>5. CASE Create
  BY <1>1, <1>5 DEF Create, Builds
<1>6. CASE Upsert
  BY <1>1, <1>6 DEF Upsert, Builds
<1>7. CASE PrepareUpdate
  BY <1>1, <1>7 DEF PrepareUpdate, Builds
<1>8. CASE PrepareDelete
  BY <1>1, <1>8 DEF PrepareDelete, Builds
<1>9. CASE RunWrite
  BY <1>1, <1>9 DEF RunWrite
<1>10. CASE Repeat
  BY <1>1, <1>10 DEF Repeat
<1>11. CASE UNCHANGED statementVars
  <2>1. UNCHANGED <<table, running, call, statement, answer, before, seen>>
    BY <1>11 DEF statementVars
  <2>2. Found' = Found
    BY <2>1 DEF Found, MeantOf
  <2> QED BY <2>1, <2>2 DEF PagesInv, Finding, Seen, Continues
<1> QED BY <1>2, <1>3, <1>4, <1>5, <1>6, <1>7, <1>8, <1>9, <1>10, <1>11 DEF StatementsNext

\* A sequence of pages that has ended has all rows once.
LEMMA PagesInvCovers == PagesInv => PagesCoverTable
<1> SUFFICES ASSUME PagesInv, Done("find"), call.take > 0
             PROVE  /\ call.orderBy = "id" => \A i, j \in DOMAIN seen : i < j => seen[i] < seen[j]
                    /\ answer.rows = <<>> => ~answer.hasMore
                    /\ ~answer.hasMore => Len(seen) = Cardinality(Found)
                    /\ ~answer.hasMore /\ call.orderBy = "id" =>
                         {seen[i] : i \in DOMAIN seen} = {r.id : r \in Found}
  BY DEF PagesCoverTable, Found, MeantBy, MeantOf
<1>1. Finding /\ Seen /\ Continues /\ statement = Nothing
  BY DEF PagesInv, Done
<1> DEFINE n == Cardinality(Found)
<1>2. /\ n \in Nat /\ IsFiniteSet(Found) /\ seen \in Seq(Ids) /\ Len(seen) \in Nat
      /\ DOMAIN seen = 1..Len(seen) /\ Len(seen) <= n
  BY <1>1, FoundIsFinite, LenProperties DEF Seen
<1>3. answer.rows = <<>> => ~answer.hasMore
  BY <1>1 DEF Continues
<1>4. ~answer.hasMore => Len(seen) = n
  BY <1>1, <1>2 DEF Continues
<1>5. ASSUME call.orderBy = "id", seen # <<>>
      PROVE  /\ \A i, j \in DOMAIN seen : i < j => seen[i] < seen[j]
             /\ ~answer.hasMore => {seen[i] : i \in DOMAIN seen} = {r.id : r \in Found}
  <2>1. PICK e \in Orders(Found, "id") : \A i \in 1..Len(seen) : seen[i] = e[i].id
    BY <1>1, <1>5 DEF Seen
  <2>2. /\ e \in [1..n -> Found] /\ \A r \in Found : \E i \in 1..n : e[i] = r
    BY <1>2, OrdersEnumerate
  <2>3. \A i, j \in 1..n : i < j => e[i].id < e[j].id
    BY <2>2 DEF Orders
  <2> HIDE DEF n
  <2>4. \A i \in 1..Len(seen) : i \in 1..n
    BY <1>2
  <2>5. \A i, j \in DOMAIN seen : i < j => seen[i] < seen[j]
    BY <1>2, <2>1, <2>3, <2>4
  <2>6. ASSUME ~answer.hasMore
        PROVE  {seen[i] : i \in DOMAIN seen} = {r.id : r \in Found}
    <3>1. DOMAIN seen = 1..n /\ \A i \in 1..n : seen[i] = e[i].id /\ e[i] \in Found
      BY <1>2, <1>4, <2>1, <2>2, <2>6
    <3> QED BY <2>2, <3>1
  <2> QED BY <2>5, <2>6
<1>6. ASSUME seen = <<>>
      PROVE  /\ \A i, j \in DOMAIN seen : i < j => seen[i] < seen[j]
             /\ ~answer.hasMore => {seen[i] : i \in DOMAIN seen} = {r.id : r \in Found}
  <2>1. DOMAIN seen = {} /\ Len(seen) = 0
    BY <1>6
  <2>2. ~answer.hasMore => Found = {}
    BY <1>2, <1>4, <2>1, FS_EmptySet
  <2> QED BY <2>1, <2>2
<1> QED BY <1>3, <1>4, <1>5, <1>6

\* Over a table that does not change, following hasMore of db_find_many ends with every row
\* that is meant seen once, for any number of rows and any page size.
THEOREM PagesAreComplete == StatementsSpec => []PagesCoverTable
<1>1. StatementsInit => PagesInv
  BY PagesInvInit
<1>2. PagesInv /\ [StatementsNext]_statementVars => PagesInv'
  BY PagesInvNext
<1>3. PagesInv => PagesCoverTable
  BY PagesInvCovers
<1> QED BY <1>1, <1>2, <1>3, PTL DEF StatementsSpec

-----------------------------------------------------------------------------
(***************************************************************************)
(* Upserts. The statement inserts the key with the rest of `create`, or    *)
(* sets what `update` has besides the key, which a repetition sets again.  *)
(***************************************************************************)

\* The value of a column is of its kind.
LEMMA GetIsTyped ==
    ASSUME NEW d \in LegalData
    PROVE  /\ Has(d, "id") => Get(d, "id") \in Ids
           /\ Has(d, "v") => Get(d, "v") \in Values \cup {Null}
<1>1. ASSUME NEW c, Has(d, c)
      PROVE  \E f \in Field : f[1] = c /\ f[2] = Get(d, c)
  <2>1. PICK i \in DOMAIN d : d[i][1] = c
    BY <1>1 DEF Has
  <2>2. d[i] \in Field
    BY DEF LegalData
  <2>3. Get(d, c) = d[i][2]
    BY <2>1, GetIs
  <2> QED BY <2>1, <2>2, <2>3
<1>2. ASSUME Has(d, "id")
      PROVE  Get(d, "id") \in Ids
  <2>1. PICK f \in Field : f[1] = "id" /\ f[2] = Get(d, "id")
    BY <1>1, <1>2
  <2> QED BY <2>1, FieldIs
<1>3. ASSUME Has(d, "v")
      PROVE  Get(d, "v") \in Values \cup {Null}
  <2>1. PICK f \in Field : f[1] = "v" /\ f[2] = Get(d, "v")
    BY <1>1, <1>3
  <2> QED BY <2>1, FieldIs
<1> QED BY <1>2, <1>3

\* A field before data that do not have its column.
LEMMA Prefixed ==
    ASSUME NEW e \in Field, NEW rest \in LegalData, ~Has(rest, e[1])
    PROVE  /\ <<e>> \o rest \in LegalData
           /\ Has(<<e>> \o rest, e[1]) /\ Get(<<e>> \o rest, e[1]) = e[2]
<1> DEFINE one == <<e>>
           d == one \o rest
<1>1. one \in Seq(Field) /\ Len(one) = 1 /\ one[1] = e
  OBVIOUS
<1>2. rest \in Seq(Field) /\ Len(rest) \in Nat /\ DOMAIN rest = 1..Len(rest)
  BY DEF LegalData
<1> HIDE DEF one
<1>3. /\ d \in Seq(Field) /\ Len(d) = Len(one) + Len(rest)
      /\ \A i \in 1..(Len(one) + Len(rest)) :
            d[i] = IF i <= Len(one) THEN one[i] ELSE rest[i - Len(one)]
  BY <1>1, <1>2, ConcatProperties
<1> HIDE DEF d
<1>4. DOMAIN d = 1..(Len(rest) + 1)
  BY <1>1, <1>2, <1>3
<1>5. 1 \in DOMAIN d /\ d[1] = e
  <2>1. 1 \in 1..(Len(one) + Len(rest)) /\ 1 <= Len(one)
    BY <1>1, <1>2
  <2>2. d[1] = one[1]
    BY <1>3, <2>1
  <2> QED BY <1>1, <1>2, <1>4, <2>2
<1>6. ASSUME NEW i \in DOMAIN d, i # 1
      PROVE  i - 1 \in DOMAIN rest /\ d[i] = rest[i - 1]
  <2>1. i \in 1..(Len(one) + Len(rest)) /\ ~(i <= Len(one))
    BY <1>1, <1>2, <1>4, <1>6
  <2>2. d[i] = rest[i - Len(one)]
    BY <1>3, <2>1
  <2> QED BY <1>1, <1>2, <1>4, <1>6, <2>2
<1>7. ASSUME NEW i \in DOMAIN d, NEW j \in DOMAIN d, d[i][1] = d[j][1]
      PROVE  i = j
  <2>1. CASE i # 1 /\ j # 1
    <3>1. i - 1 = j - 1
      BY <1>6, <1>7, <2>1 DEF LegalData
    <3> QED BY <1>4, <3>1
  <2>2. ASSUME NEW l \in DOMAIN d, l # 1
        PROVE  d[l][1] # e[1]
    BY <1>6, <2>2 DEF Has
  <2> QED BY <1>5, <1>7, <2>1, <2>2
<1>8. d \in LegalData
  BY <1>3, <1>7 DEF LegalData
<1>9. Has(d, d[1][1]) /\ Get(d, d[1][1]) = d[1][2]
  BY <1>5, <1>8, GetIs
<1> QED BY <1>5, <1>8, <1>9 DEF d, one

\* The key an upsert concerns, what it inserts, and what it sets of a row that is there.
KeyOf(where, create) == IF Has(create, "id") THEN Get(create, "id") ELSE Get(where, "id")
InsertOf(where, create) == Cleaned(Spread(where, create))
SetsOf(create, update) == Only(Cleaned(UpdateGiven(update, create)), {"v", "secret"})

\* The row it inserts, and what it makes of the row r.
RowOf(where, create) ==
    [c \in Column |-> IF Has(InsertOf(where, create), c) THEN Get(InsertOf(where, create), c) ELSE Null]
SetBy(sets, r) == [c \in Column |-> IF Has(sets, c) THEN Get(sets, c) ELSE r[c]]

\* The key is inserted, and no sensitive column.
LEMMA InsertHasKey ==
    ASSUME NEW i \in Ids, NEW create \in Data
    PROVE  LET where == <<<<"id", i>>>>
           IN  /\ InsertOf(where, create) \in LegalData
               /\ RowOf(where, create) \in Row
               /\ RowOf(where, create).id = KeyOf(where, create)
               /\ KeyOf(where, create) \in Ids
<1> DEFINE where == <<<<"id", i>>>>
<1>1. DOMAIN where = {1} /\ where[1] = <<"id", i>> /\ where[1][1] = "id" /\ where[1][2] = i
  OBVIOUS
<1>2. Get(where, "id") = i /\ Column \ ToSet(Keys(where)) = {"v", "secret"}
  <2>1. (CHOOSE j \in DOMAIN where : where[j][1] = "id") = 1
    BY <1>1
  <2>2. ToSet(Keys(where)) = {"id"}
    BY <1>1 DEF ToSet, Keys
  <2> QED BY <1>1, <2>1, <2>2 DEF Get, Column
<1> HIDE DEF where
<1>3. create \in LegalData
  BY DataAssumption
<1>4. KeyOf(where, create) \in Ids
  BY <1>2, <1>3, GetIsTyped DEF KeyOf
<1> DEFINE e == <<"id", KeyOf(where, create)>>
           rest == Only(create, {"v", "secret"})
<1>5. e \in Field /\ e[1] = "id" /\ e[2] = KeyOf(where, create)
  BY <1>4 DEF Field
<1>6. Spread(where, create) = <<e>> \o rest
  <2>1. (IF Has(create, where[1][1]) THEN <<where[1][1], Get(create, where[1][1])>> ELSE where[1]) = e
    BY <1>1, <1>2 DEF KeyOf
  <2> HIDE DEF e
  <2>2. [j \in {1} |-> e] = <<e>>
    OBVIOUS
  <2> QED BY <1>1, <1>2, <2>1, <2>2 DEF Spread
<1>7. rest \in LegalData /\ ~Has(rest, "id")
  BY <1>3, OnlyKeeps
<1> HIDE DEF e, rest
<1> DEFINE all == <<e>> \o rest
<1>8. all \in LegalData /\ Has(all, "id") /\ Get(all, "id") = KeyOf(where, create)
  <2>1. ~Has(rest, e[1])
    BY <1>5, <1>7
  <2>2. all \in LegalData /\ Has(all, e[1]) /\ Get(all, e[1]) = e[2]
    BY <1>5, <1>7, <2>1, Prefixed
  <2> QED BY <1>5, <2>2
<1> HIDE DEF all
<1>9. "id" \in Column /\ "secret" \in Column /\ "id" # "secret"
  BY DEF Column
<1>10. /\ Cleaned(all) \in LegalData /\ ~Has(Cleaned(all), "secret")
       /\ Has(Cleaned(all), "id") /\ Get(Cleaned(all), "id") = KeyOf(where, create)
  BY <1>8, <1>9, CleanedKeeps
<1>11. InsertOf(where, create) = Cleaned(all)
  BY <1>6 DEF InsertOf, all
<1> DEFINE d == InsertOf(where, create)
<1>12. /\ d \in LegalData /\ ~Has(d, "secret") /\ Has(d, "id") /\ Get(d, "id") = KeyOf(where, create)
       /\ (Has(d, "v") => Get(d, "v") \in Values \cup {Null})
  BY <1>10, <1>11, GetIsTyped
<1>13. RowOf(where, create) = [c \in Column |-> IF Has(d, c) THEN Get(d, c) ELSE Null]
  BY DEF RowOf
<1> HIDE DEF d
<1>14. RowOf(where, create) \in Row /\ RowOf(where, create).id = KeyOf(where, create)
  BY <1>4, <1>12, <1>13 DEF Row, Column
<1> QED BY <1>4, <1>12, <1>14 DEF where, d

\* What is set is neither the key nor a sensitive column: a row stays one, with its key, and
\* to set it again changes nothing.
LEMMA SetsKeepKey ==
    ASSUME NEW create \in Data, NEW update \in Data
    PROVE  /\ SetsOf(create, update) \in LegalData
           /\ \A r \in Row : LET set == SetBy(SetsOf(create, update), r)
                             IN  set \in Row /\ set.id = r.id /\ SetBy(SetsOf(create, update), set) = set
<1> DEFINE given == UpdateGiven(update, create)
           sets == SetsOf(create, update)
<1>1. given \in LegalData
  BY DataAssumption DEF UpdateGiven
<1>2. Cleaned(given) \in LegalData /\ ~Has(Cleaned(given), "secret")
  BY <1>1, CleanedKeeps DEF Column
<1>3. sets = Only(Cleaned(given), {"v", "secret"})
  BY DEF SetsOf
<1> HIDE DEF sets, given
<1>4. sets \in LegalData /\ ~Has(sets, "id") /\ ~Has(sets, "secret")
  BY <1>2, <1>3, OnlyKeeps
<1>5. Has(sets, "v") => Get(sets, "v") \in Values \cup {Null}
  BY <1>4, GetIsTyped
<1>6. ASSUME NEW r \in Row
      PROVE  SetBy(sets, r) \in Row /\ SetBy(sets, r).id = r.id
  BY <1>4, <1>5 DEF SetBy, Row, Column
<1>7. ASSUME NEW r \in Row
      PROVE  SetBy(sets, SetBy(sets, r)) = SetBy(sets, r)
  BY DEF SetBy
<1> QED BY <1>4, <1>6, <1>7 DEF sets

\* The statement of an upsert's arguments.
StatementOf(where, create, update) ==
    BuildUpsert(Cleaned(Spread(where, create)), Cleaned(UpdateGiven(update, create)), Keys(where))

\* The statement s inserts `new` or sets `sets`.
IsUpsert(s, new, sets) ==
    /\ s.kind = "upsert" /\ s.conflict = <<"id">>
    /\ NewRow(s) = new
    /\ \A r : Assign(r, s.sets, AfterInsert(s)) = SetBy(sets, r)
    /\ s.sets = <<>> <=> sets = <<>>

\* The parameters of the SET follow those of the VALUES.
LEMMA StatementOfUpsert ==
    ASSUME NEW i \in Ids, NEW create \in Data, NEW update \in Data
    PROVE  IsUpsert(StatementOf(<<<<"id", i>>>>, create, update),
                    RowOf(<<<<"id", i>>>>, create), SetsOf(create, update))
<1> DEFINE where == <<<<"id", i>>>>
           insert == InsertOf(where, create)
           sets == SetsOf(create, update)
           s == StatementOf(where, create, update)
           new == RowOf(where, create)
<1>1. Keys(where) = <<"id">>
  <2>1. DOMAIN where = {1} /\ where[1][1] = "id"
    OBVIOUS
  <2>2. [j \in {1} |-> where[j][1]] = <<"id">>
    <3>1. where[1][1] = "id"
      OBVIOUS
    <3> HIDE DEF where
    <3> QED BY <3>1
  <2> QED BY <2>1, <2>2 DEF Keys
<1>2. insert \in LegalData /\ new = [c \in Column |-> IF Has(insert, c) THEN Get(insert, c) ELSE Null]
  BY InsertHasKey DEF RowOf
<1>3. sets \in LegalData
  BY SetsKeepKey
<1>4. UpdateColumns(Cleaned(UpdateGiven(update, create)), <<"id">>) = sets
  <2>1. DOMAIN <<"id">> = {1} /\ <<"id">>[1] = "id"
    OBVIOUS
  <2>2. Column \ ToSet(<<"id">>) = {"v", "secret"}
    BY <2>1 DEF ToSet, Column
  <2> QED BY <2>2 DEF UpdateColumns, SetsOf
<1> HIDE DEF where
<1>5. /\ s.kind = "upsert" /\ s.columns = Keys(insert) /\ s.conflict = <<"id">>
      /\ s.sets = Keys(sets) /\ s.values = ValuesOf(insert) \o ValuesOf(sets)
  <2>1. s = BuildUpsert(insert, Cleaned(UpdateGiven(update, create)), <<"id">>)
    BY <1>1 DEF StatementOf, InsertOf
  <2> HIDE DEF s, insert, sets
  <2> QED BY <1>4, <2>1 DEF BuildUpsert
<1> HIDE DEF s, insert, sets, new
<1> DEFINE a == ValuesOf(insert)
           b == ValuesOf(sets)
<1>6. /\ Len(insert) \in Nat /\ DOMAIN insert = 1..Len(insert)
      /\ Len(Keys(insert)) = Len(insert) /\ Len(a) = Len(insert)
      /\ \A j \in DOMAIN insert : a[j] = insert[j][2]
      /\ Len(sets) \in Nat /\ DOMAIN sets = 1..Len(sets)
      /\ DOMAIN Keys(sets) = DOMAIN sets /\ Len(Keys(sets)) = Len(sets) /\ Len(b) = Len(sets)
      /\ \A j \in DOMAIN sets : b[j] = sets[j][2]
  BY <1>2, <1>3, ValuesAreThere
<1>7. \E S : a \in Seq(S) /\ b \in Seq(S)
  <2> DEFINE S == {insert[j][2] : j \in DOMAIN insert} \cup {sets[j][2] : j \in DOMAIN sets}
  <2>1. a = [j \in 1..Len(insert) |-> insert[j][2]] /\ b = [j \in 1..Len(sets) |-> sets[j][2]]
    BY <1>6 DEF ValuesOf
  <2>2. /\ \A j \in 1..Len(insert) : insert[j][2] \in S
        /\ \A j \in 1..Len(sets) : sets[j][2] \in S
    BY <1>6
  <2> HIDE DEF S
  <2>3. a \in Seq(S) /\ b \in Seq(S)
    BY <1>6, <2>1, <2>2
  <2> QED BY <2>3
<1>8. PICK S : a \in Seq(S) /\ b \in Seq(S)
  BY <1>7
<1> HIDE DEF a, b
<1>9. /\ a \o b \in Seq(S) /\ Len(a \o b) = Len(insert) + Len(sets)
      /\ \A j \in 1..(Len(insert) + Len(sets)) :
            (a \o b)[j] = IF j <= Len(insert) THEN a[j] ELSE b[j - Len(insert)]
  <2>1. /\ a \o b \in Seq(S) /\ Len(a \o b) = Len(a) + Len(b)
        /\ \A j \in 1..(Len(a) + Len(b)) :
              (a \o b)[j] = IF j <= Len(a) THEN a[j] ELSE b[j - Len(a)]
    BY <1>8, ConcatProperties
  <2>2. Len(a) = Len(insert) /\ Len(b) = Len(sets)
    BY <1>6
  <2> HIDE DEF a, b
  <2> QED BY <2>1, <2>2
<1>10. NewRow(s) = new
  <2>1. \A j \in DOMAIN insert : s.values[j] = insert[j][2]
    <3> TAKE j \in DOMAIN insert
    <3>1. j \in 1..(Len(insert) + Len(sets)) /\ j <= Len(insert)
      BY <1>6
    <3> QED BY <1>5, <1>6, <1>9, <3>1 DEF a, b
  <2> DEFINE empty == [c \in Column |-> Null]
  <2>2. \A c \in Column : empty[c] = Null
    OBVIOUS
  <2>3. NewRow(s) = Assign(empty, Keys(insert), s.values)
    BY <1>5 DEF NewRow
  <2> HIDE DEF empty
  <2>4. Assign(empty, Keys(insert), s.values)
          = [c \in Column |-> IF Has(insert, c) THEN Get(insert, c) ELSE empty[c]]
    BY <1>2, <2>1, AssignIs
  <2> QED BY <1>2, <2>2, <2>3, <2>4
<1>11. ASSUME NEW r
       PROVE  Assign(r, s.sets, AfterInsert(s)) = SetBy(sets, r)
  <2> DEFINE n == Len(insert)
             after == AfterInsert(s)
  <2>1. after = SubSeq(a \o b, n + 1, n + Len(sets))
    BY <1>5, <1>6, <1>9 DEF AfterInsert, a, b
  <2>2. \A j \in DOMAIN sets : after[j] = sets[j][2]
    <3> TAKE j \in DOMAIN sets
    <3>1. j \in 1..Len(sets) /\ n + j \in 1..(n + Len(sets)) /\ ~(n + j <= n) /\ n + j - n = j
      BY <1>6
    <3>2. SubSeq(a \o b, n + 1, n + Len(sets))[j] = (a \o b)[n + 1 + j - 1]
      <4> DEFINE all == a \o b
                 m == n + Len(sets)
      <4>1. n \in Nat /\ Len(sets) \in Nat /\ m \in Int /\ n + 1 \in Int /\ j \in 1..(m - (n + 1) + 1)
        BY <1>6
      <4>2. all \in Seq(S) /\ \A l \in (n + 1)..m : all[l] \in S
        <5>1. all \in Seq(S) /\ Len(all) = m /\ m \in Nat
          BY <1>6, <1>9
        <5>2. \A l \in (n + 1)..m : l \in 1..m
          BY <4>1
        <5> HIDE DEF all, m
        <5> QED BY <5>1, <5>2
      <4> HIDE DEF all, m
      <4>3. SubSeq(all, n + 1, m)[j] = all[n + 1 + j - 1]
        BY <4>1, <4>2, SubSeqProperties
      <4> QED BY <4>3 DEF all, m
    <3>3. after[j] = (a \o b)[n + j]
      <4>1. n \in Nat /\ j \in Nat
        BY <1>6, <3>1
      <4>2. n + 1 + j - 1 = n + j
        <5> HIDE DEF n
        <5> QED BY <4>1
      <4> QED BY <2>1, <3>2, <4>2
    <3>4. (a \o b)[n + j] = b[j]
      BY <1>9, <3>1
    <3> QED BY <1>6, <3>3, <3>4
  <2> HIDE DEF after
  <2>3. Assign(r, Keys(sets), after) = [c \in Column |-> IF Has(sets, c) THEN Get(sets, c) ELSE r[c]]
    BY <1>3, <2>2, AssignIs
  <2> QED BY <1>5, <2>3 DEF SetBy, after
<1>12. s.sets = <<>> <=> sets = <<>>
  <2>1. sets \in Seq(Field)
    BY <1>3 DEF LegalData
  <2>2. sets = <<>> => Keys(sets) = <<>>
    BY DEF Keys
  <2>3. Keys(sets) = <<>> => sets = <<>>
    BY <1>6, <2>1
  <2> QED BY <1>5, <2>2, <2>3
<1>13. IsUpsert(s, new, sets)
  BY <1>5, <1>10, <1>11, <1>12 DEF IsUpsert
<1> QED BY <1>13 DEF s, new, sets, where

\* What an upsert makes of the rows: the row of its key is inserted or set, the others stay,
\* and only a SET of nothing is refused.
LEMMA UpsertedRows ==
    ASSUME NEW s, NEW new \in Row, new.id \in Ids, NEW sets, IsUpsert(s, new, sets),
           \A r \in Row : SetBy(sets, r).id = r.id,
           table \subseteq Row, KeyHolds(table)
    PROVE  LET rest == {r \in table : r.id # new.id}
           IN  /\ \A r \in table : r.id = new.id => Effect(s) = rest \cup {SetBy(sets, r)}
               /\ (\A r \in table : r.id # new.id) => Effect(s) = rest \cup {new}
               /\ Accepts(s) <=> sets # <<>>
<1> DEFINE k == new.id
           rest == {r \in table : r.id # k}
<1>1. DOMAIN <<"id">> = {1} /\ <<"id">>[1] = "id"
  OBVIOUS
<1>2. Conflicting(s) = {r \in table : r.id = k}
  BY <1>1 DEF Conflicting, IsUpsert
<1>3. Effect(s) = IF Conflicting(s) = {} THEN table \cup {new}
                  ELSE (table \ Conflicting(s)) \cup {SetBy(sets, r) : r \in Conflicting(s)}
  <2>1. Effect(s) = IF Conflicting(s) = {} THEN table \cup {NewRow(s)}
                    ELSE (table \ Conflicting(s)) \cup
                         {Assign(r, s.sets, AfterInsert(s)) : r \in Conflicting(s)}
    BY DEF Effect, IsUpsert
  <2>2. {Assign(r, s.sets, AfterInsert(s)) : r \in Conflicting(s)} = {SetBy(sets, r) : r \in Conflicting(s)}
    BY DEF IsUpsert
  <2> QED BY <2>1, <2>2 DEF IsUpsert
<1> HIDE DEF rest
<1>4. ASSUME NEW r \in table, r.id = k
      PROVE  Effect(s) = rest \cup {SetBy(sets, r)}
  <2>1. Conflicting(s) = {r}
    BY <1>2, <1>4 DEF KeyHolds
  <2>2. table \ Conflicting(s) = rest
    BY <1>2 DEF rest
  <2> QED BY <1>3, <2>1, <2>2
<1>5. ASSUME \A r \in table : r.id # k
      PROVE  Effect(s) = rest \cup {new}
  <2>1. Conflicting(s) = {} /\ rest = table
    BY <1>2, <1>5 DEF rest
  <2> QED BY <1>3, <2>1
<1>6. KeyHolds(Effect(s))
  <2>1. k # Null
    BY NullAssumption, IdsAssumption
  <2>2. ASSUME NEW q, q.id = k
        PROVE  KeyHolds(rest \cup {q})
    BY <2>1, <2>2 DEF KeyHolds, rest
  <2>3. CASE \E r \in table : r.id = k
    <3>1. PICK r \in table : r.id = k
      BY <2>3
    <3>2. SetBy(sets, r).id = k
      BY <3>1
    <3>3. KeyHolds(rest \cup {SetBy(sets, r)})
      BY <2>2, <3>2
    <3> QED BY <1>4, <3>1, <3>3
  <2>4. CASE \A r \in table : r.id # k
    <3>1. KeyHolds(rest \cup {new})
      BY <2>2
    <3> QED BY <1>5, <2>4, <3>1
  <2> QED BY <2>3, <2>4
<1>7. Accepts(s) <=> sets # <<>>
  BY <1>6 DEF Accepts, IsUpsert
<1> QED BY <1>4, <1>5, <1>7 DEF rest

\* The key the current upsert concerns, and what it sets.
Key == KeyOf(call.where, call.create)
Sets == SetsOf(call.create, call.update)

\* An upsert has the statement of its arguments, and the table its key.
Upserting ==
    /\ \E i \in Ids : call.where = <<<<"id", i>>>>
    /\ call.create \in Data /\ call.create # <<>> /\ call.update \in Data
    /\ table \subseteq Row /\ KeyHolds(table) /\ repeats \in Nat
    /\ statement # Nothing =>
         statement = StatementOf(call.where, call.create, call.update) /\ before = table

\* What the calls so far have settled: the first one that there is the row, the second one
\* what it is.
Settled ==
    /\ repeats >= 1 \/ statement = Nothing => \E r \in table : r.id = Key
    /\ repeats >= 2 \/ (repeats = 1 /\ statement = Nothing) =>
         \A r \in table : r.id = Key => SetBy(Sets, r) = r
    /\ statement = Nothing =>
         /\ \A r \in before : r.id # Key => r \in table
         /\ {r.id : r \in table} = {r.id : r \in before} \cup {Key}
         /\ repeats >= 2 => table = before

\* One that sets nothing is refused, each time.
UpsertsInv ==
    /\ running = "none" => table \subseteq Row /\ KeyHolds(table) /\ repeats = 0
    /\ running = "upsert" => Upserting
    /\ running = "upsert" /\ Sets # <<>> => Settled
    /\ running = "upsert" /\ Sets = <<>> /\ statement = Nothing => "error" \in DOMAIN answer

\* Before the call nothing is settled.
LEMMA UpsertsInvInit == StatementsInit => UpsertsInv
BY DEF StatementsInit, UpsertsInv

\* The first call prepares its statement.
LEMMA UpsertsInvUpsert ==
    ASSUME UpsertsInv, Upsert
    PROVE  UpsertsInv'
<1>1. PICK i \in Ids, create \in Data, update \in Data :
        /\ create # <<>>
        /\ Builds("upsert", [where |-> <<<<"id", i>>>>, create |-> create, update |-> update],
                  StatementOf(<<<<"id", i>>>>, create, update))
  BY DEF Upsert, StatementOf
<1>2. running = "none" /\ table \subseteq Row /\ KeyHolds(table) /\ repeats = 0
  BY DEF Upsert, UpsertsInv
<1>3. /\ running' = "upsert" /\ table' = table /\ before' = table /\ repeats' = repeats
      /\ call' = [where |-> <<<<"id", i>>>>, create |-> create, update |-> update]
      /\ statement' = StatementOf(<<<<"id", i>>>>, create, update)
  BY <1>1 DEF Builds
<1>4. call'.where = <<<<"id", i>>>> /\ call'.create = create /\ call'.update = update
  BY <1>3
<1>5. statement' # Nothing
  BY <1>3, BuiltIsSomething DEF StatementOf
<1>6. Upserting'
  BY <1>1, <1>2, <1>3, <1>4 DEF Upserting, KeyHolds
<1>7. Settled'
  BY <1>2, <1>3, <1>5 DEF Settled
<1> QED BY <1>3, <1>5, <1>6, <1>7 DEF UpsertsInv

\* Running it puts the row there, or sets it, or finds it set; or it is refused.
LEMMA UpsertsInvRunWrite ==
    ASSUME UpsertsInv, RunWrite, running = "upsert"
    PROVE  UpsertsInv'
<1>1. Upserting /\ (Sets # <<>> => Settled) /\ statement # Nothing
  BY DEF UpsertsInv, RunWrite
<1>2. PICK i \in Ids : call.where = <<<<"id", i>>>>
  BY <1>1 DEF Upserting
<1> DEFINE s == StatementOf(call.where, call.create, call.update)
           new == RowOf(call.where, call.create)
           k == Key
<1>3. statement = s /\ before = table /\ table \subseteq Row /\ KeyHolds(table)
  BY <1>1 DEF Upserting
<1>4. /\ new \in Row /\ new.id = k /\ k \in Ids
      /\ \A r \in Row : /\ SetBy(Sets, r) \in Row /\ SetBy(Sets, r).id = r.id
                        /\ SetBy(Sets, SetBy(Sets, r)) = SetBy(Sets, r)
      /\ IsUpsert(s, new, Sets)
  <2>1. call.create \in Data /\ call.update \in Data
    BY <1>1 DEF Upserting
  <2>2. new \in Row /\ new.id = k /\ k \in Ids
    BY <1>2, <2>1, InsertHasKey DEF Key
  <2>3. \A r \in Row : /\ SetBy(Sets, r) \in Row /\ SetBy(Sets, r).id = r.id
                       /\ SetBy(Sets, SetBy(Sets, r)) = SetBy(Sets, r)
    BY <2>1, SetsKeepKey DEF Sets
  <2>4. IsUpsert(s, new, Sets)
    BY <1>2, <2>1, StatementOfUpsert DEF Sets
  <2> QED BY <2>2, <2>3, <2>4
<1> HIDE DEF s, new
<1> DEFINE set(r) == SetBy(Sets, r)
           rest == {r \in table : r.id # k}
<1>5. /\ \A r \in table : r.id = k => Effect(s) = rest \cup {set(r)}
      /\ (\A r \in table : r.id # k) => Effect(s) = rest \cup {new}
      /\ Accepts(s) <=> Sets # <<>>
  <2> DEFINE others == {r \in table : r.id # new.id}
  <2>1. /\ \A r \in table : r.id = new.id => Effect(s) = others \cup {set(r)}
        /\ (\A r \in table : r.id # new.id) => Effect(s) = others \cup {new}
        /\ Accepts(s) <=> Sets # <<>>
    BY <1>3, <1>4, UpsertedRows
  <2> QED BY <1>4, <2>1
<1>6. /\ statement' = Nothing
      /\ running' = running /\ call' = call /\ before' = before /\ repeats' = repeats
      /\ Sets # <<>> => table' = Effect(s)
      /\ Sets = <<>> => table' = table /\ answer' = [error |-> TRUE]
  BY <1>3, <1>5 DEF RunWrite
<1>7. Key' = Key /\ Sets' = Sets
  BY <1>6 DEF Key, Sets
<1>8. k # Null
  BY <1>4, NullAssumption, IdsAssumption
<1>9. CASE Sets = <<>>
  <2>1. "error" \in DOMAIN answer'
    BY <1>6, <1>9
  <2>2. Upserting'
    BY <1>1, <1>6, <1>9 DEF Upserting, KeyHolds
  <2> QED BY <1>6, <1>7, <1>9, <2>1, <2>2 DEF UpsertsInv
<1>10. CASE Sets # <<>>
  <2>1. Settled /\ table' = Effect(s)
    BY <1>1, <1>6, <1>10
  <2> HIDE DEF set
  <2>2. PICK q : /\ table' = rest \cup {q} /\ q \in Row /\ q.id = k
                 /\ (\E r \in table : r.id = k) => set(q) = q
                 /\ \A r \in table : r.id = k => q = set(r)
    <3>1. CASE \E r \in table : r.id = k
      <4>1. PICK r \in table : r.id = k
        BY <3>1
      <4>2. \A p \in table : p.id = k => p = r
        BY <1>3, <4>1 DEF KeyHolds
      <4>3. set(r) \in Row /\ set(r).id = k /\ set(set(r)) = set(r)
        BY <1>3, <1>4, <4>1 DEF set
      <4> QED BY <1>5, <2>1, <4>1, <4>2, <4>3
    <3>2. CASE \A r \in table : r.id # k
      BY <1>4, <1>5, <2>1, <3>2
    <3> QED BY <3>1, <3>2
  <2>3. Upserting'
    <3>1. table' \subseteq Row
      BY <1>3, <2>2
    <3>2. KeyHolds(table')
      BY <1>3, <1>8, <2>2 DEF KeyHolds
    <3> QED BY <1>1, <1>6, <3>1, <3>2 DEF Upserting, KeyHolds
  <2>4. Settled'
    <3>1. \E r \in table' : r.id = Key'
      BY <1>7, <2>2
    <3>2. \A r \in before' : r.id # Key' => r \in table'
      BY <1>3, <1>6, <1>7, <2>2
    <3>3. {r.id : r \in table'} = {r.id : r \in before'} \cup {Key'}
      BY <1>3, <1>6, <1>7, <2>2
    <3>4. repeats >= 1 => \E r \in table : r.id = k
      BY <2>1 DEF Settled
    <3>5. repeats' >= 1 => \A r \in table' : r.id = Key' => set(r) = r
      BY <1>6, <1>7, <2>2, <3>4
    <3>6. ASSUME repeats' >= 2
          PROVE  table' = before'
      <4>1. repeats >= 2 /\ repeats >= 1
        BY <1>1, <1>6, <3>6 DEF Upserting
      <4>2. PICK r \in table : r.id = k
        BY <3>4, <4>1
      <4>3. set(r) = r
        BY <2>1, <4>1, <4>2 DEF Settled, set
      <4>4. \A p \in table : p.id = k => p = r
        BY <1>3, <4>2 DEF KeyHolds
      <4>5. q = r
        BY <2>2, <4>2, <4>3
      <4>6. rest \cup {r} = table
        BY <4>2, <4>4
      <4> QED BY <1>3, <1>6, <2>2, <4>5, <4>6
    <3>7. repeats' >= 2 \/ (repeats' = 1 /\ statement' = Nothing) => repeats' >= 1
      BY <1>1, <1>6 DEF Upserting
    <3>8. Sets' = Sets
      BY <1>7
    <3>9. \A r : set(r)' = set(r')
      BY <1>7 DEF set, SetBy
    <3> QED BY <1>6, <1>7, <3>1, <3>2, <3>3, <3>5, <3>6, <3>7, <3>8 DEF Settled, set, SetBy
  <2> QED BY <1>6, <1>7, <1>10, <2>3, <2>4 DEF UpsertsInv
<1> QED BY <1>9, <1>10

\* A repetition prepares the same statement.
LEMMA UpsertsInvRepeat ==
    ASSUME UpsertsInv, Repeat
    PROVE  UpsertsInv'
<1>1. Upserting /\ (Sets # <<>> => Settled) /\ statement = Nothing /\ running = "upsert"
  BY DEF UpsertsInv, Repeat
<1>2. /\ statement' = StatementOf(call.where, call.create, call.update)
      /\ repeats' = repeats + 1 /\ before' = table
      /\ table' = table /\ running' = running /\ call' = call
  BY DEF Repeat, StatementOf
<1>3. statement' # Nothing
  BY <1>2, BuiltIsSomething DEF StatementOf
<1>4. repeats \in Nat /\ repeats' \in Nat /\ (repeats' >= 2 => repeats >= 1)
      /\ (repeats >= 1 => repeats >= 2 \/ repeats = 1)
  BY <1>1, <1>2 DEF Upserting
<1>5. Upserting'
  BY <1>1, <1>2, <1>4 DEF Upserting, KeyHolds
<1>6. Key' = Key /\ Sets' = Sets
  BY <1>2 DEF Key, Sets
<1>7. Sets # <<>> => Settled'
  BY <1>1, <1>2, <1>3, <1>4, <1>6 DEF Settled, SetBy
<1> QED BY <1>1, <1>2, <1>3, <1>5, <1>6, <1>7 DEF UpsertsInv

\* Other tools do not upsert.
LEMMA UpsertsInvNext == UpsertsInv /\ [StatementsNext]_statementVars => UpsertsInv'
<1> SUFFICES ASSUME UpsertsInv, [StatementsNext]_statementVars
             PROVE  UpsertsInv'
  OBVIOUS
<1>1. ASSUME running' \notin {"none", "upsert"}
      PROVE  UpsertsInv'
  BY <1>1 DEF UpsertsInv
<1>2. CASE Upsert
  BY <1>2, UpsertsInvUpsert
<1>3. CASE RunWrite
  <2>1. CASE running = "upsert"
    BY <1>3, <2>1, UpsertsInvRunWrite
  <2>2. CASE running # "upsert"
    BY <1>1, <1>3, <2>2 DEF RunWrite
  <2> QED BY <2>1, <2>2
<1>4. CASE Repeat
  BY <1>4, UpsertsInvRepeat
<1>5. CASE Create
  BY <1>1, <1>5 DEF Create, Builds
<1>6. CASE PrepareUpdate
  BY <1>1, <1>6 DEF PrepareUpdate, Builds
<1>7. CASE PrepareDelete
  BY <1>1, <1>7 DEF PrepareDelete, Builds
<1>8. CASE FindMany
  BY <1>1, <1>8 DEF FindMany, Builds
<1>9. CASE RunFind
  BY <1>1, <1>9 DEF RunFind
<1>10. CASE NextPage
  BY <1>1, <1>10 DEF NextPage
<1>11. CASE UNCHANGED statementVars
  <2>1. UNCHANGED <<table, running, call, statement, answer, before, repeats>>
    BY <1>11 DEF statementVars
  <2>2. Key' = Key /\ Sets' = Sets
    BY <2>1 DEF Key, Sets
  <2>3. Upserting => Upserting'
    BY <2>1 DEF Upserting, KeyHolds
  <2>4. Settled => Settled'
    BY <2>1, <2>2 DEF Settled, SetBy
  <2> QED BY <2>1, <2>2, <2>3, <2>4 DEF UpsertsInv, KeyHolds
<1> QED BY <1>2, <1>3, <1>4, <1>5, <1>6, <1>7, <1>8, <1>9, <1>10, <1>11 DEF StatementsNext

\* An upsert concerns the row of its key alone, and however often the call is repeated only
\* the first two can change anything.
THEOREM UpsertsComeToRest == StatementsSpec => []UpsertsSettle
<1>1. StatementsInit => UpsertsInv
  BY UpsertsInvInit
<1>2. UpsertsInv /\ [StatementsNext]_statementVars => UpsertsInv'
  BY UpsertsInvNext
<1>3. UpsertsInv => UpsertsSettle
  <2>1. ASSUME UpsertsInv, Done("upsert")
        PROVE  Settled
    BY <2>1 DEF UpsertsInv, Done
  <2>2. UpsertsInv /\ Done("upsert") => statement = Nothing
    BY DEF Done
  <2> QED BY <2>1, <2>2 DEF UpsertsSettle, Settled, Key, KeyOf
<1> QED BY <1>1, <1>2, <1>3, PTL DEF StatementsSpec

-----------------------------------------------------------------------------
(***************************************************************************)
(* Types.                                                                  *)
(***************************************************************************)

\* What is left to know of an insertion.
Inserting ==
    running = "create" /\ statement # Nothing =>
        \E data \in Data : statement = BuildInsert(Cleaned(data))

TypedInv == StatementsTypeOK /\ Inserting /\ WritesInv /\ PagesInv /\ UpsertsInv

\* An update keeps the type of a row.
LEMMA UpdatedIsRow ==
    ASSUME NEW r \in Row, NEW data \in Data
    PROVE  Updated(r, data) \in Row
<1>1. /\ Has(data, "id") => Get(data, "id") \in Ids
      /\ Has(data, "v") => Get(data, "v") \in Values \cup {Null}
  BY DataAssumption, GetIsTyped
<1> QED BY <1>1 DEF Updated, Row, Column

\* A row that an insertion adds and the key accepts is one.
LEMMA InsertedIsRow ==
    ASSUME NEW data \in Data, NewRow(BuildInsert(Cleaned(data))).id # Null
    PROVE  NewRow(BuildInsert(Cleaned(data))) \in Row
<1> DEFINE empty == [c \in Column |-> Null]
           new == NewRow(BuildInsert(Cleaned(data)))
<1>1. /\ ValuesOf(Cleaned(data)) \in Seq(Operand)
      /\ Assign(empty, Keys(Cleaned(data)), ValuesOf(Cleaned(data)) \o <<>>) =
           [c \in Column |-> IF c # "secret" /\ Has(data, c) THEN Get(data, c) ELSE empty[c]]
  <2>1. <<>> \in Seq(Operand)
    OBVIOUS
  <2> HIDE DEF empty
  <2> QED BY <2>1, AssignsTheData, CleanedValues
<1>2. ValuesOf(Cleaned(data)) \o <<>> = ValuesOf(Cleaned(data))
  BY <1>1, ConcatEmptySeq
<1>3. new = Assign(empty, Keys(Cleaned(data)), ValuesOf(Cleaned(data)))
  BY DEF NewRow, BuildInsert
<1>4. new = Updated(empty, data)
  BY <1>1, <1>2, <1>3 DEF Updated
<1>5. Has(data, "id")
  BY <1>4 DEF Updated, Column
<1>6. /\ Get(data, "id") \in Ids
      /\ Has(data, "v") => Get(data, "v") \in Values \cup {Null}
  BY <1>5, DataAssumption, GetIsTyped
<1> QED BY <1>4, <1>5, <1>6 DEF Updated, Row, Column

\* No tool takes a column or the key from the table.
LEMMA TypedInvNext == TypedInv /\ [StatementsNext]_statementVars => TypedInv'
<1> SUFFICES ASSUME TypedInv, [StatementsNext]_statementVars
             PROVE  TypedInv'
  OBVIOUS
<1>1. PagesInv' /\ UpsertsInv'
  BY PagesInvNext, UpsertsInvNext DEF TypedInv
<1>2. WritesInv'
  BY WritesInvNext DEF TypedInv
<1>3. StatementsTypeOK
  BY DEF TypedInv
<1>4. ASSUME UNCHANGED <<table, seen, repeats>>, before' = table,
             running' \in {"create", "upsert", "update", "delete", "find"}, Inserting'
      PROVE  TypedInv'
  BY <1>1, <1>2, <1>3, <1>4 DEF TypedInv, StatementsTypeOK, KeyHolds
<1>5. CASE Create
  <2>1. Inserting'
    BY <1>5 DEF Create, Builds, Inserting
  <2> QED BY <1>4, <1>5, <2>1 DEF Create, Builds
<1>6. CASE Upsert
  BY <1>4, <1>6 DEF Upsert, Builds, Inserting
<1>7. CASE PrepareUpdate
  BY <1>4, <1>7 DEF PrepareUpdate, Builds, Inserting
<1>8. CASE PrepareDelete
  BY <1>4, <1>8 DEF PrepareDelete, Builds, Inserting
<1>9. CASE FindMany
  BY <1>4, <1>9 DEF FindMany, Builds, Inserting
<1>10. CASE RunWrite
  <2>1. /\ running \in {"create", "upsert", "update", "delete"} /\ statement # Nothing
        /\ UNCHANGED <<running, call, before, seen, repeats>> /\ statement' = Nothing
        /\ \/ Accepts(statement) /\ table' = Effect(statement)
           \/ table' = table
    BY <1>10 DEF RunWrite
  <2>2. KeyHolds(table')
    BY <1>3, <2>1 DEF StatementsTypeOK, Accepts, KeyHolds
  <2>3. table \subseteq Row
    BY <1>3 DEF StatementsTypeOK
  <2>4. table' \subseteq Row
    <3>1. CASE running = "create"
      <4>1. PICK data \in Data : statement = BuildInsert(Cleaned(data))
        BY <2>1, <3>1 DEF TypedInv, Inserting
      <4>2. Effect(statement) = table \cup {NewRow(statement)}
        BY <4>1 DEF Effect, BuildInsert
      <4>3. Accepts(statement) => NewRow(statement).id # Null
        BY <4>2 DEF Accepts, KeyHolds
      <4>4. Accepts(statement) => NewRow(statement) \in Row
        BY <4>1, <4>3, InsertedIsRow
      <4> QED BY <2>1, <2>3, <4>2, <4>4
    <3>2. CASE running = "upsert"
      BY <1>1, <2>1, <3>2 DEF UpsertsInv, Upserting
    <3>3. CASE running = "update"
      <4>1. /\ call.where \in Where /\ ~WhereIsBad(call.where) /\ call.data \in Data
            /\ statement = BuildUpdate(Cleaned(call.data), call.where)
        BY <2>1, <3>3 DEF TypedInv, WritesInv, Prepared
      <4>2. Effect(statement) = (table \ MeantOf(call.where, table)) \cup
                                {Updated(r, call.data) : r \in MeantOf(call.where, table)}
        BY <2>3, <4>1, EffectIsMeant
      <4>3. \A r \in MeantOf(call.where, table) : Updated(r, call.data) \in Row
        BY <2>3, <4>1, UpdatedIsRow DEF MeantOf
      <4> QED BY <2>1, <2>3, <4>2, <4>3
    <3>4. CASE running = "delete"
      <4>1. /\ call.where \in Where /\ ~WhereIsBad(call.where) /\ statement = BuildDelete(call.where)
        BY <2>1, <3>4 DEF TypedInv, WritesInv, Prepared
      <4>2. Effect(statement) = table \ MeantOf(call.where, table)
        BY <2>3, <4>1, EffectIsMeant
      <4> QED BY <2>1, <2>3, <4>2
    <3> QED BY <2>1, <3>1, <3>2, <3>3, <3>4
  <2>5. StatementsTypeOK'
    <3>1. KeyHolds(table)'
      BY <2>2 DEF KeyHolds
    <3> QED BY <1>3, <2>1, <2>4, <3>1 DEF StatementsTypeOK
  <2>6. Inserting'
    BY <2>1 DEF Inserting
  <2> QED BY <1>1, <1>2, <2>5, <2>6 DEF TypedInv
<1>11. CASE Repeat
  <2>1. /\ running = "upsert" /\ repeats < MaxRepeats /\ repeats' = repeats + 1 /\ before' = table
        /\ UNCHANGED <<table, running, seen>>
    BY <1>11 DEF Repeat
  <2>2. repeats' \in 0..MaxRepeats
    BY <1>3, <2>1, BoundsAssumption DEF StatementsTypeOK
  <2>3. StatementsTypeOK' /\ Inserting'
    BY <1>3, <2>1, <2>2 DEF StatementsTypeOK, KeyHolds, Inserting
  <2> QED BY <1>1, <1>2, <2>3 DEF TypedInv
<1>12. CASE RunFind
  <2>1. /\ running = "find" /\ UNCHANGED <<table, running, before, repeats>>
    BY <1>12 DEF RunFind
  <2>2. seen' \in Seq(Ids)
    BY <1>1, <2>1 DEF PagesInv, Seen
  <2>3. StatementsTypeOK' /\ Inserting'
    BY <1>3, <2>1, <2>2 DEF StatementsTypeOK, KeyHolds, Inserting
  <2> QED BY <1>1, <1>2, <2>3 DEF TypedInv
<1>13. CASE NextPage
  <2>1. running = "find" /\ UNCHANGED <<table, running, before, seen, repeats>>
    BY <1>13 DEF NextPage
  <2>2. StatementsTypeOK' /\ Inserting'
    BY <1>3, <2>1 DEF StatementsTypeOK, KeyHolds, Inserting
  <2> QED BY <1>1, <1>2, <2>2 DEF TypedInv
<1>14. CASE UNCHANGED statementVars
  <2>1. UNCHANGED <<table, running, statement, before, seen, repeats>>
    BY <1>14 DEF statementVars
  <2>2. StatementsTypeOK' /\ Inserting'
    BY <1>3, <2>1 DEF TypedInv, StatementsTypeOK, KeyHolds, Inserting
  <2> QED BY <1>1, <1>2, <2>2 DEF TypedInv
<1> QED BY <1>5, <1>6, <1>7, <1>8, <1>9, <1>10, <1>11, <1>12, <1>13, <1>14 DEF StatementsNext

\* A table keeps its columns and its key, whichever tool runs and whatever PostgreSQL
\* refuses of it.
THEOREM StatementsTypeCorrect == StatementsSpec => []StatementsTypeOK
<1>1. StatementsInit => TypedInv
  <2>1. ASSUME StatementsInit
        PROVE  StatementsTypeOK /\ Inserting
    <3>1. 0 \in 0..MaxRepeats
      BY BoundsAssumption
    <3> QED BY <2>1, <3>1 DEF StatementsInit, StatementsTypeOK, Inserting
  <2>2. StatementsInit => WritesInv /\ PagesInv /\ UpsertsInv
    BY WritesInvInit, PagesInvInit, UpsertsInvInit
  <2> QED BY <2>1, <2>2 DEF TypedInv
<1>2. TypedInv /\ [StatementsNext]_statementVars => TypedInv'
  BY TypedInvNext
<1>3. TypedInv => StatementsTypeOK
  BY DEF TypedInv
<1> QED BY <1>1, <1>2, <1>3, PTL DEF StatementsSpec
=============================================================================
