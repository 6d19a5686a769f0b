-------------------------- MODULE TablesPageProofs --------------------------
(***************************************************************************)
(* The table browser: its types, what it asks to write, and what a         *)
(* reported deletion has done - for any tables, page size and bounds.      *)
(***************************************************************************)
EXTENDS TablesPage, FiniteSetTheorems, TLAPS

\* What has been read is a page of its table.
Proper(answer) ==
    /\ answer.key \in Keys
    /\ DOMAIN answer.rows \subseteq 1..PageSize
    /\ answer.total \in 0..MaxRows[answer.key[1]]

ReadsAreProper ==
    /\ DOMAIN cache = Keys
    /\ \A k \in Keys : cache[k] # None => Proper(cache[k])
    /\ shown # None => Proper(shown)

\* The rows of a table, and the tables the page is at.
Database ==
    /\ rows \in [Tables -> SUBSET Nat] /\ inserted \in [Tables -> Nat]
    /\ active \in Tables

\* What the user has taken is what is at the marked places, until something else comes there.
MarksAreMeant ==
    /\ \A i \in selected :
         /\ i \in DOMAIN meant
         /\ i \in DOMAIN shown.rows => meant[i] \in {None, <<active, shown.rows[i]>>}
    /\ editing # None /\ editing \in DOMAIN shown.rows =>
         begun \in {None, <<active, shown.rows[editing]>>}

\* No cell is edited below a dialog, and the request the page waits for has its dialog.
DialogHolds ==
    /\ asked # None => editing = None
    /\ work # None /\ work.mine => asked # None /\ confirming /\ grace = "off"

Request(q) ==
    /\ q.table \in Tables
    /\ q.known \in 0..inserted[q.table]

Requests ==
    /\ asked # None => Request(asked)
    /\ work # None =>
         /\ work = [request |-> work.request, left |-> work.left, mine |-> work.mine]
         /\ Request(work.request)

\* The rows a deletion is done with are not in the table, unless they are new ones.
WrittenAreGone ==
    work # None /\ work.request.kind = "delete" =>
      \A i \in DOMAIN work.request.keys \ work.left :
        work.request.keys[i] <= work.request.known =>
          work.request.keys[i] \notin rows[work.request.table]

IInv == TypeOK /\ Database /\ ReadsAreProper /\ MarksAreMeant /\ DialogHolds
          /\ Requests /\ WrittenAreGone

-----------------------------------------------------------------------------
(***************************************************************************)
(* What a step leaves alone.                                               *)
(***************************************************************************)

\* A step of the page that goes to other rows takes the marks away.
LEMMA MovesClear ==
    ASSUME NEW t, NEW p,
           ShowTable(t) \/ GoToPage(p) \/ ToggleSort \/ Correct \/ LeaveAndReturn
    PROVE  selected' = {} /\ editing' = None
  BY DEF ShowTable, GoToPage, ToggleSort, Correct, LeaveAndReturn, Move, ResetMarks

\* What a step does to the marks, with the rows they are at.
LEMMA MarksNext ==
    ASSUME MarksAreMeant, Next
    PROVE  MarksAreMeant'
<1>1. ASSUME NEW t \in Tables, ShowTable(t)
      PROVE  MarksAreMeant'
  BY <1>1, MovesClear DEF MarksAreMeant
<1>2. ASSUME NEW p \in Pages, GoToPage(p)
      PROVE  MarksAreMeant'
  BY <1>2, MovesClear DEF MarksAreMeant
<1>3. CASE ToggleSort \/ Correct \/ LeaveAndReturn
  BY <1>3, MovesClear DEF MarksAreMeant
<1>4. ASSUME NEW k \in Keys, Arrive(k)
      PROVE  MarksAreMeant'
  <2>1. /\ UNCHANGED <<active, selected, editing>>
        /\ meant' = [i \in DOMAIN meant |-> Still(meant[i], i)] /\ begun' = Still(begun, editing)
        /\ shown' = shown \/ shown'.key[1] = active
    BY <1>4 DEF Arrive, Answer, Nothing, current, place, marks
  <2>2. ASSUME NEW row, NEW i, i \in DOMAIN shown'.rows,
               i \in DOMAIN shown.rows => row \in {None, <<active, shown.rows[i]>>}
        PROVE  Still(row, i) \in {None, <<active, shown'.rows[i]>>}
    BY <2>1, <2>2 DEF Still
  <2>3. ASSUME NEW i \in selected'
        PROVE  /\ i \in DOMAIN meant'
               /\ i \in DOMAIN shown'.rows => meant'[i] \in {None, <<active', shown'.rows[i]>>}
    BY <2>1, <2>2 DEF MarksAreMeant
  <2>4. editing' # None /\ editing' \in DOMAIN shown'.rows =>
          begun' \in {None, <<active', shown'.rows[editing']>>}
    BY <2>1, <2>2 DEF MarksAreMeant
  <2> QED BY <2>3, <2>4 DEF MarksAreMeant
<1>5. ASSUME NEW i \in 1..PageSize, ToggleRow(i)
      PROVE  MarksAreMeant'
  BY <1>5 DEF ToggleRow, Mark, MarksAreMeant, RowAt, place
<1>6. CASE ToggleAll
  BY <1>6 DEF ToggleAll, Mark, MarksAreMeant, RowAt, place
<1>7. ASSUME NEW i \in 1..PageSize, StartEdit(i)
      PROVE  MarksAreMeant'
  BY <1>7 DEF StartEdit, Mark, MarksAreMeant, RowAt, place
<1>8. CASE CancelEdit \/ SubmitEdit
  BY <1>8 DEF CancelEdit, SubmitEdit, AskFor, Mark, MarksAreMeant, place
<1>9. CASE Finish
  BY <1>9 DEF Finish, MarksAreMeant, place
<1>10. ASSUME NEW t \in Tables, Insert(t) \/ Delete(t)
       PROVE  MarksAreMeant'
  BY <1>10 DEF Insert, Delete, MarksAreMeant, marks, history, place
<1>11. CASE Refetch \/ OpenDeleteConfirm \/ RunConfirm \/ Write \/ WriteFails
              \/ PollReadonly \/ DialogStep
  BY <1>11 DEF Refetch, OpenDeleteConfirm, AskFor, RunConfirm, Write, WriteFails, PollReadonly,
    DialogStep, MarksAreMeant, marks, history, place
<1> QED
  BY <1>1, <1>2, <1>3, <1>4, <1>5, <1>6, <1>7, <1>8, <1>9, <1>10, <1>11 DEF Next

\* The dialog stands as long as its request is carried out.
LEMMA DialogKept ==
    ASSUME Requests, DialogHolds, Next
    PROVE  DialogHolds'
<1>1. CASE SubmitEdit \/ OpenDeleteConfirm
  BY <1>1 DEF SubmitEdit, OpenDeleteConfirm, AskFor, Ask, PageIsFree, DialogHolds, marks
<1>2. CASE RunConfirm
  BY <1>2 DEF RunConfirm, GraceEnds, DialogHolds, marks
<1>3. CASE WriteFails \/ Finish
  BY <1>3 DEF WriteFails, Finish, AfterFailure, StaysOpen, Answered, DialogHolds, marks, dialog
<1>4. CASE Write
  <2>1. asked' = asked /\ editing' = editing /\ confirming' = confirming /\ grace' = grace
        /\ work # None /\ work'.mine = work.mine
    BY <1>4 DEF Write, working, Requests, marks, dialog
  <2> QED BY <2>1 DEF DialogHolds
<1>5. CASE DialogStep
  BY <1>5 DEF DialogStep, DialogNext, ClickConfirm, Cancel, ExitEnds, busy, DialogHolds,
    marks, request
<1>6. CASE LeaveAndReturn
  <2>1. asked' = None /\ (work' # None => work # None /\ work'.mine = FALSE)
    BY <1>6 DEF LeaveAndReturn, Unmounted, Requests
  <2> QED BY <2>1 DEF DialogHolds
<1>7. ASSUME NEW i \in 1..PageSize, ToggleRow(i) \/ StartEdit(i)
      PROVE  DialogHolds'
  BY <1>7 DEF ToggleRow, StartEdit, Mark, PageIsFree, DialogHolds, request, dialog
<1>8. CASE ToggleSort \/ Correct \/ Refetch \/ ToggleAll \/ CancelEdit \/ PollReadonly
  BY <1>8 DEF ToggleSort, Correct, Refetch, ToggleAll, CancelEdit, PollReadonly, Move, Mark,
    ResetMarks, DialogHolds, marks, request, dialog
<1>9. ASSUME NEW t \in Tables, ShowTable(t) \/ Insert(t) \/ Delete(t)
      PROVE  DialogHolds'
  BY <1>9 DEF ShowTable, Insert, Delete, Move, ResetMarks, DialogHolds, marks, request, dialog
<1>10. ASSUME NEW p \in Pages, GoToPage(p)
       PROVE  DialogHolds'
  BY <1>10 DEF GoToPage, Move, ResetMarks, DialogHolds, marks, request, dialog
<1>11. ASSUME NEW k \in Keys, Arrive(k)
       PROVE  DialogHolds'
  BY <1>11 DEF Arrive, DialogHolds, marks, request, dialog
<1> QED
  BY <1>1, <1>2, <1>3, <1>4, <1>5, <1>6, <1>7, <1>8, <1>9, <1>10, <1>11 DEF Next

-----------------------------------------------------------------------------
(***************************************************************************)
(* The tables, and what is read of them.                                   *)
(***************************************************************************)

LEMMA RowsOfTable ==
    ASSUME TypeOK, Database, NEW t \in Tables
    PROVE  IsFiniteSet(rows[t]) /\ Cardinality(rows[t]) \in 0..MaxRows[t]
<1>1. inserted[t] \in Nat /\ inserted[t] <= MaxRows[t] /\ MaxRows[t] \in Nat
  BY TablesPageAssumption DEF TypeOK, Database
<1>2. IsFiniteSet(1..inserted[t]) /\ Cardinality(1..inserted[t]) = inserted[t]
  BY <1>1, FS_Interval, 1 \in Int, inserted[t] \in Int
<1>3. rows[t] \subseteq 1..inserted[t]
  BY DEF TypeOK
<1>4. IsFiniteSet(rows[t]) /\ Cardinality(rows[t]) <= inserted[t]
  BY <1>2, <1>3, FS_Subset
<1>5. Cardinality(rows[t]) \in Nat
  BY <1>4, FS_CardinalityType
<1> QED BY <1>1, <1>4, <1>5

LEMMA AnswerIsProper ==
    ASSUME TypeOK, Database, NEW key \in Keys
    PROVE  Answer(key).key = key /\ Proper(Answer(key))
<1>1. key[1] \in Tables
  BY DEF Keys
<1>2. Cardinality(rows[key[1]]) \in 0..MaxRows[key[1]]
  BY <1>1, RowsOfTable
<1>3. Answer(key).key = key /\ Answer(key).total = Cardinality(rows[key[1]])
  BY DEF Answer
<1>4. DOMAIN Answer(key).rows \subseteq 1..PageSize
  BY DEF Answer
<1> QED BY <1>2, <1>3, <1>4 DEF Proper

LEMMA NothingIsProper ==
    ASSUME NEW key \in Keys
    PROVE  Nothing(key).key = key /\ Proper(Nothing(key))
<1>1. key[1] \in Tables
  BY DEF Keys
<1>2. 0 \in 0..MaxRows[key[1]]
  BY <1>1, TablesPageAssumption
<1> QED BY <1>2 DEF Nothing, Proper

LEMMA Quotient ==
    ASSUME NEW a \in Nat, NEW b \in Nat \ {0}
    PROVE  a \div b \in 0..a
  OBVIOUS

\* The last page of an answer is a page a table can have.
LEMMA PagesOfAnswer ==
    ASSUME NEW answer, answer # None => Proper(answer)
    PROVE  PageCount(answer) - 1 \in Pages
<1>1. 0 \in Pages
  BY TablesPageAssumption DEF Pages
<1>2. CASE answer = None \/ answer.total = 0
  BY <1>1, <1>2 DEF PageCount
<1>3. CASE ~(answer = None \/ answer.total = 0)
  <2> DEFINE t == answer.key[1]
  <2>1. t \in Tables /\ MaxRows[t] \in Nat /\ answer.total \in 1..MaxRows[t]
    BY <1>3, TablesPageAssumption DEF Proper, Keys
  <2>2. (answer.total - 1) \div PageSize \in 0..(answer.total - 1)
    BY <2>1, Quotient, TablesPageAssumption
  <2>3. PageCount(answer) - 1 = (answer.total - 1) \div PageSize
    BY <1>3, <2>1, <2>2 DEF PageCount
  <2>4. PageCount(answer) - 1 \in 0..MaxRows[t]
    BY <2>1, <2>2, <2>3
  <2> QED BY <2>1, <2>4 DEF Pages
<1> QED BY <1>2, <1>3

LEMMA DatabaseNext ==
    ASSUME Database, Next
    PROVE  Database'
<1>1. ASSUME NEW t \in Tables, ShowTable(t)
      PROVE  Database'
  BY <1>1 DEF ShowTable, Move, Database, database
<1>2. ASSUME NEW t \in Tables, Insert(t)
      PROVE  Database'
  BY <1>2 DEF Insert, Database, place
<1>3. ASSUME NEW t \in Tables, Delete(t)
      PROVE  Database'
  BY <1>3 DEF Delete, Database, place
<1>4. CASE Write \/ WriteFails
  <2>1. Effect \in [Tables -> SUBSET Nat]
    BY DEF Effect, Database
  <2> QED BY <1>4, <2>1 DEF Write, WriteFails, Database, place
<1>5. CASE LeaveAndReturn
  BY <1>5, TablesPageAssumption DEF LeaveAndReturn, Database, database
<1>6. CASE ToggleSort \/ Correct \/ Refetch \/ ToggleAll \/ CancelEdit \/ SubmitEdit
             \/ OpenDeleteConfirm \/ RunConfirm \/ Finish \/ PollReadonly \/ DialogStep
  BY <1>6 DEF ToggleSort, Move, Correct, Refetch, ToggleAll, CancelEdit, Mark, SubmitEdit, AskFor,
    OpenDeleteConfirm, RunConfirm, Finish, PollReadonly, DialogStep, Database, database, place
<1>7. ASSUME NEW p \in Pages, GoToPage(p)
      PROVE  Database'
  BY <1>7 DEF GoToPage, Move, Database, database
<1>8. ASSUME NEW k \in Keys, Arrive(k)
      PROVE  Database'
  BY <1>8 DEF Arrive, Database, place
<1>9. ASSUME NEW i \in 1..PageSize, ToggleRow(i) \/ StartEdit(i)
      PROVE  Database'
  BY <1>9 DEF ToggleRow, StartEdit, Mark, Database, database, place
<1> QED BY <1>1, <1>2, <1>3, <1>4, <1>5, <1>6, <1>7, <1>8, <1>9 DEF Next

\* Nothing but an answer of the database comes into the cache, and nothing but what is
\* cached is shown.
LEMMA LookIsProper ==
    ASSUME ReadsAreProper, NEW key \in Keys, NEW before, before # None => Proper(before),
           Look(key, before)
    PROVE  shown' # None => Proper(shown')
  BY DEF Look, ReadsAreProper

LEMMA ReadsNext ==
    ASSUME TypeOK, Database, ReadsAreProper, Next
    PROVE  ReadsAreProper' /\ \A k \in Keys : cache'[k] # None => cache'[k].key = k
<1>1. ASSUME NEW k \in Keys, Arrive(k)
      PROVE  ReadsAreProper' /\ \A l \in Keys : cache'[l] # None => cache'[l].key = l
  <2>1. PICK answer \in {Answer(k), Nothing(k)} :
          cache' = [cache EXCEPT ![k] = answer] /\ (shown' = answer \/ shown' = shown)
    BY <1>1 DEF Arrive
  <2>2. answer.key = k /\ Proper(answer)
    BY AnswerIsProper, NothingIsProper
  <2>3. ASSUME NEW l \in Keys, cache'[l] # None
        PROVE  cache'[l].key = l /\ Proper(cache'[l])
    <3>1. CASE l = k
      BY <2>1, <2>2, <3>1 DEF ReadsAreProper
    <3>2. CASE l # k
      BY <2>1, <2>3, <3>2 DEF ReadsAreProper, TypeOK
    <3> QED BY <3>1, <3>2
  <2>4. shown' # None => Proper(shown')
    BY <2>1, <2>2 DEF ReadsAreProper
  <2>5. DOMAIN cache' = Keys
    BY <2>1 DEF ReadsAreProper
  <2> QED BY <2>3, <2>4, <2>5 DEF ReadsAreProper, Proper
<1>2. ASSUME cache' = cache, shown' # None => Proper(shown')
      PROVE  ReadsAreProper' /\ \A k \in Keys : cache'[k] # None => cache'[k].key = k
  BY <1>2 DEF ReadsAreProper, Proper, TypeOK
<1>3. ASSUME NEW t \in Tables, ShowTable(t)
      PROVE  cache' = cache /\ (shown' # None => Proper(shown'))
  <2> DEFINE stray == <<t, page, order>>
             seen == IF cache[stray] # None THEN cache[stray] ELSE shown
             key == <<t, page', "asc">>
  <2>1. stray \in Keys
    BY DEF TypeOK, Keys, current
  <2>2. seen # None => Proper(seen)
    BY <2>1 DEF ReadsAreProper
  <2>3. page' = IF page + 1 > PageCount(seen) THEN PageCount(seen) - 1 ELSE 0
    BY <1>3 DEF ShowTable
  <2>4. page' \in Pages
    BY <2>2, <2>3, PagesOfAnswer, TablesPageAssumption DEF Pages
  <2>5. key \in Keys
    BY <2>4 DEF Keys, Orders
  <2>6. cache' = cache /\ shown' = IF cache[key] # None THEN cache[key] ELSE seen
    BY <1>3 DEF ShowTable, Move
  <2> QED BY <2>2, <2>5, <2>6 DEF ReadsAreProper
<1>4. ASSUME NEW p \in Pages, GoToPage(p)
      PROVE  cache' = cache /\ (shown' # None => Proper(shown'))
  <2>1. <<active, p, order>> \in Keys
    BY DEF TypeOK, Keys, current
  <2>2. cache' = cache /\ Look(<<active, p, order>>, shown)
    BY <1>4 DEF GoToPage, Move
  <2> QED BY <2>1, <2>2, LookIsProper DEF ReadsAreProper
<1>5. CASE ToggleSort
  <2>1. <<active, 0, order'>> \in Keys
    BY <1>5, TablesPageAssumption DEF ToggleSort, Database, Keys, Orders, Pages
  <2>2. cache' = cache /\ Look(<<active, 0, order'>>, shown)
    BY <1>5 DEF ToggleSort, Move
  <2>3. shown' # None => Proper(shown')
    BY <2>1, <2>2, LookIsProper DEF ReadsAreProper
  <2> QED BY <1>2, <2>2, <2>3
<1>6. CASE Correct
  <2>1. page' \in Pages
    BY <1>6, PagesOfAnswer DEF Correct, LastPage, ReadsAreProper
  <2>2. <<active, page', order>> \in Keys
    BY <2>1 DEF TypeOK, Keys, current
  <2>3. cache' = cache /\ Look(<<active, page', order>>, shown)
    BY <1>6 DEF Correct
  <2>4. shown' # None => Proper(shown')
    BY <2>2, <2>3, LookIsProper DEF ReadsAreProper
  <2> QED BY <1>2, <2>3, <2>4
<1>7. CASE LeaveAndReturn
  <2>1. <<First, 0, "asc">> \in Keys
    BY TablesPageAssumption DEF Keys, Orders, Pages
  <2>2. cache' = cache /\ Look(<<First, 0, "asc">>, None)
    BY <1>7 DEF LeaveAndReturn
  <2>3. shown' # None => Proper(shown')
    BY <2>1, <2>2, LookIsProper
  <2> QED BY <1>2, <2>2, <2>3
<1>8. CASE Refetch \/ ToggleAll \/ CancelEdit \/ SubmitEdit \/ OpenDeleteConfirm \/ RunConfirm
             \/ Write \/ WriteFails \/ Finish \/ PollReadonly \/ DialogStep
  <2>1. cache' = cache /\ shown' = shown
    BY <1>8 DEF Refetch, ToggleAll, CancelEdit, Mark, SubmitEdit, AskFor, OpenDeleteConfirm,
      RunConfirm, Write, WriteFails, Finish, PollReadonly, DialogStep
  <2> QED BY <1>2, <2>1 DEF ReadsAreProper
<1>9. ASSUME NEW i \in 1..PageSize, ToggleRow(i) \/ StartEdit(i)
      PROVE  cache' = cache /\ shown' = shown
  BY <1>9 DEF ToggleRow, StartEdit, Mark
<1>10. ASSUME NEW t \in Tables, Insert(t) \/ Delete(t)
       PROVE  cache' = cache /\ shown' = shown
  BY <1>10 DEF Insert, Delete
<1> QED
  BY <1>1, <1>2, <1>3, <1>4, <1>5, <1>6, <1>7, <1>8, <1>9, <1>10 DEF Next, ReadsAreProper

\* The page goes to places that exist, and reads what it goes to.
LEMMA PlaceNext ==
    ASSUME TypeOK, Database, ReadsAreProper, Next
    PROVE  current' \in Keys /\ inflight' \subseteq Keys
<1>1. active \in Tables /\ page \in Pages /\ order \in Orders /\ inflight \subseteq Keys
  BY DEF TypeOK, Keys, current
<1>2. ASSUME NEW t \in Tables, ShowTable(t)
      PROVE  current' \in Keys /\ inflight' \subseteq Keys
  <2> DEFINE stray == <<t, page, order>>
             seen == IF cache[stray] # None THEN cache[stray] ELSE shown
             key == <<t, page', "asc">>
  <2>1. stray \in Keys
    BY <1>1 DEF Keys
  <2>2. seen # None => Proper(seen)
    BY <2>1 DEF ReadsAreProper
  <2>3. page' = IF page + 1 > PageCount(seen) THEN PageCount(seen) - 1 ELSE 0
    BY <1>2 DEF ShowTable
  <2>4. page' \in Pages
    BY <2>2, <2>3, PagesOfAnswer, TablesPageAssumption DEF Pages
  <2>5. key \in Keys
    BY <2>4 DEF Keys, Orders
  <2>6. active' = t /\ order' = "asc"
    BY <1>2 DEF ShowTable
  <2>7. inflight' = inflight \cup {k \in {stray, key} : cache[k] = None}
    BY <1>2 DEF ShowTable
  <2> QED BY <1>1, <2>1, <2>5, <2>6, <2>7 DEF current
<1>3. ASSUME NEW key \in Keys, NEW before, Look(key, before)
      PROVE  inflight' \subseteq Keys
  BY <1>1, <1>3 DEF Look
<1>4. ASSUME NEW p \in Pages, GoToPage(p)
      PROVE  current' \in Keys /\ inflight' \subseteq Keys
  <2>1. <<active, p, order>> \in Keys
    BY <1>1 DEF Keys
  <2> QED BY <1>3, <1>4, <2>1 DEF GoToPage, current
<1>5. CASE ToggleSort
  <2>1. <<active, 0, order'>> \in Keys
    BY <1>1, <1>5, TablesPageAssumption DEF ToggleSort, Keys, Orders, Pages
  <2> QED BY <1>3, <1>5, <2>1 DEF ToggleSort, current
<1>6. CASE Correct
  <2>1. page' \in Pages
    BY <1>6, PagesOfAnswer DEF Correct, LastPage, ReadsAreProper
  <2>2. <<active, page', order>> \in Keys
    BY <1>1, <2>1 DEF Keys
  <2> QED BY <1>3, <1>6, <2>2 DEF Correct, current
<1>7. CASE LeaveAndReturn
  <2>1. <<First, 0, "asc">> \in Keys
    BY TablesPageAssumption DEF Keys, Orders, Pages
  <2> QED BY <1>3, <1>7, <2>1 DEF LeaveAndReturn, current
<1>8. CASE Refetch \/ Write
  BY <1>1, <1>8 DEF Refetch, Write, Invalidate, place, current, Keys
<1>9. CASE ToggleAll \/ CancelEdit \/ SubmitEdit \/ OpenDeleteConfirm \/ RunConfirm
             \/ WriteFails \/ Finish \/ PollReadonly \/ DialogStep
  <2>1. place' = place /\ inflight' = inflight
    BY <1>9 DEF ToggleAll, CancelEdit, Mark, SubmitEdit, AskFor, OpenDeleteConfirm,
      RunConfirm, WriteFails, Finish, PollReadonly, DialogStep
  <2> QED BY <2>1, <1>1 DEF place, current, Keys
<1>10. ASSUME NEW i \in 1..PageSize, ToggleRow(i) \/ StartEdit(i)
       PROVE  current' \in Keys /\ inflight' \subseteq Keys
  BY <1>1, <1>10 DEF ToggleRow, StartEdit, Mark, place, current, Keys
<1>11. ASSUME NEW t \in Tables, Insert(t) \/ Delete(t)
       PROVE  current' \in Keys /\ inflight' \subseteq Keys
  BY <1>1, <1>11 DEF Insert, Delete, place, current, Keys
<1>12. ASSUME NEW k \in Keys, Arrive(k)
       PROVE  current' \in Keys /\ inflight' \subseteq Keys
  BY <1>1, <1>12 DEF Arrive, place, current, Keys
<1> QED
  BY <1>2, <1>4, <1>5, <1>6, <1>7, <1>8, <1>9, <1>10, <1>11, <1>12 DEF Next

\* Places are marked that a page has.
LEMMA MarkTypes ==
    ASSUME TypeOK, ReadsAreProper, Next
    PROVE  selected' \subseteq 1..PageSize /\ editing' \in {None} \cup 1..PageSize
<1>1. ASSUME NEW t \in Tables, ShowTable(t) \/ Insert(t) \/ Delete(t)
      PROVE  selected' \subseteq 1..PageSize /\ editing' \in {None} \cup 1..PageSize
  BY <1>1, MovesClear DEF Insert, Delete, marks, TypeOK
<1>2. ASSUME NEW p \in Pages, GoToPage(p)
      PROVE  selected' \subseteq 1..PageSize /\ editing' \in {None} \cup 1..PageSize
  BY <1>2, MovesClear
<1>3. ASSUME NEW i \in 1..PageSize, ToggleRow(i) \/ StartEdit(i)
      PROVE  selected' \subseteq 1..PageSize /\ editing' \in {None} \cup 1..PageSize
  BY <1>3 DEF ToggleRow, StartEdit, TypeOK
<1>4. CASE ToggleAll
  BY <1>4 DEF ToggleAll, ReadsAreProper, Proper, TypeOK
<1>5. CASE ToggleSort \/ Correct \/ LeaveAndReturn
  BY <1>5, MovesClear
<1>6. CASE CancelEdit \/ SubmitEdit \/ Finish
  BY <1>6 DEF CancelEdit, SubmitEdit, Finish, TypeOK
<1>7. CASE Refetch \/ OpenDeleteConfirm \/ RunConfirm \/ Write \/ WriteFails \/ PollReadonly
             \/ DialogStep
  BY <1>7 DEF Refetch, OpenDeleteConfirm, RunConfirm, Write, WriteFails, PollReadonly, DialogStep,
    marks, TypeOK
<1>8. ASSUME NEW k \in Keys, Arrive(k)
      PROVE  selected' \subseteq 1..PageSize /\ editing' \in {None} \cup 1..PageSize
  BY <1>8 DEF Arrive, marks, TypeOK
<1> QED BY <1>1, <1>2, <1>3, <1>4, <1>5, <1>6, <1>7, <1>8 DEF Next

LEMMA DialogTypes ==
    ASSUME TypeOK, Next
    PROVE  grace' \in {"off", "on", "dropped"} /\ confirming' \in BOOLEAN
<1>1. ASSUME dialog' = dialog
      PROVE  grace' \in {"off", "on", "dropped"} /\ confirming' \in BOOLEAN
  BY <1>1 DEF dialog, TypeOK
<1>2. ASSUME NEW t \in Tables, ShowTable(t) \/ Insert(t) \/ Delete(t)
      PROVE  dialog' = dialog
  BY <1>2 DEF ShowTable, Move, Insert, Delete
<1>3. ASSUME NEW p \in Pages, GoToPage(p)
      PROVE  dialog' = dialog
  BY <1>3 DEF GoToPage, Move
<1>4. ASSUME NEW i \in 1..PageSize, ToggleRow(i) \/ StartEdit(i)
      PROVE  dialog' = dialog
  BY <1>4 DEF ToggleRow, StartEdit, Mark
<1>5. ASSUME NEW k \in Keys, Arrive(k)
      PROVE  dialog' = dialog
  BY <1>5 DEF Arrive
<1>6. CASE ToggleSort \/ Correct \/ Refetch \/ ToggleAll \/ CancelEdit \/ PollReadonly \/ Write
  <2>1. dialog' = dialog
    BY <1>6 DEF ToggleSort, Move, Correct, Refetch, ToggleAll, CancelEdit, Mark, PollReadonly, Write
  <2> QED BY <1>1, <2>1
<1>7. CASE SubmitEdit \/ OpenDeleteConfirm
  BY <1>7 DEF SubmitEdit, OpenDeleteConfirm, AskFor, Ask, TypeOK
<1>8. CASE RunConfirm
  BY <1>8 DEF RunConfirm, GraceEnds
<1>9. CASE WriteFails \/ Finish
  BY <1>9 DEF WriteFails, Finish, AfterFailure, StaysOpen, Answered, dialog, TypeOK
<1>10. CASE LeaveAndReturn
  BY <1>10 DEF LeaveAndReturn, Unmounted
<1>11. CASE DialogStep
  BY <1>11 DEF DialogStep, DialogNext, ClickConfirm, Cancel, ExitEnds, TypeOK
<1> QED
  BY <1>1, <1>2, <1>3, <1>4, <1>5, <1>6, <1>7, <1>8, <1>9, <1>10, <1>11 DEF Next

-----------------------------------------------------------------------------
(***************************************************************************)
(* The writes.                                                             *)
(***************************************************************************)

\* Rows come with keys of their own, and only a write or another program takes any away.
LEMMA RowsNext ==
    ASSUME TypeOK, Database, Next
    PROVE  \A t \in Tables :
             /\ inserted[t] <= inserted'[t]
             /\ rows'[t] \subseteq 1..inserted'[t] /\ inserted'[t] \in Initially[t]..MaxRows[t]
             /\ \A k \in rows'[t] : k \in rows[t] \/ k > inserted[t]
<1> DEFINE Kept == \A t \in Tables :
             /\ inserted[t] <= inserted'[t]
             /\ rows'[t] \subseteq 1..inserted'[t] /\ inserted'[t] \in Initially[t]..MaxRows[t]
             /\ \A k \in rows'[t] : k \in rows[t] \/ k > inserted[t]
<1>1. \A t \in Tables : inserted[t] \in Nat /\ rows[t] \subseteq 1..inserted[t]
                          /\ inserted[t] \in Initially[t]..MaxRows[t]
                          /\ Initially[t] \in Nat /\ MaxRows[t] \in Nat
  BY TablesPageAssumption DEF TypeOK, Database
<1>2. ASSUME inserted' = inserted, \A t \in Tables : rows'[t] \subseteq rows[t]
      PROVE  Kept
  BY <1>1, <1>2
<1>3. ASSUME NEW s \in Tables, Insert(s)
      PROVE  Kept
  <2>1. /\ inserted[s] < MaxRows[s]
        /\ \A t \in Tables : inserted'[t] = IF t = s THEN inserted[t] + 1 ELSE inserted[t]
        /\ \A t \in Tables : rows'[t] = IF t = s THEN rows[t] \cup {inserted'[t]} ELSE rows[t]
    BY <1>3 DEF Insert, Database
  <2>2. ASSUME NEW t \in Tables, t # s
        PROVE  inserted'[t] = inserted[t] /\ rows'[t] = rows[t]
    BY <2>1, <2>2
  <2>3. inserted'[s] = inserted[s] + 1 /\ rows'[s] = rows[s] \cup {inserted[s] + 1}
    BY <2>1
  <2>4. rows'[s] \subseteq 1..(inserted[s] + 1)
    BY <1>1, <2>3
  <2> QED BY <1>1, <2>1, <2>2, <2>3, <2>4
<1>4. ASSUME NEW s \in Tables, Delete(s)
      PROVE  Kept
  BY <1>2, <1>4 DEF Delete, Database
<1>5. CASE Write \/ WriteFails
  <2>1. \A t \in Tables : Effect[t] \subseteq rows[t]
    BY DEF Effect, Database
  <2>2. inserted' = inserted /\ (rows' = Effect \/ rows' = rows)
    BY <1>5 DEF Write, WriteFails
  <2> QED BY <1>2, <2>1, <2>2
<1>6. ASSUME inserted' = inserted, rows' = rows
      PROVE  Kept
  BY <1>2, <1>6
<1>7. CASE ToggleSort \/ Correct \/ Refetch \/ ToggleAll \/ CancelEdit \/ SubmitEdit
             \/ OpenDeleteConfirm \/ RunConfirm \/ Finish \/ LeaveAndReturn \/ PollReadonly
             \/ DialogStep
  <2>1. database' = database
    BY <1>7 DEF ToggleSort, Move, Correct, Refetch, ToggleAll, CancelEdit, Mark, SubmitEdit, AskFor,
      OpenDeleteConfirm, RunConfirm, Finish, LeaveAndReturn, PollReadonly, DialogStep, database
  <2> QED BY <1>6, <2>1 DEF database
<1>8. ASSUME NEW p \in Pages, GoToPage(p)
      PROVE  Kept
  BY <1>6, <1>8 DEF GoToPage, Move, database
<1>9. ASSUME NEW k \in Keys, Arrive(k)
      PROVE  Kept
  BY <1>6, <1>9 DEF Arrive
<1>10. ASSUME NEW i \in 1..PageSize, ToggleRow(i) \/ StartEdit(i)
       PROVE  Kept
  BY <1>6, <1>10 DEF ToggleRow, StartEdit, Mark, database
<1>11. ASSUME NEW t \in Tables, ShowTable(t)
       PROVE  Kept
  BY <1>6, <1>11 DEF ShowTable, Move, database
<1> QED BY <1>3, <1>4, <1>5, <1>7, <1>8, <1>9, <1>10, <1>11 DEF Next

\* What a step does to the request that is carried out.
LEMMA WorkNext ==
    ASSUME Requests, Next, work' # None
    PROVE  \/ /\ work # None /\ work'.request = work.request /\ work'.left = work.left
              /\ work' = [request |-> work'.request, left |-> work'.left, mine |-> work'.mine]
           \/ /\ Write /\ work # None
              /\ work'.request = work.request /\ work'.left = work.left \ {upcoming}
              /\ work' = [request |-> work'.request, left |-> work'.left, mine |-> work'.mine]
           \/ /\ RunConfirm /\ asked # None
              /\ work' = [request |-> asked, left |-> DOMAIN asked.keys, mine |-> TRUE]
<1>1. CASE work' = work
  BY <1>1 DEF Requests
<1>2. CASE Write
  BY <1>2 DEF Write, working, Requests
<1>3. CASE RunConfirm
  BY <1>3 DEF RunConfirm, Requests
<1>4. CASE WriteFails \/ Finish
  BY <1>4 DEF WriteFails, AfterFailure, Finish
<1>5. CASE LeaveAndReturn
  BY <1>5 DEF LeaveAndReturn, Requests
<1>6. CASE ToggleSort \/ Correct \/ Refetch \/ ToggleAll \/ CancelEdit \/ SubmitEdit
             \/ OpenDeleteConfirm \/ PollReadonly \/ DialogStep
  <2>1. work' = work
    BY <1>6 DEF ToggleSort, Move, Correct, Refetch, ToggleAll, CancelEdit, Mark, SubmitEdit, AskFor,
      OpenDeleteConfirm, PollReadonly, DialogStep, request
  <2> QED BY <1>1, <2>1
<1>7. ASSUME NEW t \in Tables, ShowTable(t) \/ Insert(t) \/ Delete(t)
      PROVE  work' = work
  BY <1>7 DEF ShowTable, Move, Insert, Delete, request
<1>8. ASSUME NEW p \in Pages, GoToPage(p)
      PROVE  work' = work
  BY <1>8 DEF GoToPage, Move, request
<1>9. ASSUME NEW k \in Keys, Arrive(k)
      PROVE  work' = work
  BY <1>9 DEF Arrive, request
<1>10. ASSUME NEW i \in 1..PageSize, ToggleRow(i) \/ StartEdit(i)
       PROVE  work' = work
  BY <1>10 DEF ToggleRow, StartEdit, Mark, request
<1> QED BY <1>1, <1>2, <1>3, <1>4, <1>5, <1>6, <1>7, <1>8, <1>9, <1>10 DEF Next

\* A new request is for the table the page is at.
LEMMA AskedNext ==
    ASSUME Next, asked' # None
    PROVE  \/ asked' = asked
           \/ /\ SubmitEdit \/ OpenDeleteConfirm
              /\ asked = None /\ database' = database
              /\ asked'.table = active /\ asked'.known = inserted[active]
<1>1. CASE SubmitEdit \/ OpenDeleteConfirm
  BY <1>1 DEF SubmitEdit, OpenDeleteConfirm, AskFor, Ask, PageIsFree
<1>2. CASE RunConfirm \/ WriteFails \/ Finish \/ LeaveAndReturn
  BY <1>2 DEF RunConfirm, GraceEnds, WriteFails, AfterFailure, StaysOpen, Finish, Answered,
    LeaveAndReturn, Unmounted, dialog
<1>3. CASE DialogStep
  BY <1>3 DEF DialogStep, DialogNext, ClickConfirm, Cancel, ExitEnds
<1>4. CASE ToggleSort \/ Correct \/ Refetch \/ ToggleAll \/ CancelEdit \/ Write \/ PollReadonly
  BY <1>4 DEF ToggleSort, Move, Correct, Refetch, ToggleAll, CancelEdit, Mark, Write, PollReadonly,
    dialog
<1>5. ASSUME NEW t \in Tables, ShowTable(t) \/ Insert(t) \/ Delete(t)
      PROVE  asked' = asked
  BY <1>5 DEF ShowTable, Move, Insert, Delete, dialog
<1>6. ASSUME NEW p \in Pages, GoToPage(p)
      PROVE  asked' = asked
  BY <1>6 DEF GoToPage, Move, dialog
<1>7. ASSUME NEW k \in Keys, Arrive(k)
      PROVE  asked' = asked
  BY <1>7 DEF Arrive, dialog
<1>8. ASSUME NEW i \in 1..PageSize, ToggleRow(i) \/ StartEdit(i)
      PROVE  asked' = asked
  BY <1>8 DEF ToggleRow, StartEdit, Mark, dialog
<1> QED BY <1>1, <1>2, <1>3, <1>4, <1>5, <1>6, <1>7, <1>8 DEF Next

LEMMA RequestsNext ==
    ASSUME TypeOK, Database, Requests, Next
    PROVE  Requests'
<1>1. ASSUME NEW q, Request(q)
      PROVE  Request(q)'
  BY <1>1, RowsNext, DatabaseNext DEF Request, Database
<1>2. ASSUME asked' # None
      PROVE  Request(asked)'
  <2>1. CASE asked' = asked
    BY <1>1, <1>2, <2>1 DEF Requests, Request
  <2>2. CASE database' = database /\ asked'.table = active /\ asked'.known = inserted[active]
    BY <2>2 DEF Request, Database, database
  <2> QED BY <1>2, <2>1, <2>2, AskedNext
<1>3. ASSUME work' # None
      PROVE  /\ work' = [request |-> work'.request, left |-> work'.left, mine |-> work'.mine]
             /\ Request(work.request)'
  <2>1. CASE work # None /\ work'.request = work.request
    BY <1>1, <1>3, <2>1, WorkNext DEF Requests, Request
  <2>2. CASE /\ asked # None
             /\ work' = [request |-> asked, left |-> DOMAIN asked.keys, mine |-> TRUE]
    BY <1>1, <2>2 DEF Requests, Request
  <2> QED BY <1>3, <2>1, <2>2, WorkNext
<1> QED BY <1>2, <1>3 DEF Requests

LEMMA WrittenNext ==
    ASSUME TypeOK, Database, Requests, WrittenAreGone, Next
    PROVE  WrittenAreGone'
<1> SUFFICES ASSUME work' # None, work'.request.kind = "delete",
                    NEW i \in DOMAIN work'.request.keys \ work'.left,
                    work'.request.keys[i] <= work'.request.known
             PROVE  work'.request.keys[i] \notin rows'[work'.request.table]
  BY DEF WrittenAreGone
<1> DEFINE q == work'.request
           k == q.keys[i]
<1>1. CASE work # None /\ q = work.request
  <2>1. q.table \in Tables /\ q.known \in Nat /\ q.known <= inserted[q.table]
        /\ inserted[q.table] \in Nat
    BY <1>1 DEF Requests, Request, Database
  <2>2. k \in rows'[q.table] => k \in rows[q.table]
    <3>1. ASSUME k \in rows'[q.table], k > inserted[q.table]
          PROVE  FALSE
      BY <2>1, <3>1, RowsNext, DatabaseNext DEF Database
    <3> QED BY <2>1, <3>1, RowsNext
  <2>3. CASE i \notin work.left
    BY <1>1, <2>2, <2>3 DEF WrittenAreGone
  <2>4. CASE Write /\ i = upcoming
    BY <1>1, <2>1, <2>4 DEF Write, Effect, Database
  <2>5. (i \notin work.left) \/ (Write /\ i = upcoming)
    <3> HIDE DEF q, k
    <3>0. i \notin work'.left
      OBVIOUS
    <3>1. CASE work'.left = work.left
      BY <3>0, <3>1
    <3>2. CASE Write /\ work'.left = work.left \ {upcoming}
      BY <3>0, <3>2
    <3>3. CASE work' = [request |-> asked, left |-> DOMAIN asked.keys, mine |-> TRUE]
      BY <3>3
    <3> QED BY <3>1, <3>2, <3>3, WorkNext
  <2> QED BY <2>3, <2>4, <2>5
<1>2. CASE work' = [request |-> asked, left |-> DOMAIN asked.keys, mine |-> TRUE]
  BY <1>2
<1> QED BY <1>1, <1>2, WorkNext

-----------------------------------------------------------------------------

LEMMA InitInv == TablesInit => IInv
<1> SUFFICES ASSUME TablesInit PROVE IInv
  OBVIOUS
<1>1. 0 \in Pages /\ <<First, 0, "asc">> \in Keys
  BY TablesPageAssumption DEF Keys, Pages, Orders
<1>2. TypeOK
  <2>1. \A t \in Tables : Initially[t] \in Nat /\ MaxRows[t] \in Nat /\ Initially[t] <= MaxRows[t]
    BY TablesPageAssumption
  <2>2. \A t \in Tables : rows[t] \subseteq 1..inserted[t]
                            /\ inserted[t] \in Initially[t]..MaxRows[t]
    BY <2>1 DEF TablesInit
  <2> QED BY <1>1, <2>2 DEF TablesInit, DialogInit, TypeOK, current
<1>3. Database /\ ReadsAreProper
  BY TablesPageAssumption DEF TablesInit, Database, ReadsAreProper
<1>4. MarksAreMeant /\ DialogHolds /\ Requests /\ WrittenAreGone
  BY DEF TablesInit, DialogInit, MarksAreMeant, DialogHolds, Requests, WrittenAreGone
<1> QED BY <1>2, <1>3, <1>4 DEF IInv

LEMMA NextInv == IInv /\ [Next]_vars => IInv'
<1> SUFFICES ASSUME IInv, [Next]_vars PROVE IInv'
  OBVIOUS
<1>1. CASE Next
  <2>1. TypeOK'
    BY <1>1, RowsNext, PlaceNext, ReadsNext, MarkTypes, DialogTypes DEF IInv, TypeOK, current
  <2> QED
    BY <1>1, <2>1, DatabaseNext, ReadsNext, MarksNext, DialogKept, RequestsNext, WrittenNext DEF IInv
<1>2. CASE UNCHANGED vars
  <2> USE <1>2 DEF IInv, vars, database, place, marks, history, request, dialog
  <2>1. TypeOK' /\ Database'
    BY DEF TypeOK, Database, current
  <2>2. ReadsAreProper' /\ MarksAreMeant' /\ DialogHolds'
    BY DEF ReadsAreProper, Proper, MarksAreMeant, DialogHolds
  <2>3. Requests' /\ WrittenAreGone'
    BY DEF Requests, Request, WrittenAreGone
  <2> QED BY <2>1, <2>2, <2>3
<1> QED BY <1>1, <1>2

LEMMA Invariance == Spec => []IInv
BY InitInv, NextInv, PTL DEF Spec

\* The page is always at a table and a page that exist, marks places a page has, shows what
\* was read under the name it is cached by, and no table has more rows than were inserted
\* (useTableData.ts, tables.tsx).
THEOREM TypeCorrect == Spec => []TypeOK
<1>1. IInv => TypeOK
  BY DEF IInv
<1> QED BY <1>1, Invariance, PTL

\* Each row the page asks to write is the one the user has ticked there or begun to edit, of
\* the table it was shown for, unless another row has come into its place or the page still
\* showed those of another table (tables.tsx:198-260, :403-407; useTableData.ts:64-102).
THEOREM OnlyMeantRowsAreWritten == Spec => WritesReachMeantRows
<1> DEFINE written(i) == {None, <<asked'.table, asked'.keys[i]>>}
<1>1. ASSUME IInv, [Next]_vars, asked = None, asked' # None,
             NEW i \in DOMAIN asked'.keys
      PROVE  IF asked'.kind = "update" THEN begun \in written(i)
             ELSE i \in DOMAIN meant /\ meant[i] \in written(i)
  <2>1. Next
    BY <1>1 DEF vars, dialog
  <2>2. SubmitEdit \/ OpenDeleteConfirm
    BY <1>1, <2>1, AskedNext
  <2>3. CASE SubmitEdit
    <3>1. /\ asked'.table = active /\ asked'.keys = [j \in {editing} |-> shown.rows[j]]
          /\ asked'.kind = "update" /\ editing # None /\ editing \in DOMAIN shown.rows
      BY <2>3 DEF SubmitEdit, AskFor, Ask, OnScreen
    <3> QED BY <1>1, <3>1 DEF IInv, MarksAreMeant
  <2>4. CASE OpenDeleteConfirm
    <3>1. /\ asked'.table = active /\ asked'.keys = [j \in Ticked |-> shown.rows[j]]
          /\ asked'.kind = "delete" /\ shown # None
      BY <2>4 DEF OpenDeleteConfirm, AskFor, Ask
    <3>2. i \in selected /\ i \in DOMAIN shown.rows /\ asked'.keys[i] = shown.rows[i]
      BY <1>1, <3>1 DEF Ticked, OnScreen
    <3> QED BY <1>1, <3>1, <3>2 DEF IInv, MarksAreMeant
  <2> QED BY <2>2, <2>3, <2>4
<1>2. IInv /\ [Next]_vars =>
        [asked = None /\ asked' # None =>
           \A i \in DOMAIN asked'.keys :
             IF asked'.kind = "update" THEN begun \in written(i)
             ELSE i \in DOMAIN meant /\ meant[i] \in written(i)]_vars
  BY <1>1
<1> QED BY <1>2, Invariance, PTL DEF Spec, WritesReachMeantRows

\* A deletion is reported when none of its rows is left, however often it had to be tried
\* (tables.tsx:249-258, :263-274).
THEOREM DeletionsHold == Spec => ReportedDeletionsHold
<1>1. ASSUME IInv, work # None, Finish, work.request.kind = "delete",
             NEW k \in Range(work.request.keys), k <= work.request.known
      PROVE  k \notin rows[work.request.table]
  <2>1. work.left = {}
    BY <1>1 DEF Finish, working
  <2>2. PICK i \in DOMAIN work.request.keys : k = work.request.keys[i]
    BY DEF Range
  <2> QED BY <1>1, <2>1, <2>2 DEF IInv, WrittenAreGone
<1>2. IInv /\ [Next]_vars =>
        [work # None /\ Finish /\ work.request.kind = "delete" =>
           \A k \in Range(work.request.keys) :
             k <= work.request.known => k \notin rows[work.request.table]]_vars
  BY <1>1
<1> QED BY <1>2, Invariance, PTL DEF Spec, ReportedDeletionsHold

-----------------------------------------------------------------------------
(***************************************************************************)
(* The order of the rows.  R is the order, in the one direction or the     *)
(* other, as a set of pairs.                                               *)
(***************************************************************************)

Below(R, S, k) == {l \in S : <<l, k>> \in R}

IsOrder(R, S) ==
    /\ \A k \in S : <<k, k>> \notin R
    /\ \A k, l \in S : k # l => <<k, l>> \in R \/ <<l, k>> \in R
    /\ \A k, l, m \in S : <<k, l>> \in R /\ <<l, m>> \in R => <<k, m>> \in R

LEMMA BelowIsFinite ==
    ASSUME NEW R, NEW S, IsFiniteSet(S), NEW k
    PROVE  IsFiniteSet(Below(R, S, k)) /\ Cardinality(Below(R, S, k)) \in Nat
<1>1. Below(R, S, k) \in SUBSET S
  BY DEF Below
<1> QED BY <1>1, FS_Subset, FS_CardinalityType

LEMMA LeastNumber ==
    ASSUME NEW N \in SUBSET Nat, N # {}
    PROVE  \E n \in N : \A m \in N : n <= m
<1> DEFINE less == {p \in Nat \X Nat : p[1] < p[2]}
<1>1. IsWellFoundedOn(less, Nat)
  BY NatLessThanWellFounded DEF OpToRel
<1>2. PICK n \in N : \A m \in N : <<m, n>> \notin less
  BY <1>1, WFMin, Zenon
<1>3. \A m \in N : m \in Nat /\ n \in Nat /\ ~(m < n)
  BY <1>2
<1> QED BY <1>3

\* Of the rows of a finite table there is a first one.
LEMMA FirstRow ==
    ASSUME NEW R, NEW S, IsFiniteSet(S), IsOrder(R, S), NEW T \in SUBSET S, T # {}
    PROVE  \E k \in T : \A l \in T : <<l, k>> \notin R
<1> DEFINE N == {Cardinality(Below(R, S, k)) : k \in T}
<1>1. N \in SUBSET Nat /\ N # {}
  BY BelowIsFinite
<1> HIDE DEF N
<1>2. PICK n \in N : \A m \in N : n <= m
  BY <1>1, LeastNumber
<1>3. PICK k \in T : n = Cardinality(Below(R, S, k))
  BY DEF N
<1>4. ASSUME NEW l \in T, <<l, k>> \in R
      PROVE  FALSE
  <2>1. Below(R, S, l) \in SUBSET Below(R, S, k) /\ l \in Below(R, S, k) /\ l \notin Below(R, S, l)
    BY <1>4 DEF Below, IsOrder
  <2>2. /\ IsFiniteSet(Below(R, S, k)) /\ Cardinality(Below(R, S, k)) \in Nat
        /\ Cardinality(Below(R, S, l)) \in Nat
    BY BelowIsFinite
  <2>3. /\ Cardinality(Below(R, S, l)) <= Cardinality(Below(R, S, k))
        /\ Cardinality(Below(R, S, l)) # Cardinality(Below(R, S, k))
    BY <2>1, <2>2, FS_Subset
  <2>4. Cardinality(Below(R, S, l)) \in N
    BY DEF N
  <2> QED BY <1>2, <1>3, <2>2, <2>3, <2>4
<1> QED BY <1>4

\* For every number below that of the rows, there is a row with as many before it.
LEMMA RowWithSoManyBefore ==
    ASSUME NEW R, NEW S, IsFiniteSet(S), IsOrder(R, S),
           NEW n \in Nat, n < Cardinality(S)
    PROVE  \E k \in S : Cardinality(Below(R, S, k)) = n
<1> DEFINE Missing == {m \in Nat : /\ m < Cardinality(S)
                                   /\ \A k \in S : Cardinality(Below(R, S, k)) # m}
<1>1. SUFFICES ASSUME Missing # {}
               PROVE  FALSE
  <2>1. CASE n \in Missing
    BY <1>1, <2>1
  <2>2. CASE n \notin Missing
    BY <2>2
  <2> QED BY <2>1, <2>2
<1>2. PICK m \in Missing : \A l \in Missing : m <= l
  <2>1. Missing \in SUBSET Nat
    OBVIOUS
  <2> HIDE DEF Missing
  <2> QED BY <1>1, <2>1, LeastNumber
<1>3. m \in Nat /\ m < Cardinality(S) /\ \A k \in S : Cardinality(Below(R, S, k)) # m
  BY <1>2
<1>4. CASE m = 0
  <2>1. S # {}
    BY <1>3, <1>4, FS_EmptySet
  <2>2. PICK k \in S : \A l \in S : <<l, k>> \notin R
    BY <2>1, FirstRow
  <2>3. Below(R, S, k) = {}
    BY <2>2 DEF Below
  <2> QED BY <1>3, <1>4, <2>3, FS_EmptySet
<1>5. CASE m # 0
  <2>1. m - 1 \in Nat /\ m - 1 < Cardinality(S) /\ ~(m <= m - 1)
    BY <1>3, <1>5, FS_CardinalityType
  <2>2. m - 1 \notin Missing
    BY <1>2, <2>1
  <2>3. PICK k \in S : Cardinality(Below(R, S, k)) = m - 1
    BY <2>1, <2>2
  <2> HIDE DEF Missing
  <2> DEFINE B == Below(R, S, k) \cup {k}
  <2>4. k \notin Below(R, S, k) /\ B \in SUBSET S
    BY DEF Below, IsOrder
  <2>5. Cardinality(B) = m
    <3>1. IsFiniteSet(Below(R, S, k))
      BY BelowIsFinite
    <3>2. Cardinality(B) = Cardinality(Below(R, S, k)) + 1
      BY <2>4, <3>1, FS_AddElement
    <3> QED BY <1>3, <2>3, <3>2
  <2>6. S \ B # {}
    <3>1. B # S
      <4> HIDE DEF B
      <4> QED BY <1>3, <2>5
    <3> QED BY <2>4, <3>1
  <2>7. PICK u \in S \ B : \A l \in S \ B : <<l, u>> \notin R
    BY <2>6, FirstRow
  <2>8. Below(R, S, u) = B
    <3>1. ASSUME NEW l \in Below(R, S, u)
          PROVE  l \in B
      BY <2>7 DEF Below
    <3>2. <<k, u>> \in R
      BY <2>7 DEF Below, IsOrder
    <3>3. ASSUME NEW l \in B
          PROVE  l \in Below(R, S, u)
      BY <2>7, <3>2 DEF Below, IsOrder
    <3> QED BY <3>1, <3>3
  <2> QED BY <1>3, <2>5, <2>7, <2>8
<1> QED BY <1>4, <1>5

\* An answer is a page of the table: a row of the table at every place, with as many rows
\* before it as the pages and places before it have, so that no row comes twice, on this page
\* or on two (useTableData.ts:65-80; handlers.ts:270).
THEOREM AnswersArePages ==
    ASSUME TypeOK, Database, NEW key \in Keys, NEW i \in DOMAIN Answer(key).rows
    PROVE  /\ Answer(key).rows[i] \in rows[key[1]]
           /\ Cardinality({l \in rows[key[1]] : IF key[3] = "asc" THEN l < Answer(key).rows[i]
                                                ELSE Answer(key).rows[i] < l})
                = key[2] * PageSize + i - 1
<1> DEFINE S == rows[key[1]]
           up == {p \in S \X S : p[1] < p[2]}
           down == {p \in S \X S : p[2] < p[1]}
           R == IF key[3] = "asc" THEN up ELSE down
           Before(k) == {l \in S : IF key[3] = "asc" THEN l < k ELSE k < l}
           n == key[2] * PageSize + i - 1
<1>1. key[1] \in Tables /\ key[2] \in Nat
  BY TablesPageAssumption DEF Keys, Pages
<1>2. IsFiniteSet(S) /\ Cardinality(S) \in Nat /\ S \subseteq Nat
  <2>1. MaxRows[key[1]] \in Nat
    BY <1>1, TablesPageAssumption
  <2> QED BY <1>1, <2>1, RowsOfTable DEF Database
<1>3. IsOrder(R, S)
  <2>1. IsOrder(up, S)
    BY <1>2 DEF IsOrder
  <2>2. IsOrder(down, S)
    BY <1>2 DEF IsOrder
  <2> QED BY <2>1, <2>2
<1>4. i \in 1..PageSize /\ key[2] * PageSize + i <= Cardinality(S)
  BY DEF Answer
<1>5. n \in Nat /\ n < Cardinality(S)
  <2>1. key[2] * PageSize \in Nat
    BY <1>1, TablesPageAssumption
  <2> QED BY <1>2, <1>4, <2>1
<1>6. \A k \in S : Below(R, S, k) = Before(k)
  <2>1. CASE key[3] = "asc"
    BY <2>1 DEF Below
  <2>2. CASE key[3] # "asc"
    BY <2>2 DEF Below
  <2> QED BY <2>1, <2>2
<1>7. Answer(key).rows[i] = CHOOSE k \in S : Cardinality(Before(k)) = n
  BY DEF Answer
<1> HIDE DEF n, R, up, down
<1>8. \E k \in S : Cardinality(Below(R, S, k)) = n
  <2> HIDE DEF S, Before
  <2> QED BY <1>2, <1>3, <1>5, RowWithSoManyBefore
<1>9. \E k \in S : Cardinality(Before(k)) = n
  BY <1>6, <1>8
<1> QED BY <1>7, <1>9 DEF n
=============================================================================
