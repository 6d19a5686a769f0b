----------------------------- MODULE Statements -----------------------------
(***************************************************************************)
(* What the structured tools of the MCP server ask of PostgreSQL: the      *)
(* statements that sqlBuilder.ts makes of a call's JSON, with their        *)
(* numbered parameters, and what the handlers of toolHandlers.ts make of   *)
(* the answer.                                                             *)
(*                                                                         *)
(* A JSON object is the sequence of its entries.  The table has a key, id, *)
(* a column v that may be NULL, and a sensitive column.  Nobody else       *)
(* writes: ServerTools has the interleavings.                              *)
(***************************************************************************)
EXTENDS Naturals, FiniteSets, Sequences, SequencesExt

CONSTANTS
    Ids,        \* keys
    Values,     \* what v can be
    Null,       \* NULL, and JSON's null
    Hidden,     \* a value of the sensitive column
    Where,      \* the filters of the calls
    Data,       \* the data of the writes
    MaxTake,    \* largest page a call can ask for
    MaxRepeats  \* how often an upsert is called again

ASSUME IdsAssumption == Ids \subseteq Nat /\ Values \subseteq Nat
ASSUME BoundsAssumption == MaxTake \in Nat /\ MaxRepeats \in Nat
ASSUME NullAssumption == Null \notin Nat /\ Hidden \notin Nat /\ Hidden # Null

Row == [id : Ids, v : Values \cup {Null}, secret : {Null, Hidden}]
Column == {"id", "v", "secret"}
Unique == {<<"id">>}

VARIABLES
    table,      \* the rows
    running,    \* the tool of the current call, or "none"
    call,       \* its arguments
    statement,  \* what has been built of them, and not been run yet
    answer,     \* what the handler has answered
    before,     \* the rows before the statement
    seen,       \* the ids on the pages so far
    repeats     \* how often the upsert has been called again

statementVars == <<table, running, call, statement, answer, before, seen, repeats>>

Nothing == [none |-> TRUE]

-----------------------------------------------------------------------------
(***************************************************************************)
(* A `where`: a sequence of entries [column, tests].  {"v": null} has the  *)
(* one test "isNull", {"v": 3} the test "equals", {"v": {}} has none.      *)
(***************************************************************************)

Test(op, operands) == [op |-> op, operands |-> operands]

\* The operators that take one operand.
Operators == {"equals", "not", "gt", "gte", "lt", "lte"}

Operand == Nat \cup {Null}

LegalTest ==
    {t \in [op : Operators \cup {"isNull", "in", "notIn"}, operands : Seq(Operand)] :
        /\ t.op = "isNull" => t.operands = <<>>
        /\ t.op \in Operators => Len(t.operands) = 1}

LegalEntry == [column : {"id", "v"}, tests : Seq(LegalTest)]

ASSUME WhereAssumption == Where \subseteq Seq(LegalEntry)

\* The tests of a `where`, in order, with their columns.
Flat(where) ==
    FlattenSeq([i \in DOMAIN where |->
        [j \in DOMAIN where[i].tests |->
            [column |-> where[i].column, op |-> where[i].tests[j].op,
             operands |-> where[i].tests[j].operands]]])

\* buildWhere throws for an empty list; the blank filter has no clause and so no WHERE.
WhereIsBad(where) ==
    \E i \in DOMAIN Flat(where) :
        Flat(where)[i].op \in {"in", "notIn"} /\ Flat(where)[i].operands = <<>>

\* buildWhere: clauses that name their parameters, numbered from `offset`, and the values.
BuildWhere(where, offset) ==
    LET tests == Flat(where)
        operands(n) == FlattenSeq([i \in 1..n |-> tests[i].operands])
    IN  [clauses |-> [i \in DOMAIN tests |->
                        [column |-> tests[i].column, op |-> tests[i].op,
                         params |-> [k \in DOMAIN tests[i].operands |->
                                       offset + Len(operands(i - 1)) + k - 1]]],
         values  |-> operands(Len(tests))]

\* Data have at most one value of a column.
Field == ({"id"} \X Ids) \cup ({"v"} \X (Values \cup {Null})) \cup ({"secret"} \X {Hidden})
LegalData == {data \in Seq(Field) : \A i, j \in DOMAIN data : data[i][1] = data[j][1] => i = j}

ASSUME DataAssumption == Data \subseteq LegalData

\* The columns and the values of data.
Keys(data) == [i \in DOMAIN data |-> data[i][1]]
ValuesOf(data) == [i \in DOMAIN data |-> data[i][2]]
Has(data, column) == \E i \in DOMAIN data : data[i][1] = column
Get(data, column) == data[CHOOSE i \in DOMAIN data : data[i][1] = column][2]

\* The entries of an object that have one of these columns.
Only(data, columns) ==
    FlattenSeq([i \in DOMAIN data |-> IF data[i][1] \in columns THEN <<data[i]>> ELSE <<>>])

\* {...first, ...second}: an entry keeps its place and takes the later value.
Spread(first, second) ==
    [i \in DOMAIN first |-> IF Has(second, first[i][1])
                              THEN <<first[i][1], Get(second, first[i][1])>> ELSE first[i]]
    \o Only(second, Column \ ToSet(Keys(first)))

\* sanitizeWriteData: entries of sensitive columns are dropped.
Cleaned(data) == Only(data, Column \ {"secret"})

\* redactRow: and their values are covered.
Redact(row) == [row EXCEPT !.secret = "***REDACTED***"]

-----------------------------------------------------------------------------
(***************************************************************************)
(* The statements.                                                         *)
(***************************************************************************)

BuildInsert(data) == [kind |-> "insert", columns |-> Keys(data), values |-> ValuesOf(data)]

\* Mutant of BuildUpdate: the parameters of the filter are numbered from one.
BuildUpdateFromOne(data, where) ==
    [kind |-> "update", sets |-> Keys(data), clauses |-> BuildWhere(where, 1).clauses,
     values |-> ValuesOf(data) \o BuildWhere(where, 1).values]

\* buildUpdate: the values of SET come first.
BuildUpdate(data, where) ==
    LET fragment == BuildWhere(where, Len(data) + 1)
    IN  [kind |-> "update", sets |-> Keys(data), clauses |-> fragment.clauses,
         values |-> ValuesOf(data) \o fragment.values]

BuildDelete(where) ==
    [kind |-> "delete", clauses |-> BuildWhere(where, 1).clauses,
     values |-> BuildWhere(where, 1).values]

BuildCount(where) ==
    [kind |-> "count", clauses |-> BuildWhere(where, 1).clauses,
     values |-> BuildWhere(where, 1).values]

\* Mutant of UpdateColumns: the key is set, too.
UpdateColumnsAll(update, conflict) == update

\* Of the update the columns of the key are left out; if none remains, the SET is "id" = "id".
UpdateColumns(update, conflict) == Only(update, Column \ ToSet(conflict))

BuildUpsert(insert, update, conflict) ==
    [kind |-> "upsert", columns |-> Keys(insert), conflict |-> conflict,
     sets |-> Keys(UpdateColumns(update, conflict)),
     values |-> ValuesOf(insert) \o ValuesOf(UpdateColumns(update, conflict))]

\* The SELECT of db_find_many: LIMIT and OFFSET are part of its text.
BuildSelect(where, orderBy, take, skip) ==
    [kind |-> "select", clauses |-> BuildWhere(where, 1).clauses,
     values |-> BuildWhere(where, 1).values, orderBy |-> orderBy, take |-> take, skip |-> skip]

-----------------------------------------------------------------------------
(***************************************************************************)
(* PostgreSQL.  A comparison with NULL is not true, and neither is NOT IN  *)
(* with a NULL in the list.                                                *)
(***************************************************************************)

Compares(op, x, y) ==
    /\ x # Null /\ y # Null
    /\ \/ op = "equals" /\ x = y
       \/ op = "not" /\ x # y
       \/ op = "gt" /\ x > y
       \/ op = "gte" /\ x >= y
       \/ op = "lt" /\ x < y
       \/ op = "lte" /\ x =< y

IsTrue(clause, row, values) ==
    LET x == row[clause.column]
        given == {values[clause.params[k]] : k \in DOMAIN clause.params}
    IN  CASE clause.op = "isNull" -> x = Null
          [] clause.op = "in" -> \E y \in given : Compares("equals", x, y)
          [] clause.op = "notIn" -> \A y \in given : Compares("not", x, y)
          [] OTHER -> \A y \in given : Compares(clause.op, x, y)

Selects(s) == {r \in table : \A i \in DOMAIN s.clauses : IsTrue(s.clauses[i], r, s.values)}

Assign(row, columns, values) ==
    [c \in Column |-> IF \E i \in DOMAIN columns : columns[i] = c
                        THEN values[CHOOSE i \in DOMAIN columns : columns[i] = c]
                        ELSE row[c]]

NewRow(s) == Assign([c \in Column |-> Null], s.columns, s.values)

\* The parameters of the SET of an upsert follow those of its VALUES.
AfterInsert(s) == SubSeq(s.values, Len(s.columns) + 1, Len(s.values))

Conflicting(s) == {r \in table : \A i \in DOMAIN s.conflict :
                                    r[s.conflict[i]] = NewRow(s)[s.conflict[i]]}

\* The rows after a statement, if it succeeds.
Effect(s) ==
    CASE s.kind = "insert" -> table \cup {NewRow(s)}
      [] s.kind = "delete" -> table \ Selects(s)
      [] s.kind = "update" -> (table \ Selects(s)) \cup {Assign(r, s.sets, s.values) : r \in Selects(s)}
      [] s.kind = "upsert" -> IF Conflicting(s) = {} THEN table \cup {NewRow(s)}
                              ELSE (table \ Conflicting(s)) \cup
                                   {Assign(r, s.sets, AfterInsert(s)) : r \in Conflicting(s)}
      [] OTHER -> table

\* The key is not NULL and unique.
KeyHolds(rows) == \A r, q \in rows : r.id # Null /\ (r.id = q.id => r = q)

\* The rows after s do not violate the key; and the "id" = "id" of an upsert that sets nothing
\* is refused as ambiguous, being a column of the row there and of the one proposed.
Accepts(s) ==
    /\ KeyHolds(Effect(s))
    /\ s.kind = "upsert" => s.sets # <<>>
    /\ s.kind = "insert" => NewRow(s) \notin table
    /\ s.kind = "update" => Cardinality(Effect(s)) = Cardinality(table)

\* Orders of a set of rows that an ORDER BY allows.
Orders(rows, orderBy) ==
    {s \in [1..Cardinality(rows) -> rows] :
        /\ \A i, j \in DOMAIN s : i < j => s[i] # s[j]
        /\ orderBy = "id" => \A i, j \in DOMAIN s : i < j => s[i].id < s[j].id}

-----------------------------------------------------------------------------
(***************************************************************************)
(* The tools.                                                              *)
(***************************************************************************)

StatementsInit ==
    /\ table \in SUBSET Row /\ IsFiniteSet(table) /\ KeyHolds(table)
    /\ \A r \in table : r.secret = Hidden
    /\ running = "none"
    /\ call = Nothing
    /\ statement = Nothing
    /\ answer = Nothing
    /\ before = {}
    /\ seen = <<>>
    /\ repeats = 0

\* The handler of t builds s of the arguments c.
Builds(t, c, s) ==
    /\ running' = t
    /\ call' = c
    /\ statement' = s
    /\ before' = table
    /\ UNCHANGED <<table, answer, seen, repeats>>

\* db_create; without columns left there is nothing to insert.
Create ==
    /\ running = "none"
    /\ \E data \in Data :
         /\ Cleaned(data) # <<>>
         /\ Builds("create", [data |-> data], BuildInsert(Cleaned(data)))

\* No `update`, or an empty one, means the values of `create`.
UpdateGiven(update, create) == IF update = <<>> THEN create ELSE update

\* db_upsert: the columns of `where` must be those of a unique constraint.
Upsert ==
    /\ running = "none"
    /\ \E i \in Ids, create \in Data, update \in Data :
         LET where == <<<<"id", i>>>>
         IN  /\ create # <<>>
             /\ Keys(where) \in Unique
             /\ Builds("upsert", [where |-> where, create |-> create, update |-> update],
                       BuildUpsert(Cleaned(Spread(where, create)),
                                   Cleaned(UpdateGiven(update, create)), Keys(where)))

\* db_update_many; the rows are counted with a statement of its own.
PrepareUpdate ==
    /\ running = "none"
    /\ \E where \in Where, data \in Data :
         /\ ~WhereIsBad(where)
         /\ Cleaned(data) # <<>>
         /\ Builds("update", [where |-> where, data |-> data,
                              matched |-> Cardinality(Selects(BuildCount(where)))],
                   BuildUpdate(Cleaned(data), where))

PrepareDelete ==
    /\ running = "none"
    /\ \E where \in Where :
         /\ ~WhereIsBad(where)
         /\ Builds("delete", [where |-> where,
                              matched |-> Cardinality(Selects(BuildCount(where)))],
                   BuildDelete(where))

\* The answer of a write is that of the first row or the number of rows; one that PostgreSQL
\* refuses changes nothing.
RunWrite ==
    /\ running \in {"create", "upsert", "update", "delete"} /\ statement # Nothing
    /\ IF Accepts(statement)
         THEN /\ table' = Effect(statement)
              /\ answer' = [rows |-> {Redact(r) : r \in table' \ table}]
         ELSE /\ answer' = [error |-> TRUE]
              /\ UNCHANGED table
    /\ statement' = Nothing
    /\ UNCHANGED <<running, call, before, seen, repeats>>

\* The same upsert again.
Repeat ==
    /\ running = "upsert" /\ statement = Nothing
    /\ repeats < MaxRepeats
    /\ repeats' = repeats + 1
    /\ before' = table
    /\ statement' = BuildUpsert(Cleaned(Spread(call.where, call.create)),
                                Cleaned(UpdateGiven(call.update, call.create)), Keys(call.where))
    /\ UNCHANGED <<table, running, call, answer, seen>>

\* db_find_many.
FindMany ==
    /\ running = "none"
    /\ \E where \in Where, orderBy \in {"none", "id"}, take \in 0..MaxTake :
         /\ ~WhereIsBad(where)
         /\ Builds("find", [where |-> where, orderBy |-> orderBy, take |-> take],
                   BuildSelect(where, orderBy, take, 0))

\* Mutant of HasMore: one row too many.
HasMoreAtEnd(skip, count, total) == skip + count =< total

HasMore(skip, count, total) == skip + count < total

\* The page and the count are read at once; ids that are null in JSON cannot occur.
RunFind ==
    /\ running = "find" /\ statement # Nothing
    /\ \E order \in Orders(Selects(statement), statement.orderBy) :
         LET page == [i \in {k \in 1..statement.take : statement.skip + k =< Len(order)} |->
                        order[statement.skip + i]]
         IN  /\ answer' = [rows |-> [i \in DOMAIN page |-> Redact(page[i])],
                           hasMore |-> HasMore(statement.skip, Cardinality(DOMAIN page),
                                         Cardinality(Selects(BuildCount(call.where))))]
             /\ seen' = seen \o [i \in DOMAIN page |-> page[i].id]
    /\ statement' = Nothing
    /\ call' = [where |-> call.where, orderBy |-> call.orderBy, take |-> call.take,
                next |-> statement.skip + statement.take]
    /\ UNCHANGED <<table, running, before, repeats>>

\* The client asks for the next page as long as there is one.
NextPage ==
    /\ running = "find" /\ statement = Nothing
    /\ answer.hasMore /\ call.take > 0
    /\ statement' = BuildSelect(call.where, call.orderBy, call.take, call.next)
    /\ UNCHANGED <<table, running, call, answer, before, seen, repeats>>

StatementsNext ==
    \/ Create \/ Upsert \/ PrepareUpdate \/ PrepareDelete \/ RunWrite \/ Repeat
    \/ FindMany \/ RunFind \/ NextPage

StatementsSpec == StatementsInit /\ [][StatementsNext]_statementVars

\* The table keeps its columns and its key; `call`, `statement` and `answer` are records of
\* the tool's shape.
StatementsTypeOK ==
    /\ table \in SUBSET Row /\ KeyHolds(table) /\ before \in SUBSET Row
    /\ running \in {"none", "create", "upsert", "update", "delete", "find"}
    /\ seen \in Seq(Ids)
    /\ repeats \in 0..MaxRepeats

-----------------------------------------------------------------------------
(***************************************************************************)
(* What a call asks for, said without SQL.                                 *)
(***************************************************************************)

\* A row is meant by a test.  Only "is null" means null: an operator with null means none,
\* and no operator means a row without a value.
Meant(row, column, test) ==
    LET x == row[column]
        given == {test.operands[k] : k \in DOMAIN test.operands}
    IN  CASE test.op = "isNull" -> x = Null
          [] test.op = "equals" -> x # Null /\ x \in given
          [] test.op = "in" -> x # Null /\ x \in given
          [] test.op \in {"not", "notIn"} -> x # Null /\ Null \notin given /\ x \notin given
          [] OTHER -> /\ x # Null /\ Null \notin given
                      /\ \A y \in given : CASE test.op = "gt" -> y < x
                                            [] test.op = "gte" -> y =< x
                                            [] test.op = "lt" -> x < y
                                            [] test.op = "lte" -> x =< y

MeantBy(where) ==
    {r \in before : \A i \in DOMAIN where : \A j \in DOMAIN where[i].tests :
                        Meant(r, where[i].column, where[i].tests[j])}

Done(t) == running = t /\ statement = Nothing /\ "error" \notin DOMAIN answer

\* Update and delete reach exactly the rows their filter means, as many as were counted
\* for the warning, and an update sets the columns given and no sensitive one: the
\* parameters of filter and data are never mixed up (sqlBuilder.ts:37-187).
WritesAreAsAsked ==
    /\ Done("update") =>
         /\ call.matched = Cardinality(MeantBy(call.where))
         /\ table = (before \ MeantBy(call.where)) \cup
                    {[c \in Column |-> IF c # "secret" /\ Has(call.data, c)
                                         THEN Get(call.data, c) ELSE r[c]] : r \in MeantBy(call.where)}
    /\ Done("delete") =>
         /\ call.matched = Cardinality(MeantBy(call.where))
         /\ table = before \ MeantBy(call.where)

\* An upsert whose `create` does not name another key concerns the row of that key and no
\* other; a row that is there keeps its key; and however often the call is repeated, only
\* the first two can change anything (sqlBuilder.ts:189-224, toolHandlers.ts:1125-1191).
\* That the second can is not what the tool's description says: see UpsertsAreIdempotent.
UpsertsSettle ==
    Done("upsert") =>
        LET i == IF Has(call.create, "id") THEN Get(call.create, "id") ELSE Get(call.where, "id")
        IN  /\ \A r \in before : r.id # i => r \in table
            /\ {r.id : r \in table} = {r.id : r \in before} \cup {i}
            /\ repeats >= 2 => table = before

\* Whoever follows hasMore over a table that does not change sees every row that is meant
\* once, if the order is by the key; and an empty page ends it (toolHandlers.ts:640-680).
PagesCoverTable ==
    Done("find") /\ call.take > 0 =>
        /\ call.orderBy = "id" => \A i, j \in DOMAIN seen : i < j => seen[i] < seen[j]
        /\ answer.rows = <<>> => ~answer.hasMore
        /\ ~answer.hasMore => Len(seen) = Cardinality(MeantBy(call.where))
        /\ ~answer.hasMore /\ call.orderBy = "id" =>
             {seen[i] : i \in DOMAIN seen} = {r.id : r \in MeantBy(call.where)}

\* toolDefinitions.ts:518, of db_upsert: "This is idempotent - calling it multiple times
\* with the same data has the same effect as calling it once" (also idempotentHint at :520).
\* The first call inserts `create`; the second finds the row and applies `update`, which
\* may say something else.
UpsertsAreIdempotent ==
    Done("upsert") /\ repeats >= 1 => table = before

\* `update`: "If omitted, no update occurs on conflict - the existing row is returned
\* unchanged."
OmittedUpdateKeepsRow ==
    Done("upsert") /\ call.update = <<>> => before \subseteq table

\* "Returns the final row (either newly inserted or updated)": if the data are the key alone,
\* or nothing but sensitive columns, there is no such row and an error instead.
UpsertsAreCarriedOut ==
    running = "upsert" /\ statement = Nothing => "error" \notin DOMAIN answer
=============================================================================
