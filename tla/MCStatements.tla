---------------------------- MODULE MCStatements ----------------------------
(***************************************************************************)
(* Instance of Statements for TLC: two keys and two values, filters of up  *)
(* to two columns, and data with and without the key, a sensitive column,  *)
(* or anything to set.                                                     *)
(***************************************************************************)
EXTENDS Statements

\* Tests on a column with the values V.
TestsOn(V) ==
    {<<>>, <<Test("isNull", <<>>)>>}
    \cup {<<Test(op, <<x>>)>> : op \in {"equals", "not", "gt"}, x \in V \cup {Null}}
    \cup {<<Test(op, <<x>>), Test("lt", <<y>>)>> : op \in {"gte", "lte"}, x \in V, y \in V}
    \cup {<<Test(op, s)>> : op \in {"in", "notIn"},
                            s \in {<<>>} \cup {<<x, y>> : x \in V, y \in V \cup {Null}}}

Entry == [column : {"id"}, tests : TestsOn(Ids)] \cup [column : {"v"}, tests : TestsOn(Values)]

MCWhere == {<<>>} \cup {<<e>> : e \in Entry}
                  \cup {w \in Entry \X Entry : w[1].column # w[2].column}

MCData ==
    {<<>>, <<<<"secret", Hidden>>>>}
    \cup {<<<<"id", i>>>> : i \in Ids}
    \cup {<<<<"v", x>>>> : x \in Values \cup {Null}}
    \cup {<<<<"id", i>>, <<"v", x>>>> : i \in Ids, x \in Values}
    \cup {<<<<"secret", Hidden>>, <<"v", x>>>> : x \in Values}
=============================================================================
