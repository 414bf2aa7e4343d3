--------------------------- MODULE MCInterpreter ---------------------------
(* An instance of Interpreter for TLC: a table with fixed pages and one with *)
(* flexible pages that share a column, two rows each.  "x" is a string that  *)
(* no column is named, "b" one that is.                                      *)
EXTENDS Interpreter

N(s) == <<"name", s>>
I(n) == <<"number", n>>
Column(name, type) ==
    [name |-> name, type |-> type, length |-> IF type = "varchar" THEN 4 ELSE 0]
SELECT(projection, from, where, order) ==
    [do |-> "select", projection |-> projection, from |-> from, where |-> where,
     order |-> order]
INSERT(table, values) == [do |-> "insert", table |-> table, values |-> values]
CREATE(table, columns) == [do |-> "create", table |-> table, columns |-> columns]
By(e) == [by |-> e, desc |-> FALSE]
Desc(e) == [by |-> e, desc |-> TRUE]

MCAlphabet == <<"", "b", "x">>
MCStatements == {
    CREATE("t", <<Column("a", "int64"), Column("b", "varchar")>>),
    CREATE("u", <<Column("c", "string"), Column("d", "int"), Column("a", "int64")>>),
    [do |-> "drop", table |-> "t"],
    INSERT("t", <<I(1), N("b")>>),
    INSERT("t", <<I(2), N("x")>>),
    INSERT("t", <<I(2), I(2)>>),
    INSERT("u", <<N("x"), N("x"), I(5)>>),
    INSERT("u", <<N("b"), <<"/", I(-4), N("a")>>>>),
    SELECT(All, <<"t">>, None, <<>>),
    SELECT(All, <<"t", "u">>, None, <<Desc(N("c")), By(N("a"))>>),
    SELECT(All, <<"t">>, <<"<", N("a"), I(2)>>, <<By(N("a"))>>),
    SELECT(<<N("b"), N("a")>>, <<"t">>, <<">=", N("a"), I(1)>>,
           <<By(N("b")), Desc(<<"*", N("a"), N("a")>>)>>),
    SELECT(<<<<"/", I(2), N("a")>>>>, <<"t">>, <<"==", N("a"), I(1)>>, <<>>),
    SELECT(<<<<"/", I(6), <<"-", N("a"), I(1)>>>>>>, <<"t">>, None, <<>>),
    SELECT(<<N("x"), N("a")>>, <<"u">>, None, <<Desc(N("a"))>>),
    SELECT(<<N("c")>>, <<"u", "t">>, <<"+", N("a"), I(1)>>, <<>>),
    SELECT(<<N("a")>>, <<"u">>, <<"<=", N("c"), I(1)>>, <<>>),
    SELECT(<<N("a")>>, <<>>, None, <<>>)}
=============================================================================
