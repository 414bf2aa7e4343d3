---------------------------- MODULE Interpreter ----------------------------
(***************************************************************************)
(* The SQL interpreter (lib/sql/interpreter.cpp) with the grammar and the  *)
(* lexer as far as they decide what a statement means.                     *)
(*                                                                         *)
(* A name in a statement, quoted or not, is a literal.  It stands for the  *)
(* value the interpreter's map "variables" has for it and otherwise for    *)
(* itself.  Every SELECT writes the columns of the rows it reads to the    *)
(* map, which is never cleared.                                            *)
(*                                                                         *)
(* Tables are what modules Table and Database show them to be for one      *)
(* thread and a pool of one frame, which the tests open: a schema and rows *)
(* on one page, which is there once something was inserted.  A table is    *)
(* not created again while it is there.                                    *)
(***************************************************************************)
EXTENDS Integers, FiniteSets, SequencesExt

CONSTANTS
    Alphabet,       \* the strings of all statements in their order
    TableNames,
    Statements,
    MaxRows         \* bound

\* Columns with the same name are the same, and a table has a name once.
ASSUME ColumnsAssumption ==
    LET Creates == {s \in Statements : s.do = "create"} IN
    /\ \A s, r \in Creates : \A i \in DOMAIN s.columns, j \in DOMAIN r.columns :
          s.columns[i].name = r.columns[j].name => s.columns[i] = r.columns[j]
    /\ \A s \in Creates : IsInjective(s.columns)
ASSUME RowsAssumption == MaxRows \in Nat

VARIABLES
    tables,         \* name -> [schema, rows, paged] or NoTable
    variables,      \* name -> value, for the names set so far
    result,         \* the last statement and how it ended
    read            \* history: the names of the columns SELECTs read

vars == <<tables, variables, result, read>>

NoTable == [schema |-> <<>>, rows |-> <<>>, paged |-> FALSE]
All == <<>>         \* SELECT *
None == <<>>        \* no WHERE

\* std::variant of a value, and the two ways an expression has none.
Number(n) == <<"int64", n>>
Boolean(b) == <<"bool", b>>
String(s) == <<"string", s>>
Threw == <<"threw">>
Crashed == <<"crashed">>
Failed(value) == value \in {Threw, Crashed}

-----------------------------------------------------------------------------
(* Lexer and parser                                                        *)

\* '==' is given the token of '>'.
Token(op) == IF op = "==" THEN ">" ELSE op

\* ORDER BY after SELECT * and WHERE is not in the grammar.
Parses(s) ==
    ~(s.do = "select" /\ s.projection = All /\ s.where # None /\ s.order # <<>>)

\* params: a column of an unknown type is left out.  (As the first column it
\* would have any type.)
TypeNames == {"string", "uint64", "int64", "boolean", "varchar"}
Params(columns) == SelectSeq(columns, LAMBDA c : c.type \in TypeNames)

-----------------------------------------------------------------------------
(* executeSomeAST                                                          *)

\* Division of int64, towards 0.
Quotient(x, y) ==
    LET Abs(n) == IF n < 0 THEN -n ELSE n
        q == Abs(x) \div Abs(y)
    IN  IF (x < 0) = (y < 0) THEN q ELSE -q

Operate(op, x, y) ==
    CASE op = "+" -> Number(x + y)
      [] op = "-" -> Number(x - y)
      [] op = "*" -> Number(x * y)
      [] op = "/" -> IF y = 0 THEN Crashed ELSE Number(Quotient(x, y))
      [] op = ">" -> Boolean(x > y)
      [] op = "<" -> Boolean(x < y)
      [] op = ">=" -> Boolean(x >= y)
      [] op = "<=" -> Boolean(x <= y)

Lookup(env, name) == IF name \in DOMAIN env THEN env[name] ELSE String(name)

\* An expression is <<"name", s>>, <<"number", n>> or <<op, left, right>>.
\* std::get<int64_t> throws for a value of another type.
RECURSIVE ExecuteSomeAST(_, _)
ExecuteSomeAST(env, e) ==
    CASE e[1] = "name" -> Lookup(env, e[2])
      [] e[1] = "number" -> Number(e[2])
      [] OTHER ->
            LET x == ExecuteSomeAST(env, e[2])
                y == ExecuteSomeAST(env, e[3])
            IN  IF Failed(x) THEN x
                ELSE IF Failed(y) THEN y
                ELSE IF {x[1], y[1]} # {"int64"} THEN Threw
                ELSE Operate(Token(e[1]), x[2], y[2])

\* The values of some expressions; the first that fails is how the list does.
ExecuteList(env, es) == [i \in DOMAIN es |-> ExecuteSomeAST(env, es[i])]
FailedRow(row) == \E i \in DOMAIN row : Failed(row[i])
FailureOf(row) == row[SelectInSeq(row, Failed)][1]

\* Mutant: a name that is set keeps its value.
SetAllOnce(env, columns, row) ==
    LET Set(e, i) == e @@ (columns[i].name :> row[i])
    IN  FoldLeft(Set, env, [i \in DOMAIN columns |-> i])

\* The map after the columns of a row were written to it.
SetAll(env, columns, row) ==
    LET Set(e, i) == (columns[i].name :> row[i]) @@ e
    IN  FoldLeft(Set, env, [i \in DOMAIN columns |-> i])

-----------------------------------------------------------------------------
(* Comparator and executeJoin                                              *)

Rank(s) == CHOOSE i \in DOMAIN Alphabet : Alphabet[i] = s
Less(x, y) ==
    CASE x[1] = "bool" -> ~x[2] /\ y[2]
      [] x[1] = "string" -> Rank(x[2]) < Rank(y[2])
      [] OTHER -> x[2] < y[2]

\* The first place where two rows differ decides; the types there must agree.
\* desc has the columns to compare the other way round.
FirstDifference(xs, ys) ==
    SelectInSeq([i \in DOMAIN xs |-> xs[i] # ys[i]], LAMBDA b : b)
Compared(x, y, desc) ==
    IF x[1] # y[1] THEN "assert"
    ELSE IF Less(x, y) # desc THEN "less" ELSE "greater"
Comparator(xs, ys, desc) ==
    IF xs = ys THEN "equal"
    ELSE LET first == FirstDifference(xs, ys)
         IN  Compared(xs[first], ys[first], desc[first])

ExtractValue(row, schema, column) ==
    row[SelectInSeq(schema, LAMBDA c : c = column)]

\* Columns equal in name, type and length are joined.
JoinedOn(l, r, common, added) ==
    LET Matched(x, y) == \A i \in DOMAIN common :
            Comparator(<<ExtractValue(x, l.schema, common[i])>>,
                       <<ExtractValue(y, r.schema, common[i])>>, <<FALSE>>) = "equal"
        Row(x, y) ==
            x \o [i \in DOMAIN added |-> ExtractValue(y, r.schema, added[i])]
        With(x) == FoldLeft(LAMBDA rows, y : IF Matched(x, y) THEN Append(rows, Row(x, y))
                                             ELSE rows, <<>>, r.rows)
    IN  [schema |-> l.schema \o added,
         rows |-> FlattenSeq([i \in DOMAIN l.rows |-> With(l.rows[i])])]
Joined(l, r) ==
    LET InLeft(c) == c \in ToSet(l.schema)
    IN  JoinedOn(l, r, SelectSeq(r.schema, InLeft),
                 SelectSeq(r.schema, LAMBDA c : ~InLeft(c)))

ExecuteJoin(names) ==
    FoldLeft(LAMBDA l, n : Joined(l, tables[n]),
             [schema |-> tables[names[1]].schema, rows |-> tables[names[1]].rows],
             Tail(names))

-----------------------------------------------------------------------------
(* Statements                                                              *)

Init ==
    /\ tables = [t \in TableNames |-> NoTable]
    /\ variables = <<>>
    /\ result = [statement |-> [do |-> "none"], outcome |-> "done", rows |-> <<>>]
    /\ read = {}

\* After a crash or in a scan that hangs there is no further statement.
Ready == result.outcome \notin {"crashed", "hung"}

Ends(s, outcome, rows) ==
    result' = [statement |-> s, outcome |-> outcome, rows |-> rows]

BadInput(s) ==
    /\ Ready
    /\ ~Parses(s)
    /\ Ends(s, "threw", <<>>)
    /\ UNCHANGED <<tables, variables, read>>

\* Without a scheme getTable follows a null pointer, without a page the scan
\* does not end (module Database); without a FROM executeJoin asserts.
SelectStops(s) ==
    LET stop == SelectInSeq(s.from, LAMBDA n : ~tables[n].paged) IN
    /\ Ready
    /\ s.do = "select"
    /\ Parses(s)
    /\ stop # 0 \/ s.from = <<>>
    /\ Ends(s, IF s.from # <<>> /\ tables[s.from[stop]] # NoTable
               THEN "hung" ELSE "crashed", <<>>)
    /\ UNCHANGED <<tables, variables, read>>

\* The row of a SELECT for one row of the join, NoRow when the filter says
\* no.  The projection comes before the filter.
NoRow == <<>>
FilteredRow(projected, keep) ==
    IF FailedRow(projected) THEN projected
    ELSE IF keep[1] # "bool" THEN <<IF Failed(keep) THEN keep ELSE Threw>>
    ELSE IF keep[2] THEN projected ELSE NoRow
ProjectedRow(s, env, row) ==
    FilteredRow(IF s.projection = All THEN row ELSE ExecuteList(env, s.projection),
                IF s.where = None THEN Boolean(TRUE) ELSE ExecuteSomeAST(env, s.where))

\* new_schema, what names the columns of the result: for an expression that
\* is no name a column without one, for a name that is no column nothing.
NewSchema(s, schema) ==
    LET NewColumns(e) ==
            IF e[1] = "name" THEN SelectSeq(schema, LAMBDA c : c.name = e[2])
            ELSE <<[name |-> "", type |-> "none", length |-> 0]>>
    IN  IF s.projection = All THEN schema
        ELSE FlattenSeq([i \in DOMAIN s.projection |-> NewColumns(s.projection[i])])

\* Rows evaluated one after the other, up to the first that fails; env is the
\* map of variables a row was evaluated with, start the one before all.
EvaluatedTo(got, start, first) ==
    LET last == IF first = 0 THEN Len(got) ELSE first
    IN  [outcome |-> IF first = 0 THEN "done" ELSE FailureOf(got[first].row),
         rows |-> [i \in DOMAIN got |-> got[i].row],
         variables |-> IF last = 0 THEN start ELSE got[last].env]
Evaluated(got, start) ==
    EvaluatedTo(got, start, SelectInSeq(got, LAMBDA g : FailedRow(g.row)))

\* The scan: every row of the join writes the variables first.
Scanned(s, join) ==
    LET Row(env, row) == [env |-> env, row |-> ProjectedRow(s, env, row)]
    IN  Evaluated([i \in DOMAIN join.rows |->
                      Row(SetAll(variables, join.schema, join.rows[i]), join.rows[i])],
                  variables)

\* Before the sort every row of the result writes its columns again, then the
\* keys are evaluated.
SortedArgs(s, rows, schema, start) ==
    LET by == [j \in DOMAIN s.order |-> s.order[j].by]
        Key(env) == [env |-> env, row |-> ExecuteList(env, by)]
    IN  Evaluated([i \in DOMAIN rows |-> Key(SetAll(start, schema, rows[i]))], start)

Descending(s) == [j \in DOMAIN s.order |-> s.order[j].desc]

\* What std::sort may make of the rows: rows with equal keys in any order.
Sorts(s, keys, p) ==
    \A i, j \in DOMAIN keys : i < j =>
        Comparator(keys[p[j]], keys[p[i]], Descending(s)) # "less"

SortEnds(s, rows, args) ==
    LET met == {Comparator(args.rows[i], args.rows[j], Descending(s)) :
                    i, j \in DOMAIN args.rows}
    IN  /\ variables' = args.variables
        /\ \/ args.outcome # "done" /\ Ends(s, args.outcome, <<>>)
           \/ /\ args.outcome = "done" /\ "assert" \in met
              /\ Ends(s, "crashed", <<>>)
           \/ /\ args.outcome = "done" /\ "assert" \notin met
              /\ \E p \in Permutations(DOMAIN rows) :
                    /\ Sorts(s, args.rows, p)
                    /\ Ends(s, "done", [i \in DOMAIN p |-> rows[p[i]]])

SelectEnds(s, join, scan) ==
    LET rows == SelectSeq(scan.rows, LAMBDA r : r # NoRow) IN
    \/ /\ scan.outcome # "done"
       /\ variables' = scan.variables
       /\ Ends(s, scan.outcome, <<>>)
    \/ /\ scan.outcome = "done" /\ s.order = <<>>
       /\ variables' = scan.variables
       /\ Ends(s, "done", rows)
    \/ /\ scan.outcome = "done" /\ s.order # <<>>
       /\ SortEnds(s, rows, SortedArgs(s, rows, NewSchema(s, join.schema),
                                       scan.variables))

SelectFrom(s, join) ==
    /\ read' = read \cup {c.name : c \in ToSet(join.schema)}
    /\ SelectEnds(s, join, Scanned(s, join))

Select(s) ==
    /\ Ready
    /\ s.do = "select"
    /\ Parses(s)
    /\ s.from # <<>>
    /\ \A i \in DOMAIN s.from : tables[s.from[i]].paged
    /\ SelectFrom(s, ExecuteJoin(s.from))
    /\ UNCHANGED tables

\* The alternative of the variant serializeRow takes for a column.
Alternative(column) ==
    CASE column.type = "int64" -> "int64"
      [] column.type = "uint64" -> "uint64"
      [] column.type = "boolean" -> "bool"
      [] OTHER -> "string"
ZeroOf(column) ==
    CASE column.type = "boolean" -> Boolean(FALSE)
      [] column.type \in {"string", "varchar"} -> String("")
      [] OTHER -> <<Alternative(column), 0>>
\* Mutant: the type of the last value is not looked at.
MistypedButLast(schema, row) ==
    SelectInSeq([i \in 1 .. Len(schema) - 1 |->
                    row[i][1] # Alternative(schema[i])], LAMBDA b : b)

Mistyped(schema, row) ==
    SelectInSeq([i \in DOMAIN schema |-> row[i][1] # Alternative(schema[i])],
                LAMBDA b : b)
Flexible(schema) == \E i \in DOMAIN schema : schema[i].type = "string"

\* Mutant: flexible pages, too, count a row before it is written.
RowsAfterCountFirst(schema, row) ==
    LET bad == Mistyped(schema, row) IN
    IF bad = 0 THEN <<SubSeq(row, 1, Len(schema))>>
    ELSE <<[i \in DOMAIN schema |-> IF i < bad THEN row[i] ELSE ZeroOf(schema[i])]>>

\* insertRow on a page: the rows it adds.  A fixed page sets the flag of the
\* slot before serializeRow throws, what was not written is 0; a flexible page
\* counts the row last.  Values beyond the columns are not looked at.
RowsAfter(schema, row) ==
    LET bad == Mistyped(schema, row) IN
    IF bad = 0 THEN <<SubSeq(row, 1, Len(schema))>>
    ELSE IF Flexible(schema) THEN <<>>
    ELSE <<[i \in DOMAIN schema |-> IF i < bad THEN row[i] ELSE ZeroOf(schema[i])]>>

\* Fewer values than columns would be read past the end of the row.  The page
\* is allocated before the row is looked at.
Insert(s) ==
    LET row == ExecuteList(variables, s.values)
        table == tables[s.table]
    IN  /\ Ready
        /\ s.do = "insert"
        /\ \/ /\ FailedRow(row)
              /\ Ends(s, FailureOf(row), <<>>)
              /\ UNCHANGED tables
           \/ /\ ~FailedRow(row) /\ table = NoTable
              /\ Ends(s, "crashed", <<>>)
              /\ UNCHANGED tables
           \/ /\ ~FailedRow(row) /\ table # NoTable
              /\ Len(row) >= Len(table.schema)
              /\ Len(table.rows) < MaxRows
              /\ Ends(s, IF Mistyped(table.schema, row) = 0 THEN "done" ELSE "threw",
                      <<>>)
              /\ tables' = [tables EXCEPT ![s.table].paged = TRUE,
                              ![s.table].rows = @ \o RowsAfter(table.schema, row)]
        /\ UNCHANGED <<variables, read>>

CreateTable(s) ==
    /\ Ready
    /\ s.do = "create"
    /\ tables[s.table] = NoTable
    /\ tables' = [tables EXCEPT ![s.table] =
                    [NoTable EXCEPT !.schema = Params(s.columns)]]
    /\ Ends(s, "done", <<>>)
    /\ UNCHANGED <<variables, read>>

\* Removing what is not there is no error.
DropTable(s) ==
    /\ Ready
    /\ s.do = "drop"
    /\ tables' = [tables EXCEPT ![s.table] = NoTable]
    /\ Ends(s, "done", <<>>)
    /\ UNCHANGED <<variables, read>>

Next ==
    \E s \in Statements :
        BadInput(s) \/ SelectStops(s) \/ Select(s) \/ Insert(s)
            \/ CreateTable(s) \/ DropTable(s)

Spec == Init /\ [][Next]_vars

-----------------------------------------------------------------------------
(* Properties                                                              *)

\* Type invariant: every row a table shows has a value of the column's type in
\* every column, also a row whose INSERT threw.
TypeOK ==
    /\ \A t \in TableNames :
          LET table == tables[t] IN
          /\ Len(table.rows) <= MaxRows
          /\ table.rows # <<>> => table.paged
          /\ \A i \in DOMAIN table.rows :
                /\ DOMAIN table.rows[i] = DOMAIN table.schema
                /\ \A j \in DOMAIN table.schema :
                      table.rows[i][j][1] = Alternative(table.schema[j])
    /\ \A n \in DOMAIN variables : ~Failed(variables[n])
    /\ result.outcome \in {"done", "threw", "crashed", "hung"}

RECURSIVE NamesIn(_)
NamesIn(e) ==
    CASE e[1] = "name" -> {e[2]}
      [] e[1] = "number" -> {}
      [] OTHER -> NamesIn(e[2]) \cup NamesIn(e[3])
RECURSIVE HasEquals(_)
HasEquals(e) ==
    /\ e[1] \notin {"name", "number"}
    /\ e[1] = "==" \/ HasEquals(e[2]) \/ HasEquals(e[3])

\* The names of the columns of a SELECT in the order they first appear.
ColumnNames(s) ==
    LET OfTable(n) == [i \in DOMAIN tables[n].schema |-> tables[n].schema[i].name]
    IN  FoldLeft(LAMBDA seen, n : IF Contains(seen, n) THEN seen ELSE Append(seen, n),
                 <<>>, FlattenSeq([i \in DOMAIN s.from |-> OfTable(s.from[i])]))
Projection(s) ==
    IF s.projection # All THEN s.projection
    ELSE LET names == ColumnNames(s) IN [i \in DOMAIN names |-> <<"name", names[i]>>]

\* A SELECT whose every name is a column of its tables and whose rows are
\* ordered by columns it shows, without the operator that is read as another.
Plain(s) ==
    LET exprs == ToSet(s.projection) \cup (IF s.where = None THEN {} ELSE {s.where})
                    \cup {s.order[j].by : j \in DOMAIN s.order}
        shown == {e[2] : e \in {x \in ToSet(Projection(s)) : x[1] = "name"}}
    IN  /\ s.from # <<>>
        /\ Parses(s)
        /\ \A i \in DOMAIN s.from : tables[s.from[i]].paged
        /\ \A e \in exprs : NamesIn(e) \subseteq ToSet(ColumnNames(s)) /\ ~HasEquals(e)
        /\ \A j \in DOMAIN s.order : NamesIn(s.order[j].by) \subseteq shown

\* The value of column n in row i of a table.
Cell(t, i, n) ==
    tables[t].rows[i][SelectInSeq(tables[t].schema, LAMBDA c : c.name = n)]
HasColumn(t, n) == \E c \in ToSet(tables[t].schema) : c.name = n

\* One row of every table, equal wherever two tables have the same column.
Combinations(s) ==
    {f \in [DOMAIN s.from -> 1 .. MaxRows] :
        /\ \A i \in DOMAIN f : f[i] <= Len(tables[s.from[i]].rows)
        /\ \A i, j \in DOMAIN f, n \in ToSet(ColumnNames(s)) :
              HasColumn(s.from[i], n) /\ HasColumn(s.from[j], n) =>
                 Cell(s.from[i], f[i], n) = Cell(s.from[j], f[j], n)}
EnvOf(s, f) ==
    [n \in ToSet(ColumnNames(s)) |->
        LET i == CHOOSE k \in DOMAIN f : HasColumn(s.from[k], n)
        IN  Cell(s.from[i], f[i], n)]

\* A plain SELECT gives what the relational expression it is written as gives
\* on the tables, every row as often and in the order it asks for, with no
\* trace of the variables that earlier statements left behind; it fails when
\* one of the expressions has no value for some row, and only then.  So the
\* sort never meets values of two types, where the comparator asserts.
SelectIsRelational ==
    LET s == result.statement
        all == Combinations(s)
        Value(f, e) == ExecuteSomeAST(EnvOf(s, f), e)
        Row(f) == ExecuteList(EnvOf(s, f), Projection(s))
        Keep(f) == IF s.where = None THEN Boolean(TRUE) ELSE Value(f, s.where)
        kept == {f \in all : Keep(f) = Boolean(TRUE)}
        Key(f) == [j \in DOMAIN s.order |-> Value(f, s.order[j].by)]
        Of(row) == CHOOSE f \in kept : Row(f) = row
        Before(x, y) == \E j \in DOMAIN s.order :
            /\ \A k \in 1 .. j - 1 : x[k] = y[k]
            /\ IF s.order[j].desc THEN Less(y[j], x[j]) ELSE Less(x[j], y[j])
        fails == \/ \E f \in all : FailedRow(Row(f)) \/ Keep(f)[1] # "bool"
                 \/ \E f \in kept : FailedRow(Key(f))
    IN  s.do = "select" /\ Plain(s) =>
            IF fails THEN result.outcome \in {"threw", "crashed"}
            ELSE /\ result.outcome = "done"
                 /\ Len(result.rows) = Cardinality(kept)
                 /\ \A f \in kept :
                       Cardinality({g \in kept : Row(g) = Row(f)})
                         = Cardinality({i \in DOMAIN result.rows :
                                            result.rows[i] = Row(f)})
                 /\ \A i, j \in DOMAIN result.rows : i < j =>
                       ~Before(Key(Of(result.rows[j])), Key(Of(result.rows[i])))

\* Rows come from INSERT only and stay.  One that succeeds adds the values it is
\* written with, but for names of columns some SELECT has read; one that
\* throws adds a row to a table of fixed pages at most.
InsertsAsWritten ==
    [][\A t \in TableNames :
          LET new == tables'[t].rows
              old == tables[t].rows
              s == result'.statement
          IN  new # old /\ new # <<>> =>
                 /\ s.do = "insert" /\ s.table = t
                 /\ Front(new) = old
                 /\ IF result'.outcome = "done"
                    THEN \A i \in DOMAIN Last(new) :
                            NamesIn(s.values[i]) \cap read = {} =>
                               Last(new)[i] = ExecuteSomeAST(<<>>, s.values[i])
                    ELSE ~Flexible(tables[t].schema)]_vars
=============================================================================
