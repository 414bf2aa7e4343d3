------------------------------ MODULE Marshal ------------------------------
(***************************************************************************)
(* How rows become bytes (lib/sql/marshal.cpp).                            *)
(*                                                                         *)
(* A schema is a sequence of columns, a row a sequence of values.  A value *)
(* is a sequence too: of the characters of a string, or of one number.  A  *)
(* cell stands for a byte, or for the eight bytes of a number: sizes count *)
(* cells.                                                                  *)
(***************************************************************************)
EXTENDS Integers, Sequences, SequencesExt

CONSTANT Byte       \* values of a byte: 256

ASSUME ByteAssumption == Byte \in Nat \ {0, 1}

IsSequence(t) == t \in Seq(ToSet(t))

Null == <<-1>>      \* no character and no number is negative

Types == {"boolean", "uint64", "int64", "varchar", "string"}
Column(name, type, length) == [name |-> name, type |-> type, length |-> length]

\* 1 shifted to the place of column i.
Bit(i) ==
    LET bit[n \in 1 .. i] == IF n = 1 THEN 1 ELSE 2 * bit[n - 1]
    IN  bit[i]

\* getNulls: one bit per column.
GetNulls(row) ==
    SumFunctionOnSet([i \in DOMAIN row |-> Bit(i)],
                     {i \in DOMAIN row : row[i] = Null})
IsNull(nulls, i) == (nulls \div Bit(i)) % 2 = 1

\* calculateFixedRowSpace: a string counts for its length byte only.
Width(column) == IF column.type = "varchar" THEN column.length ELSE 1
FixedRowSpace(schema, nulls) ==
    1 + SumFunctionOnSet([i \in DOMAIN schema |-> Width(schema[i])],
                         {i \in DOMAIN schema : ~IsNull(nulls, i)})

\* getRowSpace.
RowSpace(schema, row) ==
    FixedRowSpace(schema, GetNulls(row))
      + SumFunctionOnSet([i \in DOMAIN row |-> Len(row[i])],
                         {i \in DOMAIN row : /\ row[i] # Null
                                            /\ schema[i].type = "string"})

\* serializeRow: nothing for a null, a varchar is filled up with zeros.
SerializeValue(column, value) ==
    IF value = Null THEN <<>>
    ELSE IF column.type = "varchar"
    THEN value \o [n \in 1 .. column.length - Len(value) |-> 0]
    ELSE IF column.type = "string" THEN <<Len(value) % Byte>> \o value
    ELSE value
SerializeRow(schema, row) ==
    <<GetNulls(row)>>
        \o FlattenSeq([i \in DOMAIN row |-> SerializeValue(schema[i], row[i])])

\* deserializeRow from position "at" of page: one column after the other, with
\* the position of the next one.
Varchar(page, at, length) ==
    LET end == CHOOSE n \in 0 .. length :
                  /\ n < length => page[at + n] = 0
                  /\ \A j \in 0 .. n - 1 : page[at + j] # 0
    IN  [n \in 1 .. end |-> page[at + n - 1]]
Cells(page, at, n) == [j \in 1 .. n |-> page[at + j - 1]]
ReadColumn(got, column, i, nulls, page) ==
    LET p == got.next IN
    IF IsNull(nulls, i) THEN [row |-> Append(got.row, Null), next |-> p]
    ELSE IF column.type = "varchar"
    THEN [row |-> Append(got.row, Varchar(page, p, column.length)),
          next |-> p + column.length]
    ELSE IF column.type = "string"
    THEN [row |-> Append(got.row, Cells(page, p + 1, page[p])),
          next |-> p + 1 + page[p]]
    ELSE [row |-> Append(got.row, Cells(page, p, 1)), next |-> p + 1]
DeserializeRow(schema, page, at) ==
    LET got[i \in 0 .. Len(schema)] ==
            IF i = 0 THEN [row |-> <<>>, next |-> at + 1]
            ELSE ReadColumn(got[i - 1], schema[i], i, page[at], page)
    IN  got[Len(schema)].row
=============================================================================
