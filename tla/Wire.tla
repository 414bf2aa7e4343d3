-------------------------------- MODULE Wire --------------------------------
(***************************************************************************)
(* What clients and chunks make of schemas, rows and contents to send them *)
(* (lib/sql/schema.cpp, lib/serialize.cpp, client/client_getter.cpp,       *)
(* chunk/chunk_manager.cpp).                                               *)
(*                                                                         *)
(* A text is a sequence of characters.  The digits of a number are one     *)
(* character here, and so is the name of a type.                           *)
(***************************************************************************)
EXTENDS Marshal

Number(n) == <<"number", n>>
Word(w) == <<"word", w>>
Blank == <<"sign", " ">>
Comma == <<"sign", ",">>
Open == <<"sign", "(">>
Close == <<"sign", ")">>

\* A text cut at every sign, and at the end if something is left, without the
\* pieces in "skipped".
Take(got, c, sign, skipped) ==
    IF c # sign THEN [done |-> got.done, piece |-> Append(got.piece, c)]
    ELSE [done |-> IF got.piece \in skipped THEN got.done
                   ELSE Append(got.done, got.piece),
          piece |-> <<>>]
Split(text, sign, skipped) ==
    LET got[n \in 0 .. Len(text)] ==
            IF n = 0 THEN [done |-> <<>>, piece |-> <<>>]
            ELSE Take(got[n - 1], text[n], sign, skipped)
        all == got[Len(text)]
    IN  IF all.piece = <<>> THEN all.done ELSE Append(all.done, all.piece)

\* What getline and what >> makes of a text.
Pieces(text, sign) == Split(text, sign, {})
Words(text) == Split(text, Blank, {<<>>})

-----------------------------------------------------------------------------
(* Lists of numbers                                                        *)

Serialize(numbers) ==
    FlattenSeq([i \in DOMAIN numbers |-> <<Number(numbers[i]), Blank>>])

\* stoul reads to the next blank.
Deserialize(text) ==
    LET pieces == Pieces(text, Blank)
    IN  [k \in DOMAIN pieces |-> pieces[k][1][2]]

-----------------------------------------------------------------------------
(* Schemas                                                                 *)

ColumnText(column) ==
    column.name \o <<Blank, Word(column.type)>>
        \o (IF column.length = 0 THEN <<>>
            ELSE <<Open, Number(column.length), Close>>)

\* toString: two characters behind every column but the last.
SchemaText(schema) ==
    LET columns == [i \in DOMAIN schema |-> ColumnText(schema[i]) \o <<Comma, Blank>>]
        text == FlattenSeq(columns)
    IN  IF text = <<>> THEN <<>> ELSE SubSeq(text, 1, Len(text) - 2)

BadColumn == Column(<<>>, "none", 0)

\* A name, a type and perhaps a length in parentheses; what comes then is not
\* looked at, and what is missing is empty.
DeserializeColumn(text) ==
    LET words == Words(text) \o <<<<>>, <<>>>>
        open == SelectInSeq(words[2], LAMBDA c : c = Open)
        type == IF open = 0 THEN words[2] ELSE SubSeq(words[2], 1, open - 1)
        digits == IF open = 0 THEN <<Number(0)>>
                  ELSE SubSeq(words[2], open + 1, Len(words[2]) - 1)
    IN  IF type \in {<<Word(t)>> : t \in Types}
             /\ digits # <<>> /\ digits[1][1] = "number"
        THEN Column(words[1], type[1][2], digits[1][2])
        ELSE BadColumn

DeserializeSchema(text) ==
    LET pieces == Pieces(text, Comma)
    IN  [k \in DOMAIN pieces |-> DeserializeColumn(pieces[k])]

\* deserializeSchema throws.
Invalid(schema) == BadColumn \in ToSet(schema)

\* A name that is read as a name: not empty, no blank and no comma in it.
Plain(name) == name # <<>> /\ {Blank, Comma} \cap ToSet(name) = {}

-----------------------------------------------------------------------------
(* Rows and contents                                                       *)

Bytes(text) ==
    LET numbers == Deserialize(text)
    IN  [j \in 0 .. Len(numbers) - 1 |-> numbers[j + 1]]

\* InsertRowOnTable at the client and AddSerializedRow at the chunk.
RowText(schema, row) == Serialize(SerializeRow(schema, row))
AddSerializedRow(schema, text) == DeserializeRow(schema, Bytes(text), 0)

\* GetContent at the chunk.
Content(schema, rows) ==
    LET bytes == [i \in DOMAIN rows |-> SerializeRow(schema, rows[i])]
        lengths == [i \in DOMAIN rows |-> RowSpace(schema, rows[i])]
    IN  [rows |-> Serialize(FlattenSeq(bytes)), lengths |-> Serialize(lengths),
         schema |-> SchemaText(schema)]

\* Where the rows with these lengths start.
Starts(lengths) ==
    [i \in DOMAIN lengths |-> SumFunctionOnSet(lengths, 1 .. i - 1)]

\* Mutant: the first length moves nothing on.
GetTableContentLate(answer) ==
    LET schema == DeserializeSchema(answer.schema)
        lengths == Deserialize(answer.lengths)
    IN  [i \in DOMAIN lengths |->
            DeserializeRow(schema, Bytes(answer.rows),
                           SumFunctionOnSet(lengths, 2 .. i - 1))]

\* GetTableContent at the client, for one chunk: the rows are cut out of the
\* bytes one length after the other.
GetTableContent(answer) ==
    LET schema == DeserializeSchema(answer.schema)
        lengths == Deserialize(answer.lengths)
    IN  [i \in DOMAIN lengths |->
            DeserializeRow(schema, Bytes(answer.rows), Starts(lengths)[i])]
=============================================================================
