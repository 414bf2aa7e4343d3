------------------------------ MODULE MCTable ------------------------------
(* An instance of Table for TLC.  A flexible page takes four rows of nulls, *)
(* as many as a byte here counts to 0 again, or three others; one row is    *)
(* longer than a byte can say.  A fixed page has two slots.  Rows of the    *)
(* third schema are longer than a page.                                     *)
EXTENDS Table, TLC

a == <<Word("a")>>
b == <<Word("b")>>
MCFlexible == <<Column(a, "boolean", 0), Column(b, "string", 0)>>
MCFixed == <<Column(a, "varchar", 2), Column(b, "uint64", 0)>>
MCWide == <<Column(a, "varchar", 20)>>
MCSchemas == {MCFlexible, MCFixed, MCWide}
MCRowsOf ==
    (MCFlexible :> {<<Null, Null>>, <<Null, <<2>>>>, <<<<1>>, <<>>>>,
                    <<<<1>>, <<2>>>>})
    @@ (MCFixed :> {<<<<2>>, <<1>>>>, <<Null, <<3>>>>})
    @@ (MCWide :> {<<<<2>>>>})

ASSUME StringsAssumption == StringsFit

\* A name with a blank is cut there, or the schema refused; with a comma there
\* are two columns.
ASSUME NamesAssumption ==
    LET Read(name) ==
            DeserializeSchema(SchemaText(<<Column(name, "varchar", 2)>>))
    IN  /\ Invalid(Read(<<>>))
        /\ Invalid(Read(a \o <<Blank>> \o b))
        /\ Read(a \o <<Blank, Word("uint64")>>) = <<Column(a, "uint64", 0)>>
        /\ Read(a \o <<Blank, Word("uint64"), Comma>> \o b)
              = <<Column(a, "uint64", 0), Column(b, "varchar", 2)>>
=============================================================================
