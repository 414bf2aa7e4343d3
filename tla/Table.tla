------------------------------- MODULE Table -------------------------------
(***************************************************************************)
(* A table (lib/sql/table.cpp), its scan (scan.cpp) and the two layouts of *)
(* its pages (fixed.cpp, flexible.cpp).  createPageProvider chooses the    *)
(* layout by the schema: flexible pages when some column is a string.      *)
(*                                                                         *)
(* A page is an array of cells.  A fixed page has slots of equal size, a   *)
(* flag and a row.  A flexible page has the number of rows, the row        *)
(* lengths, and the rows packed downwards from its end.                    *)
(*                                                                         *)
(* The pages are those the buffer pool shows, which module BufferPool      *)
(* shows coherent for one File object per file.                            *)
(***************************************************************************)
EXTENDS Wire, FiniteSets, Functions

CONSTANTS
    PageSize,       \* in cells
    Schemas,        \* sequences of columns
    RowsOf,         \* schema -> rows of that schema
    MaxInserts, MaxThrows   \* bounds

ASSUME PageAssumption == PageSize \in Nat \ {0, 1}
ASSUME SchemasAssumption ==
    /\ \A s \in Schemas :
          /\ IsSequence(s) /\ s # <<>> /\ 2 * Bit(Len(s)) <= Byte
          /\ \A i \in DOMAIN s :
                /\ s[i] = Column(s[i].name, s[i].type, s[i].length)
                /\ s[i].type \in Types /\ s[i].length \in Nat
                /\ IsSequence(s[i].name) /\ Plain(s[i].name)
    /\ DOMAIN RowsOf = Schemas
\* A number is a cell, a varchar is not longer than its column.
ASSUME RowsAssumption ==
    \A s \in Schemas : \A r \in RowsOf[s] :
        /\ IsSequence(r) /\ DOMAIN r = DOMAIN s
        /\ \A i \in DOMAIN s :
              r[i] # Null =>
                 /\ r[i] \in Seq(0 .. Byte - 1)
                 /\ s[i].type \notin {"varchar", "string"} => Len(r[i]) = 1
                 /\ s[i].type = "varchar" =>
                       Len(r[i]) <= s[i].length /\ 0 \notin ToSet(r[i])

\* One byte says how long a string is: of a longer one less is read than was
\* written.
StringsFit ==
    \A s \in Schemas : \A r \in RowsOf[s] : \A i \in DOMAIN s :
        s[i].type = "string" /\ r[i] # Null => Len(r[i]) < Byte

ASSUME InsertsAssumption == {MaxInserts, MaxThrows} \subseteq Nat

VARIABLES
    schema,         \* what its creator's text of a schema is read as
    pages,          \* the pages of the file
    current,        \* current_page_index of the open handle
    inserting,      \* the row insertRow is looking a page for, or NoRow
    aborted,        \* an assert failed
    rows,           \* history: row id -> the row put there and not deleted
    damaged,        \* history: a flexible page lost a row number or a byte
    phantoms,       \* history: the slots of rows whose insertRow threw
    inserts, throws

vars == <<schema, pages, current, inserting, aborted, rows, damaged, phantoms,
          inserts, throws>>

NoRow == <<>>       \* Row()
Zero == [i \in 0 .. PageSize - 1 |-> 0]
Page == [0 .. PageSize - 1 -> 0 .. Byte - 1]

\* createPageProvider.
Flexible == \E i \in DOMAIN schema : schema[i].type = "string"

\* The page with the cells of s from position "at" on.
With(page, at, s) ==
    [i \in DOMAIN page |->
        IF i \in at .. at + Len(s) - 1 THEN s[i - at + 1] ELSE page[i]]

-----------------------------------------------------------------------------
(* Fixed pages                                                             *)

SlotSpace == 1 + FixedRowSpace(schema, 0)
Capacity == PageSize \div SlotSpace
Flag(page, i) == page[i * SlotSpace]

FixedRow(page, i) ==
    IF Flag(page, i) = 0 THEN NoRow
    ELSE DeserializeRow(schema, page, i * SlotSpace + 1)

\* Mutant: a slot is taken without a look at its flag.
FreeSlotAny(page, i) == i \in 0 .. Capacity - 1 /\ i = 0

\* findRowSlot: the first slot whose flag is clear.
FreeSlot(page, i) ==
    /\ i \in 0 .. Capacity - 1
    /\ Flag(page, i) = 0
    /\ \A j \in 0 .. i - 1 : Flag(page, j) # 0

FixedWith(page, i, row) ==
    With(page, i * SlotSpace, <<1>> \o SerializeRow(schema, row))
FixedWithout(page, i) == [page EXCEPT ![i * SlotSpace] = 0]

-----------------------------------------------------------------------------
(* Flexible pages                                                          *)

Count(page) == page[0]
RowLength(page, i) == page[i + 1]
PrevSum(page, i) == SumFunctionOnSet(page, 1 .. i)

FlexibleRow(page, i) ==
    IF i >= Count(page) \/ RowLength(page, i) = 0 THEN NoRow
    ELSE DeserializeRow(schema, page, PageSize - PrevSum(page, i + 1))

\* Mutant: the row's own length is not counted.
HasSpaceButOne(page, row) ==
    PrevSum(page, Count(page)) + RowSpace(schema, row) + 1 + Count(page)
        <= PageSize

HasSpace(page, row) ==
    PrevSum(page, Count(page)) + RowSpace(schema, row) + 2 + Count(page)
        <= PageSize

\* Mutant: a row count that does not wrap.
FlexibleWithUnwrapped(page, row) ==
    LET n == Count(page)
        space == RowSpace(schema, row)
        filled == With(page, PageSize - PrevSum(page, n) - space,
                       SerializeRow(schema, row))
    IN  [filled EXCEPT ![n + 1] = space, ![0] = n + 1]

\* insertRow: the row, its length, the count.  setByIndex keeps the low byte:
\* the count comes back to 0.
FlexibleWith(page, row) ==
    LET n == Count(page)
        space == RowSpace(schema, row)
        filled == With(page, PageSize - PrevSum(page, n) - space,
                       SerializeRow(schema, row))
    IN  [filled EXCEPT ![n + 1] = space, ![0] = (n + 1) % Byte]

\* deleteRow: eraseRow does nothing when no byte is before the row, and moves
\* one byte too many otherwise.
FlexibleWithout(page, i) ==
    LET len == RowLength(page, i)
        prev == PrevSum(page, i)
        low == PageSize - PrevSum(page, Count(page))
        unnamed == [page EXCEPT ![i + 1] = 0]
    IN  IF prev = 0 THEN unnamed
        ELSE [j \in DOMAIN page |->
                IF j \in low + len .. PageSize - prev THEN page[j - len]
                ELSE IF j \in low .. low + len - 1 THEN 0
                ELSE unnamed[j]]

-----------------------------------------------------------------------------
(* The table                                                               *)

RowCount == IF Flexible THEN PageSize - 1 ELSE Capacity
GetRow(id) ==
    IF Flexible THEN FlexibleRow(pages[id.page + 1], id.row)
    ELSE FixedRow(pages[id.page + 1], id.row)

Init ==
    /\ schema \in {DeserializeSchema(SchemaText(s)) : s \in Schemas}
    /\ pages = <<>>
    /\ current = 0
    /\ inserting = NoRow
    /\ aborted = FALSE
    /\ rows = <<>>
    /\ damaged = FALSE
    /\ phantoms = {}
    /\ inserts = 0
    /\ throws = 0

\* The row comes as it was sent by a client, or from the interpreter.
InsertRow(row) ==
    /\ ~aborted
    /\ inserting = NoRow
    /\ inserts < MaxInserts
    /\ inserting' \in {row, AddSerializedRow(schema, RowText(schema, row))}
    /\ inserts' = inserts + 1
    /\ UNCHANGED <<schema, pages, current, aborted, rows, damaged, phantoms, throws>>

\* The pages this round of insertRow sees: one more when all were tried.
Allocated ==
    IF current = Len(pages) THEN Append(pages, Zero) ELSE pages
Tried == Allocated[current + 1]

InsertedAt(i, page) ==
    LET id == [page |-> current, row |-> i] IN
    /\ pages' = [Allocated EXCEPT ![current + 1] = page]
    /\ rows' = [x \in DOMAIN rows \cup {id} |->
                    IF x = id THEN inserting ELSE rows[x]]
    /\ inserting' = NoRow
    /\ UNCHANGED <<schema, current, aborted, phantoms, inserts, throws>>

InsertFixed ==
    /\ ~aborted
    /\ inserting # NoRow /\ ~Flexible
    /\ \E i \in 0 .. Capacity - 1 :
          FreeSlot(Tried, i) /\ InsertedAt(i, FixedWith(Tried, i, inserting))
    /\ UNCHANGED damaged

InsertFlexible ==
    /\ ~aborted
    /\ inserting # NoRow /\ Flexible
    /\ HasSpace(Tried, inserting)
    /\ RowSpace(schema, inserting) < Byte
    /\ InsertedAt(Count(Tried), FlexibleWith(Tried, inserting))
    /\ damaged' = (damaged \/ Count(Tried) + 1 = Byte)

\* The length does not fit its byte: the assert behind setByIndex.
InsertAborts ==
    /\ ~aborted
    /\ inserting # NoRow /\ Flexible
    /\ HasSpace(Tried, inserting)
    /\ RowSpace(schema, inserting) >= Byte
    /\ aborted' = TRUE
    /\ UNCHANGED <<schema, pages, current, inserting, rows, damaged, phantoms,
                   inserts, throws>>

NoRoom ==
    IF Flexible THEN ~HasSpace(Tried, inserting)
    ELSE \A i \in 0 .. Capacity - 1 : ~FreeSlot(Tried, i)

\* The next round tries the next page.  The bound lets a row that fits
\* nowhere try so many pages only.
InsertNextPage ==
    /\ ~aborted
    /\ inserting # NoRow
    /\ NoRoom
    /\ current < MaxInserts
    /\ pages' = Allocated
    /\ current' = current + 1
    /\ UNCHANGED <<schema, inserting, aborted, rows, damaged, phantoms, inserts, throws>>

\* The value of column k is of another type than the column: serializeRow
\* throws when it gets there.
Written(k) ==
    <<GetNulls(inserting)>>
        \o FlattenSeq([i \in 1 .. k - 1 |-> SerializeValue(schema[i], inserting[i])])

Throws(k) ==
    /\ ~aborted
    /\ inserting # NoRow /\ inserting[k] # Null
    /\ throws < MaxThrows
    /\ throws' = throws + 1
    /\ inserting' = NoRow
    /\ UNCHANGED <<schema, current, aborted, rows, damaged, inserts>>

\* The flag of the slot was set before: a row is there that nobody inserted,
\* with whatever the slot held in the columns from k on.
InsertThrowsFixed(k) ==
    /\ ~Flexible
    /\ Throws(k)
    /\ \E i \in 0 .. Capacity - 1 :
          /\ FreeSlot(Tried, i)
          /\ pages' = [Allocated EXCEPT ![current + 1] =
                          With(@, i * SlotSpace, <<1>> \o Written(k))]
          /\ phantoms' = phantoms \cup {[page |-> current, row |-> i]}

\* getRowSpace throws for a string column, before it is known whether the page
\* has space.  The row is not counted yet.
InsertThrowsFlexible(k) ==
    LET low == PageSize - PrevSum(Tried, Count(Tried)) - RowSpace(schema, inserting)
    IN  /\ Flexible
        /\ Throws(k)
        /\ \/ schema[k].type = "string" /\ pages' = Allocated
           \/ /\ schema[k].type # "string"
              /\ HasSpace(Tried, inserting)
              /\ pages' = [Allocated EXCEPT ![current + 1] = With(@, low, Written(k))]
        /\ UNCHANGED phantoms

\* Callers delete rows under the ids they were given.  Of a row beyond a row
\* count that came back to 0 deleteRow would read past the end of a vector.
DeleteRow(id) ==
    /\ ~aborted
    /\ inserting = NoRow
    /\ id \in DOMAIN rows
    /\ Flexible => id.row < Count(pages[id.page + 1])
    /\ pages' = [pages EXCEPT ![id.page + 1] =
                    IF Flexible THEN FlexibleWithout(@, id.row)
                    ELSE FixedWithout(@, id.row)]
    /\ rows' = Restrict(rows, DOMAIN rows \ {id})
    /\ damaged' = (damaged \/ Flexible)
    /\ UNCHANGED <<schema, current, inserting, aborted, phantoms, inserts, throws>>

\* Database::getTable: a new handle starts at the first page.
Reopen ==
    /\ ~aborted
    /\ inserting = NoRow
    /\ current # 0
    /\ current' = 0
    /\ UNCHANGED <<schema, pages, inserting, aborted, rows, damaged, phantoms,
                   inserts, throws>>

InsertRound == InsertFixed \/ InsertFlexible \/ InsertAborts \/ InsertNextPage

Next ==
    \/ \E r \in RowsOf[schema] : InsertRow(r)
    \/ InsertRound
    \/ \E k \in DOMAIN schema : InsertThrowsFixed(k) \/ InsertThrowsFlexible(k)
    \/ \E id \in DOMAIN rows : DeleteRow(id)
    \/ Reopen

Spec == Init /\ [][Next]_vars
-----------------------------------------------------------------------------
(* The scan                                                                *)

\* ScanIterator::operator++.
After(id) ==
    IF id.row + 1 < RowCount THEN [id EXCEPT !.row = @ + 1]
    ELSE [page |-> id.page + 1, row |-> 0]

Begin == [page |-> 0, row |-> 0]
\* Scan::end: the last slot of the last page, there must be one.
End == [page |-> Len(pages) - 1, row |-> RowCount - 1]

\* What a loop from begin to end visits, if it ends within the file.
Visited ==
    LET steps == 0 .. Len(pages) * RowCount
        id[n \in steps] == IF n = 0 THEN Begin ELSE After(id[n - 1])
        end == CHOOSE n \in steps : id[n] = End /\ \A m \in 0 .. n - 1 : id[m] # End
    IN  [n \in 1 .. end |-> id[n - 1]]

\* ChunkManager::GetContent serializes the row at every id of the scan; of the
\* empty row of a free slot it reads a value that is not there.
Scanned == LET ids == Visited IN [i \in DOMAIN ids |-> GetRow(ids[i])]
ContentCrashes == NoRow \in ToSet(Scanned)

-----------------------------------------------------------------------------
(* Properties                                                              *)

RowIdType == [page : 0 .. MaxInserts, row : 0 .. PageSize - 1]

\* Type invariant: bytes stay bytes, row ids stay within pages.
TypeOK ==
    /\ schema \in Schemas
    /\ pages \in Seq(Page)
    /\ current \in 0 .. Len(pages)
    /\ inserting \in RowsOf[schema] \cup {NoRow}
    /\ DOMAIN rows \subseteq RowIdType
    /\ \A id \in DOMAIN rows : rows[id] \in RowsOf[schema]
    /\ {aborted, damaged} \subseteq BOOLEAN
    /\ phantoms \subseteq RowIdType
    /\ inserts \in 0 .. MaxInserts
    /\ throws \in 0 .. MaxThrows

\* Every row that was inserted and not deleted is read back under its id, with
\* its nulls and whatever was in its slot before, and only those are, but for
\* what an insertRow that threw leaves on a fixed page.  Not so
\* once a row of a flexible page was deleted or a flexible page took as many
\* rows as a byte can count.
RowsReadBack ==
    ~damaged =>
        /\ \A id \in DOMAIN rows :
              id.page < Len(pages) /\ GetRow(id) = rows[id]
        /\ \A p \in 0 .. Len(pages) - 1, i \in 0 .. RowCount - 1 :
              LET id == [page |-> p, row |-> i]
              IN  GetRow(id) # NoRow => id \in DOMAIN rows \cup phantoms

\* insertRow never returns the id of a row that is there, also after rows
\* before it were deleted and the table was opened again, nor that of a row
\* whose insertRow threw.
InsertTakesFreeId ==
    [][~damaged' /\ inserting # NoRow /\ inserting' = NoRow /\ throws' = throws
         => /\ Cardinality(DOMAIN rows') = Cardinality(DOMAIN rows) + 1
            /\ DOMAIN rows' \cap phantoms = {}]_vars

\* A scan visits every row once.  It stops before the last slot of the last
\* page: a fixed table with full pages lacks its last row, a flexible one
\* never has a row there.  A chunk can send the content of a table only when
\* every other slot has a row, and never that of a flexible one; a client cuts
\* the same rows out of what it is sent.
ScanFindsRows ==
    LET visited == Visited
        scanned == Scanned
    IN  ~damaged /\ pages # <<>> /\ RowCount > 0 =>
        /\ IsInjective(visited)
        /\ DOMAIN rows \ ToSet(visited) \subseteq {End}
        /\ Flexible => End \notin DOMAIN rows /\ ContentCrashes
        /\ ~Flexible => (ContentCrashes <=>
              Cardinality((DOMAIN rows \cup phantoms) \ {End})
                 < Len(pages) * Capacity - 1)
        /\ ~ContentCrashes => GetTableContent(Content(schema, scanned)) = scanned
=============================================================================
