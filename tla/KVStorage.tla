------------------------------ MODULE KVStorage ------------------------------
(***************************************************************************)
(* The master's persistent key-value store (master/persistent_kv): a map   *)
(* kept in memory and mirrored in one page of a file, so that a killed     *)
(* master finds its tables again.                                          *)
(*                                                                         *)
(* The page is an array of cells.  Cell 0 counts the rows, cells 1.. hold  *)
(* the row lengths, and the rows are packed downwards from the end of the  *)
(* page, a key row and a value row per pair.  A deleted row keeps its      *)
(* number with length 0.                                                   *)
(*                                                                         *)
(* A cell is four digits in the file, written low digit first, and every   *)
(* digit reaches the operating system before the next one is written       *)
(* (FileEditor::Set seeks first): a kill between two digits leaves a torn  *)
(* cell.  An operation is therefore a queue of digit writes, and Kill may  *)
(* cut it anywhere.                                                        *)
(***************************************************************************)
EXTENDS Integers, Sequences, SequencesExt, Functions

CONSTANTS
    PageSize,       \* DISK_SIZE, in cells
    Base,           \* values of a digit: 16
    Keys, Values,   \* strings: non-empty sequences of character codes, whose
                    \* length fits a cell, as insertRow asserts
    Deletions,      \* with TRUE, an owner who deletes pairs; with FALSE, another
    MaxKills        \* bound, for each of the two owners

MaxCell == Base * Base * Base * Base - 1

ASSUME PageAssumption == PageSize \in Nat \ {0}
ASSUME BaseAssumption == Base \in Nat \ {0, 1}
ASSUME StringAssumption ==
    \A s \in Keys \cup Values : s \in Seq(1 .. MaxCell) /\ Len(s) \in 1 .. MaxCell
ASSUME SwitchAssumption == Deletions \subseteq BOOLEAN
ASSUME KillsAssumption == MaxKills \in [BOOLEAN -> Nat]

VARIABLES
    cells,          \* the file
    values_,        \* key -> value
    key2index_,     \* key -> pair number
    keysSize,       \* keys_.size()
    todo,           \* the page operations left of the current set or erase
    writes,         \* the digit writes left of the current page operation
    promised,       \* history: the map once the current operation is done
    kept,           \* history: the map acknowledged before the first kill
    deletes,        \* the owner sets keys again and erases them
    up,             \* FALSE while the master is dead
    kills

memory == <<values_, key2index_, keysSize>>
vars == <<cells, memory, todo, writes, promised, kept, deletes, up, kills>>

-----------------------------------------------------------------------------
(* The page                                                                *)

\* One cell beyond the page is a cell of the file too: the file is larger.
Cells == 0 .. PageSize

Rows(c) == c[0]
Len0(c, i) == c[i + 1]       \* the length of row i

\* Cells taken by the rows before row i.
PrevSum(c, i) == SumFunctionOnSet([r \in 0 .. i - 1 |-> Len0(c, r)], 0 .. i - 1)

GetRow(c, i) ==
    LET first == PageSize - PrevSum(c, i + 1)
    IN  [j \in 1 .. Len0(c, i) |-> c[first + j - 1]]

Pow(d) == CASE d = 0 -> 1 [] d = 1 -> Base [] d = 2 -> Base * Base
            [] d = 3 -> Base * Base * Base [] d = 4 -> MaxCell + 1

\* setByIndex: cell i goes from old to v digit by digit; the writes that
\* change nothing are left out.
Torn(old, v, d) == (old - (old % Pow(d))) + (v % Pow(d))
Digit(i, old, v, d) ==
    IF Torn(old, v, d) = Torn(old, v, d - 1) THEN <<>>
    ELSE <<<<i, Torn(old, v, d)>>>>
SetByIndex(i, old, v) ==
    Digit(i, old, v, 1) \o Digit(i, old, v, 2) \o Digit(i, old, v, 3)
        \o Digit(i, old, v, 4)

\* Mutant: the new row's own length cell is not counted.
HasSpaceButOne(c, row) ==
    PrevSum(c, Rows(c)) + Len(row) + 1 + Rows(c) <= PageSize

HasSpace(c, row) ==
    PrevSum(c, Rows(c)) + Len(row) + 2 + Rows(c) <= PageSize

\* Mutants: the count is raised first; the row begins one cell too late.
InsertRowCountFirst(c, row) ==
    LET first == PageSize - PrevSum(c, Rows(c)) - Len(row)
        data == [j \in 1 .. Len(row) |->
                    SetByIndex(first + j - 1, c[first + j - 1], row[j])]
    IN  SetByIndex(0, Rows(c), Rows(c) + 1)
          \o SetByIndex(Rows(c) + 1, c[Rows(c) + 1], Len(row))
          \o FlattenSeq(data)
InsertRowOneUp(c, row) ==
    LET first == PageSize - PrevSum(c, Rows(c)) - Len(row) + 1
        data == [j \in 1 .. Len(row) |->
                    SetByIndex(first + j - 1, c[first + j - 1], row[j])]
    IN  FlattenSeq(data)
          \o SetByIndex(Rows(c) + 1, c[Rows(c) + 1], Len(row))
          \o SetByIndex(0, Rows(c), Rows(c) + 1)

\* insertRow, when there is space: the row, its length, then the count.
InsertRow(c, row) ==
    LET first == PageSize - PrevSum(c, Rows(c)) - Len(row)
        data == [j \in 1 .. Len(row) |->
                    SetByIndex(first + j - 1, c[first + j - 1], row[j])]
    IN  FlattenSeq(data)
          \o SetByIndex(Rows(c) + 1, c[Rows(c) + 1], Len(row))
          \o SetByIndex(0, Rows(c), Rows(c) + 1)

\* deleteRow: the length first, then eraseRow moves the later rows up by the
\* deleted length, from the cell where the deleted row began, and zeroes what
\* they left.
DeleteRow(c, i) ==
    LET len == Len0(c, i)
        prev == PrevSum(c, i)
        all == PrevSum(c, Rows(c))
        from == PageSize - len - prev
        to == PageSize - all
        moved == [n \in 1 .. from - to + 1 |->
                    LET s == from - n + 1 IN SetByIndex(s + len, c[s + len], c[s])]
        Now(s) == IF s >= to + len /\ s <= from + len THEN c[s - len] ELSE c[s]
        zeroed == [n \in 1 .. len |->
                    SetByIndex(to + n - 1, Now(to + n - 1), 0)]
    IN  SetByIndex(i + 1, len, 0) \o FlattenSeq(moved) \o FlattenSeq(zeroed)

\* The constructor: rows 2i and 2i+1 are a pair unless one is empty; a later
\* pair of a key wins.
PairsOf(c) ==
    {i \in 0 .. (Rows(c) \div 2) - 1 :
        GetRow(c, 2 * i) # <<>> /\ GetRow(c, 2 * i + 1) # <<>>}
Recovered(c) ==
    [k \in {GetRow(c, 2 * i) : i \in PairsOf(c)} |->
        LET last == CHOOSE i \in PairsOf(c) :
                      /\ GetRow(c, 2 * i) = k
                      /\ \A j \in PairsOf(c) : GetRow(c, 2 * j) = k => j <= i
        IN  GetRow(c, 2 * last + 1)]
RecoveredIndex(c) ==
    [k \in DOMAIN Recovered(c) |->
        (CHOOSE i \in PairsOf(c) :
            /\ GetRow(c, 2 * i) = k
            /\ \A j \in PairsOf(c) : GetRow(c, 2 * j) = k => j <= i) \div 2]

-----------------------------------------------------------------------------
(* The map and its two operations                                          *)

EmptyMap == <<>>
With(m, k, v) == [x \in DOMAIN m \cup {k} |-> IF x = k THEN v ELSE m[x]]
Without(m, k) == Restrict(m, DOMAIN m \ {k})

Insert(row) == [op |-> "insert", row |-> row, index |-> 0]
Delete(i) == [op |-> "delete", row |-> <<>>, index |-> i]
\* Mutant: a pair number is taken for a row number.
DeleteRowsOf(k) == <<Delete(key2index_[k]), Delete(key2index_[k] + 1)>>

DeletePair(k) ==
    <<Delete(2 * key2index_[k]), Delete(2 * key2index_[k] + 1)>>

Idle == up /\ todo = <<>> /\ writes = <<>>

Init ==
    /\ cells = [i \in Cells |-> 0]
    /\ values_ = EmptyMap
    /\ key2index_ = EmptyMap
    /\ keysSize = 0
    /\ todo = <<>>
    /\ writes = <<>>
    /\ promised = EmptyMap
    /\ kept = EmptyMap
    /\ deletes \in Deletions
    /\ up = TRUE
    /\ kills = 0

\* KVStorage::set up to its page operations; values_ is updated at the end.
Set(k, v) ==
    LET present == k \in DOMAIN key2index_ IN
    /\ Idle
    /\ present => deletes
    /\ todo' = (IF present /\ k \in DOMAIN values_ THEN DeletePair(k) ELSE <<>>)
                 \o <<Insert(k), Insert(v)>>
    /\ keysSize' = keysSize + 1
    /\ key2index_' = With(key2index_, k, keysSize)
    /\ promised' = With(values_, k, v)
    /\ UNCHANGED <<cells, values_, writes, kept, deletes, up, kills>>

\* KVStorage::erase of a key that is there; of another it does nothing.
Erase(k) ==
    /\ Idle
    /\ deletes
    /\ k \in DOMAIN values_
    /\ todo' = DeletePair(k)
    /\ key2index_' = Without(key2index_, k)
    /\ promised' = Without(values_, k)
    /\ UNCHANGED <<cells, values_, keysSize, writes, kept, deletes, up, kills>>

\* values_[key] = value comes last.
EndsOp ==
    LET ends == todo' = <<>> /\ writes' = <<>> IN
    /\ values_' = IF ends THEN promised ELSE values_
    /\ kept' = IF ends /\ kills = 0 THEN promised ELSE kept

\* The next insertRow or deleteRow starts.
PageOp ==
    /\ up /\ writes = <<>> /\ todo # <<>>
    /\ todo' = Tail(todo)
    /\ LET next == Head(todo) IN
       \/ /\ next.op = "insert"
          /\ HasSpace(cells, next.row)
          /\ writes' = InsertRow(cells, next.row)
       \/ /\ next.op = "delete"
          /\ next.index < Rows(cells)
          /\ writes' = DeleteRow(cells, next.index)
    /\ EndsOp
    /\ UNCHANGED <<cells, key2index_, keysSize, promised, deletes, up, kills>>

\* One digit reaches the file; the last one ends the operation.
WriteDigit ==
    /\ up /\ writes # <<>>
    /\ cells' = [cells EXCEPT ![Head(writes)[1]] = Head(writes)[2]]
    /\ writes' = Tail(writes)
    /\ UNCHANGED todo
    /\ EndsOp
    /\ UNCHANGED <<key2index_, keysSize, promised, deletes, up, kills>>

Dead ==
    /\ up' = FALSE
    /\ values_' = EmptyMap
    /\ key2index_' = EmptyMap
    /\ keysSize' = 0
    /\ todo' = <<>>
    /\ writes' = <<>>
    /\ UNCHANGED <<cells, promised, kept, deletes>>

\* assert(ret.first): the page is full, the master aborts.
AbortFull ==
    /\ up /\ writes = <<>> /\ todo # <<>>
    /\ Head(todo).op = "insert"
    /\ ~HasSpace(cells, Head(todo).row)
    /\ kills < MaxKills[deletes]
    /\ kills' = kills + 1
    /\ Dead

\* SIGKILL; of an owner who deletes pairs, between two operations.
Kill ==
    /\ up
    /\ deletes => Idle
    /\ kills < MaxKills[deletes]
    /\ kills' = kills + 1
    /\ Dead

\* The constructor of the next process.
Restart ==
    /\ ~up
    /\ up' = TRUE
    /\ values_' = Recovered(cells)
    /\ key2index_' = RecoveredIndex(cells)
    /\ keysSize' = 0
    /\ promised' = values_'
    /\ UNCHANGED <<cells, todo, writes, kept, deletes, kills>>

Next ==
    \/ \E k \in Keys : \E v \in Values : Set(k, v)
    \/ \E k \in Keys : Erase(k)
    \/ PageOp
    \/ WriteDigit
    \/ AbortFull
    \/ Kill
    \/ Restart

Spec == Init /\ [][Next]_vars
-----------------------------------------------------------------------------
(* Properties                                                              *)

\* The row headers and the packed rows never meet: the space check of
\* insertRow is right to the cell, also while a row is being added, and
\* deletions only make room.
HeadersMeetNoRow ==
    Rows(cells) + 1 + PrevSum(cells, Rows(cells)) <= PageSize

\* Type invariant: every cell holds what four digits can, headers and rows keep
\* apart, and values_ and key2index_ name the same keys between two operations.
TypeOK ==
    /\ cells \in [Cells -> 0 .. MaxCell]
    /\ DOMAIN values_ \subseteq Seq(0 .. MaxCell)
    /\ HeadersMeetNoRow
    /\ Idle => DOMAIN key2index_ = DOMAIN values_
    /\ keysSize \in Nat
    /\ up \in BOOLEAN
    /\ kills \in 0 .. MaxKills[deletes]

\* While pairs are only added, a master killed for the first time, between any
\* two digits, comes back with the map of before or of after the operation
\* under way: what the test of the store accepts after its SIGKILL.  It is so
\* while the count of rows has one digit.
RecoverableAtAnyPoint ==
    up /\ kills = 0 /\ ~deletes => Recovered(cells) \in {values_, promised}

\* What was acknowledged before the first kill is found after every later
\* kill, although an operation cut short leaves a key row without its value
\* row and shifts all later pairs by one.
PairsBeforeTheKillSurvive ==
    LET now == Recovered(cells) IN
    ~deletes => \A k \in DOMAIN kept : k \in DOMAIN now /\ now[k] = kept[k]

\* A master stopped between two operations comes back with its tables, no
\* more and no fewer, whatever became of their values.
KeysRecoverable == Idle => DOMAIN Recovered(cells) = DOMAIN values_

\* In the first life of a master, whatever was set, overwritten and erased, its
\* tables are recoverable and the pair number kept for a key is where its pair
\* is: an erase deletes the pair it means.
PairsStayFound ==
    kills = 0 =>
        /\ KeysRecoverable
        /\ Idle => \A k \in DOMAIN key2index_ :
                     /\ 2 * key2index_[k] + 1 < Rows(cells)
                     /\ GetRow(cells, 2 * key2index_[k]) = k
=============================================================================
