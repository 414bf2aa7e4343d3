------------------------------ MODULE Database ------------------------------
(***************************************************************************)
(* The tables of a database as files of a directory: lib/sql/database.cpp, *)
(* catalog.cpp and store.cpp, used by the threads of a chunk server.  A    *)
(* table is two files, its rows and its scheme, which is a table too, with *)
(* one row per column.                                                     *)
(*                                                                         *)
(* Every system call and every access to a page is a step.  The pool finds *)
(* a page only under the handle it was read for: a file that is opened     *)
(* anew is read from the disk, while what was written to it may be in      *)
(* other frames.  A file has one page; module Table has more.              *)
(***************************************************************************)
EXTENDS Naturals, Sequences, SequencesExt, FiniteSets

CONSTANTS
    Threads,
    Names,          \* of tables, none is another one with "scheme" behind
    Columns,
    Schemas,        \* sequences of columns
    Generations,    \* of the files with a path, enough of them
    None,
    FrameCount,     \* of the pool: 1 in the tests, 10000 in a chunk
    Descriptors,    \* that a process may have open at a time
    MaxKills, MaxRequests      \* bounds

ASSUME SchemasAssumption == Schemas \subseteq Seq(Columns) \ {<<>>}
ASSUME PoolAssumption == FrameCount \in Nat \ {0} /\ Descriptors \in Nat
ASSUME BoundsAssumption == {MaxKills, MaxRequests} \subseteq Nat

VARIABLES
    dir,            \* path -> file or None
    disk,           \* file -> the rows of its page, or None when it has no page
    frames,         \* the frames of the pool, None those without a page
    hand,           \* of the clock: the frame that is given away next
    pc, op,         \* what each thread does
    made,           \* history: name -> schema and number of rows, or None
    spoiled,        \* history: name -> why it may not be as made says
    kills, requests

vars == <<dir, disk, frames, hand, pc, op, made, spoiled, kills, requests>>

Scheme(n) == <<n, "scheme">>
Data(n) == <<n, "">>
Paths == {Scheme(n) : n \in Names} \cup {Data(n) : n \in Names}
\* A file lives on without a path while somebody has it open.
Files == Paths \X Generations
\* The page of a scheme, and that of a table as the list of what was written to
\* it: the number of the row, the columns its client's bytes were read by and
\* those it was laid out by.  Rows of different layouts overlap; what they read
\* as is left out.
SchemePage == Seq(Columns)
DataPage == Seq([row : Nat, read : Seq(Columns), written : Seq(Columns)])
\* An open file remembers the number of its pages.
Handle == [file : Files, size : {0, 1}]
Frames == 0 .. FrameCount - 1

ASSUME NoneAssumption ==
    /\ None \notin Files \cup SchemePage \cup DataPage \cup Handle \cup Threads
                     \cup [cols : Seq(Columns), rows : Nat]
    /\ None \notin [file : Files, by : Threads \cup {None},
                    rows : SchemePage \cup DataPage \cup {None}]
\* Whoever makes a file has none open: the handles and the frames never hold all
\* generations of a path.
ASSUME GenerationsAssumption ==
    /\ Generations # {}
    /\ \A opened \in [Threads -> Generations], loaded \in [Frames -> Generations] :
           \E g \in Generations : /\ \A th \in Threads : opened[th] # g
                                  /\ \A i \in Frames : loaded[i] # g

NoOp == [do |-> "nothing", name |-> None, cols |-> <<>>, read |-> <<>>, at |-> 0,
         scheme |-> None, data |-> None, alone |-> TRUE]

\* Why a table may differ from what was created: "again" a create of what was
\* there, "cut" a kill or a create without descriptors, "raced" requests that
\* met at its first row, "torn" others that met or a drop that was killed.
Reasons == {"again", "cut", "raced", "torn"}

Init ==
    /\ dir = [p \in Paths |-> None]
    /\ disk = [f \in Files |-> None]
    /\ frames = [i \in Frames |-> None]
    /\ hand = 0
    /\ pc = [th \in Threads |-> "idle"]
    /\ op = [th \in Threads |-> NoOp]
    /\ made = [n \in Names |-> None]
    /\ spoiled = [n \in Names |-> {}]
    /\ kills = 0
    /\ requests = 0

-----------------------------------------------------------------------------
(* Files and descriptors                                                   *)

Handles(th) == {op[th].scheme, op[th].data} \ {None}

InUse(f) ==
    \/ dir[f[1]] = f
    \/ \E th \in Threads : \E h \in Handles(th) : h.file = f
    \/ \E i \in Frames : frames[i] # None /\ frames[i].file = f

\* Mutant: the file of a path stays the same, its pages with it.
NewFileReused(path) == CHOOSE f \in {path} \X Generations : TRUE

NewFile(path) == CHOOSE f \in {path} \X Generations : ~InUse(f)

\* The disk becomes d, without the files nobody can reach any more.
Disk(d) == disk' = [f \in Files |-> IF InUse(f)' THEN d[f] ELSE None]

\* Frame i was filled under the handle that th has on f.
Under(i, th, f) == frames[i] # None /\ frames[i].file = f /\ frames[i].by = th
Cached(th, f) == \E i \in Frames : Under(i, th, f)

\* Mutant: a page in the pool needs no descriptor.
UsedByHandles ==
    Cardinality(UNION {{<<th, h.file>> : h \in Handles(th)} : th \in Threads})

\* A frame keeps the File of its page, and with it the descriptor.
Used ==
    LET opened == UNION {{<<th, h.file>> : h \in Handles(th)} : th \in Threads}
    IN  Cardinality({i \in Frames : frames[i] # None})
            + Cardinality({o \in opened : ~Cached(o[1], o[2])})

Full == Used >= Descriptors

CanOpen(path) == dir[path] # None /\ ~Full
\* With O_CREAT and O_EXCL.
CanCreate(path) == dir[path] = None /\ ~Full

\* Mutant: a page that was never written back does not count.
PageCountWritten(f) == IF disk[f] \in {None, <<>>} THEN 0 ELSE 1

PageCount(f) == IF disk[f] = None THEN 0 ELSE 1

NewHandle(path) == [file |-> dir[path], size |-> PageCount(dir[path])]

-----------------------------------------------------------------------------
(* Pages                                                                   *)

\* A scan of a file without pages reads the page before page 0, at an offset of
\* 4 GB less a page: the read returns nothing and is tried again for ever.
\* What becomes of its frame when the hand comes back to it is left out.
Stuck(i) == frames[i] # None /\ frames[i].rows = None

\* The disk after the frame at the hand was made free for a page of f.
Dumped(d, f) ==
    IF frames[hand] = None \/ Stuck(hand) THEN d
    ELSE [d EXCEPT ![frames[hand].file] = frames[hand].rows]

\* What thread th sees on the page of f when the disk is d.
Page(th, f, d) ==
    IF Cached(th, f) THEN frames[CHOOSE i \in Frames : Under(i, th, f)].rows
    ELSE Dumped(d, f)[f]

Turned == (hand + 1) % FrameCount

\* An access to the page of f, which adds rows to it.  No frame is pinned between
\* two steps, so the clock gives them away one after the other.  "by" is th as
\* long as it keeps its handle: no later one has the descriptor of a closed one.
Access(th, f, d, added, by) ==
    LET hit == Cached(th, f)
        i == IF hit THEN CHOOSE i \in Frames : Under(i, th, f) ELSE hand
    IN  /\ hit \/ ~Stuck(hand)
        /\ frames' = [frames EXCEPT ![i] =
                        [file |-> f, by |-> by, rows |-> Page(th, f, d) \o added]]
        /\ hand' = IF hit THEN hand ELSE Turned
        /\ Disk(IF hit THEN d ELSE Dumped(d, f))

\* insertRow; allocPage zeroes the first page when the handle knows of none.
Put(th, h, added, by) ==
    Access(th, h.file,
           IF h.size = 0 THEN [disk EXCEPT ![h.file] = <<>>] ELSE disk, added, by)

\* The frames after th closed its handles.
Closed(th) ==
    [i \in Frames |-> IF frames[i] # None /\ frames[i].by = th
                      THEN [frames[i] EXCEPT !.by = None] ELSE frames[i]]

-----------------------------------------------------------------------------
(* Threads                                                                 *)

Busy(th) == pc[th] \notin {"idle", "hung"}
On(n) == {th \in Threads : Busy(th) /\ op[th].name = n}

\* Two threads may read, or add rows to a table that has a page.
MayMeet(n, do1, do2) ==
    \/ {do1, do2} = {"select"}
    \/ /\ {do1, do2} \subseteq {"select", "insert"}
       /\ dir[Data(n)] # None /\ disk[dir[Data(n)]] # None

Start(th, do, n, cols, first) ==
    LET met == {x \in On(n) : ~MayMeet(n, op[x].do, do)}
        rows == \A x \in met \cup {th} :
                    (IF x = th THEN do ELSE op[x].do) \in {"select", "insert"}
        there == {dir[Data(n)], dir[Scheme(n)]} # {None}
    IN  /\ pc[th] = "idle"
        /\ requests < MaxRequests
        /\ requests' = requests + 1
        /\ pc' = [pc EXCEPT ![th] = first]
        /\ op' = [x \in Threads |->
                    IF x = th THEN [NoOp EXCEPT !.do = do, !.name = n, !.cols = cols,
                                                !.alone = met = {}]
                    ELSE IF x \in met THEN [op[x] EXCEPT !.alone = FALSE]
                    ELSE op[x]]
        /\ spoiled' = [spoiled EXCEPT ![n] = @
              \cup (IF met = {} THEN {} ELSE IF rows THEN {"raced"} ELSE {"torn"})
              \cup (IF do = "create" /\ there THEN {"again"} ELSE {})]
        /\ UNCHANGED <<dir, disk, frames, hand, made, kills>>

Goto(th, label) == pc' = [pc EXCEPT ![th] = label]
\* Mutant: the handle stays open.
EndLeaking(th) == Goto(th, "idle") /\ UNCHANGED op

End(th) == Goto(th, "idle") /\ op' = [op EXCEPT ![th] = NoOp]

\* An exception leaves what was done so far.
Throws(th) ==
    LET cut == op[th].do = "create" /\ Full
    IN  /\ End(th)
        /\ frames' = Closed(th)
        /\ spoiled' = [spoiled EXCEPT ![op[th].name] =
                          IF cut THEN @ \cup {"cut"} ELSE @]
        /\ UNCHANGED <<dir, hand, made, kills, requests>>
        /\ Disk(disk)

-----------------------------------------------------------------------------
(* createTable: saveTableSchema, then createAndOpenTable                   *)

CheckScheme(th) ==
    /\ pc[th] = "check"
    /\ Goto(th, IF dir[Scheme(op[th].name)] = None THEN "make" ELSE "open")
    /\ UNCHANGED <<dir, disk, frames, hand, op, made, spoiled, kills, requests>>

MakeScheme(th) ==
    LET path == Scheme(op[th].name) IN
    /\ pc[th] = "make"
    /\ \/ /\ CanCreate(path)
          /\ dir' = [dir EXCEPT ![path] = NewFile(path)]
          /\ Goto(th, "open")
          /\ UNCHANGED <<disk, frames, hand, op, made, spoiled, kills, requests>>
       \/ ~CanCreate(path) /\ Throws(th)

\* An open file of scheme of the thread's table; label is what it does next.
OpensScheme(th, label) ==
    LET path == Scheme(op[th].name) IN
    \/ /\ CanOpen(path)
       /\ op' = [op EXCEPT ![th].scheme = NewHandle(path)]
       /\ Goto(th, label)
       /\ UNCHANGED <<dir, disk, frames, hand, made, spoiled, kills, requests>>
    \/ ~CanOpen(path) /\ Throws(th)

OpenScheme(th) == pc[th] = "open" /\ OpensScheme(th, "append")

\* The scheme is closed after the last column.
AppendColumn(th) ==
    LET h == op[th].scheme
        next == op[th].at + 1
        last == next = Len(op[th].cols)
    IN  /\ pc[th] = "append"
        /\ Goto(th, IF last THEN "table" ELSE "append")
        /\ op' = [op EXCEPT ![th].at = next,
                     ![th].scheme = IF last THEN None ELSE [h EXCEPT !.size = 1]]
        /\ UNCHANGED <<dir, made, spoiled, kills, requests>>
        /\ Put(th, h, <<op[th].cols[next]>>, IF last THEN None ELSE th)

MakeTable(th) ==
    LET n == op[th].name IN
    /\ pc[th] = "table"
    /\ \/ /\ CanCreate(Data(n))
          /\ dir' = [dir EXCEPT ![Data(n)] = NewFile(Data(n))]
          /\ made' = [made EXCEPT ![n] = [cols |-> op[th].cols, rows |-> 0]]
          /\ End(th)
          /\ UNCHANGED <<disk, frames, hand, spoiled, kills, requests>>
       \/ ~CanCreate(Data(n)) /\ Throws(th)

-----------------------------------------------------------------------------
(* dropTable: forgetTableSchema, then removeTable                          *)

Forget(th) ==
    /\ pc[th] = "forget"
    /\ dir' = [dir EXCEPT ![Scheme(op[th].name)] = None]
    /\ Goto(th, "remove")
    /\ UNCHANGED <<frames, hand, op, made, spoiled, kills, requests>>
    /\ Disk(disk)

RemoveData(th) ==
    LET n == op[th].name IN
    /\ pc[th] = "remove"
    /\ dir' = [dir EXCEPT ![Data(n)] = None]
    /\ made' = [made EXCEPT ![n] = None]
    /\ spoiled' = [spoiled EXCEPT ![n] = IF op[th].alone THEN {} ELSE @]
    /\ End(th)
    /\ UNCHANGED <<frames, hand, kills, requests>>
    /\ Disk(disk)

-----------------------------------------------------------------------------
(* findTableSchema                                                         *)

\* Whatever is in the frames and not on disk is lost, and so is what every
\* thread has not done yet.
Dies ==
    /\ kills < MaxKills
    /\ kills' = kills + 1
    /\ frames' = [i \in Frames |-> None]
    /\ hand' = 0
    /\ pc' = [th \in Threads |-> "idle"]
    /\ op' = [th \in Threads |-> NoOp]
    /\ spoiled' = [n \in Names |->
          LET doing == {op[th].do : th \in On(n)}
              lost == \E i \in Frames :
                  /\ frames[i] # None
                  /\ frames[i].file \in {dir[Data(n)], dir[Scheme(n)]}
                  /\ frames[i].rows # disk[frames[i].file]
          IN  spoiled[n]
                \cup (IF "drop" \in doing THEN {"torn"} ELSE {})
                \cup (IF lost \/ doing \cap {"create", "insert"} # {}
                      THEN {"cut"} ELSE {})]
    /\ UNCHANGED <<dir, made, requests>>
    /\ Disk(disk)

\* Without a scheme the schema is a null pointer that everybody follows.
FindScheme(th) ==
    /\ pc[th] = "find"
    /\ \/ /\ dir[Scheme(op[th].name)] # None
          /\ op' = [op EXCEPT ![th].cols = <<>>]
          /\ Goto(th, "look")
          /\ UNCHANGED <<dir, disk, frames, hand, made, spoiled, kills, requests>>
       \/ dir[Scheme(op[th].name)] = None /\ Dies

LookScheme(th) == pc[th] = "look" /\ OpensScheme(th, "read")

Hangs(th, h) ==
    /\ h.size = 0
    /\ ~Stuck(hand)
    /\ Goto(th, "hung")
    /\ frames' = [frames EXCEPT ![hand] =
                     [file |-> h.file, by |-> th, rows |-> None]]
    /\ hand' = Turned
    /\ UNCHANGED <<dir, op, made, spoiled, kills, requests>>
    /\ Disk(Dumped(disk, h.file))

\* The row behind the last one ends the scan of the scheme.
ReadColumn(th) ==
    LET h == op[th].scheme
        page == Page(th, h.file, disk)
        next == Len(op[th].cols) + 1
    IN  /\ pc[th] = "read"
        /\ \/ /\ h.size # 0
              /\ next \in DOMAIN page
              /\ op' = [op EXCEPT ![th].cols = Append(@, page[next])]
              /\ UNCHANGED <<dir, pc, made, spoiled, kills, requests>>
              /\ Access(th, h.file, disk, <<>>, th)
           \/ Hangs(th, h)

\* add_row looks the scheme up for the bytes it got and for the table, and
\* table_content for the table, for the rows and for the answer.
AfterLookup == [insert |-> <<"find", "data">>, select |-> <<"data", "scan", "end">>]

CloseScheme(th) ==
    LET h == op[th].scheme
        lookups == op[th].at + 1
    IN  /\ pc[th] = "read"
        /\ h.size # 0
        /\ Len(op[th].cols) + 1 \notin DOMAIN Page(th, h.file, disk)
        /\ op' = [op EXCEPT ![th].scheme = None, ![th].at = lookups,
                     ![th].read = IF lookups = 1 THEN op[th].cols ELSE @]
        /\ Goto(th, AfterLookup[op[th].do][lookups])
        /\ UNCHANGED <<dir, made, spoiled, kills, requests>>
        /\ Access(th, h.file, disk, <<>>, None)

-----------------------------------------------------------------------------
(* getTable, then insertRow or a Scan                                      *)

OpenData(th) ==
    LET path == Data(op[th].name) IN
    /\ pc[th] = "data"
    /\ \/ /\ CanOpen(path)
          /\ op' = [op EXCEPT ![th].data = NewHandle(path)]
          /\ Goto(th, IF op[th].do = "insert" THEN "insert" ELSE "find")
          /\ UNCHANGED <<dir, disk, frames, hand, made, spoiled, kills, requests>>
       \/ ~CanOpen(path) /\ Throws(th)

\* The history of a table with one more row.
WithRow(table) == IF table = None THEN None ELSE [table EXCEPT !.rows = @ + 1]

\* A row is written in the layout of the schema found last.  When fewer columns
\* were found first, the values behind the row's last are read from memory that
\* is not the row's: they may be taken, throw or end the process.
Insert(th) ==
    LET n == op[th].name
        row == [row |-> IF made[n] = None THEN 0 ELSE made[n].rows + 1,
                read |-> op[th].read, written |-> op[th].cols]
        short == Len(op[th].read) < Len(op[th].cols)
    IN  /\ pc[th] = "insert"
        /\ \/ /\ made' = [made EXCEPT ![n] = WithRow(@)]
              /\ End(th)
              /\ UNCHANGED <<dir, spoiled, kills, requests>>
              /\ Put(th, op[th].data, <<row>>, None)
           \/ /\ short
              /\ End(th)
              /\ UNCHANGED <<dir, made, spoiled, kills, requests>>
              /\ Put(th, op[th].data, <<>>, None)
           \/ short /\ Dies

\* One access stands for some of those per row.  A chunk serializes what it scans
\* by the schema it found and dies of a slot without a row (ContentCrashes of
\* module Table).
ScanRows(th) ==
    LET h == op[th].data IN
    /\ pc[th] = "scan"
    /\ \/ /\ h.size # 0
          /\ \/ Goto(th, "scan")
             \/ Goto(th, "find")
          /\ UNCHANGED <<dir, op, made, spoiled, kills, requests>>
          /\ Access(th, h.file, disk, <<>>, th)
       \/ h.size # 0 /\ op[th].cols # <<>> /\ Dies
       \/ Hangs(th, h)

EndScan(th) ==
    /\ pc[th] = "end"
    /\ End(th)
    /\ frames' = Closed(th)
    /\ UNCHANGED <<dir, hand, made, spoiled, kills, requests>>
    /\ Disk(disk)

-----------------------------------------------------------------------------
(* Requests                                                                *)

\* Mutant: the scheme is not saved first.
CreateTableFirst(th) ==
    \E n \in Names, s \in Schemas : Start(th, "create", n, s, "table")

CreateTable(th) ==
    \E n \in Names, s \in Schemas : Start(th, "create", n, s, "check")
DropTable(th) == \E n \in Names : Start(th, "drop", n, <<>>, "forget")
InsertRow(th) == \E n \in Names : Start(th, "insert", n, <<>>, "find")
SelectAll(th) == \E n \in Names : Start(th, "select", n, <<>>, "find")

Work(th) ==
    \/ CheckScheme(th) \/ MakeScheme(th) \/ OpenScheme(th) \/ AppendColumn(th)
    \/ MakeTable(th) \/ Forget(th) \/ RemoveData(th)
    \/ FindScheme(th) \/ LookScheme(th) \/ ReadColumn(th) \/ CloseScheme(th)
    \/ OpenData(th) \/ Insert(th) \/ ScanRows(th) \/ EndScan(th)

Kill == Dies

\* The database is destroyed and the process starts anew: the pool writes its
\* frames back in their order.
Stop ==
    LET of(f) == {i \in Frames : frames[i] # None /\ frames[i].file = f}
        last(f) == CHOOSE i \in of(f) : \A j \in of(f) : j <= i
    IN  /\ \A th \in Threads : pc[th] = "idle"
        /\ \E i \in Frames : frames[i] # None
        /\ frames' = [i \in Frames |-> None]
        /\ hand' = 0
        /\ UNCHANGED <<dir, pc, op, made, spoiled, kills, requests>>
        /\ Disk([f \in Files |-> IF of(f) = {} THEN disk[f] ELSE frames[last(f)].rows])

Next ==
    \/ \E th \in Threads : \/ CreateTable(th) \/ DropTable(th)
                           \/ InsertRow(th) \/ SelectAll(th) \/ Work(th)
    \/ Kill
    \/ Stop

Spec == Init /\ [][Next]_vars
-----------------------------------------------------------------------------
(* Properties                                                              *)

\* Type invariant: a path leads to a file of its own, a frame that is found
\* again belongs to an open handle, and only one frame does, threads that do
\* nothing hold nothing.
TypeOK ==
    /\ dir \in [Paths -> Files \cup {None}]
    /\ \A p \in Paths : dir[p] # None => dir[p][1] = p
    /\ hand \in Frames
    /\ \A i \in Frames : frames[i] # None =>
        /\ frames[i].file \in Files
        /\ ~Stuck(i) => disk[frames[i].file] # None
        /\ frames[i].by # None =>
            /\ \E h \in Handles(frames[i].by) : h.file = frames[i].file
            /\ \A j \in Frames : Under(j, frames[i].by, frames[i].file) => j = i
    /\ \A th \in Threads : pc[th] = "idle" <=> op[th] = NoOp
    /\ spoiled \in [Names -> SUBSET Reasons]
    /\ kills \in 0 .. MaxKills
    /\ requests \in 0 .. MaxRequests

Copies(f) ==
    ({disk[f]} \cup {frames[i].rows : i \in {j \in Frames : /\ frames[j] # None
                                                            /\ frames[j].file = f}})
        \ {None}

\* In every pool: whatever is lost or falls behind, no copy of a page, on the
\* disk or in a frame, has anything the table was not given.  Its scheme starts
\* with the columns of its create, and its rows were added in the order they
\* have, none twice, read and laid out by as many of those columns as were
\* found.  So it is through the write-backs of stale frames, kills, handles
\* that allocate the page of another one, and the restarts in between, unless
\* it is created again or requests meet that make or drop it.
NothingInvented ==
    \A n \in Names :
        made[n] # None /\ spoiled[n] \cap {"again", "torn"} = {} =>
            /\ dir[Scheme(n)] # None =>
                \A page \in Copies(dir[Scheme(n)]) : IsPrefix(page, made[n].cols)
            /\ dir[Data(n)] # None =>
                \A page \in Copies(dir[Data(n)]) :
                    /\ \A i, j \in DOMAIN page : i < j => page[i].row < page[j].row
                    /\ \A i \in DOMAIN page :
                        /\ page[i].row \in 1 .. made[n].rows
                        /\ IsPrefix(page[i].read, made[n].cols)
                        /\ IsPrefix(page[i].written, made[n].cols)

\* A table without a scheme, which kills whoever looks it up, comes only from a
\* drop: one under way, one that was killed between its two removals or one
\* that met another request.
SchemeBeforeTable ==
    \A n \in Names :
        dir[Data(n)] # None /\ dir[Scheme(n)] = None =>
            (\E th \in On(n) : op[th].do = "drop") \/ "torn" \in spoiled[n]

\* A request hangs for ever only at a scheme nobody finished or at a table
\* that never got a row.
HangsOnEmpty ==
    [][\A th \in Threads : pc[th] # "hung" /\ pc'[th] = "hung" =>
            LET n == op[th].name
            IN  \/ spoiled[n] # {}
                \/ pc[th] = "scan" /\ made[n].rows = 0]_vars

\* A pool with as many frames as the process has descriptors, as in a chunk,
\* gives none back until the process ends.  Its hand never comes round, so
\* nothing gets to the disk but the zeros of allocPage, and every handle but the
\* one that wrote them finds no columns and rows.  Once the frames have all
\* descriptors, no table is made and no row added any more.
Exhausted == Cardinality({i \in Frames : frames[i] # None}) = Descriptors
RunsDry ==
    [][FrameCount >= Descriptors =>
        \/ frames' = [i \in Frames |-> None]
        \/ /\ \A f \in Files : disk'[f] \in {disk[f], None, <<>>}
           /\ Exhausted =>
                /\ Exhausted'
                /\ \A n \in Names : made'[n] \in {made[n], None}]_vars
=============================================================================
