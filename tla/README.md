# relvec-db in TLA+

Models of relvec-db, a small distributed SQL database in C++: a **master** that
knows which chunk holds which part of a table, **chunk** servers that keep rows
in a page-based storage engine (`lib/sql`), and a **client** that talks to both
over HTTP. Module names, variables and actions keep the names of the code; every
definition's lines are in `PROJECT.json` under `map`.

## 1. The system

```
 client --HTTP--> master: Balancer --set/erase--> KVStorage --digits--> one file
   |                ^ heartbeat every few seconds
   |                |
   +----HTTP----> chunk: ChunkManager --> Database --> Store/Catalog
                                             |
                             Table, Scan, Fixed/Flexible pages
                             BTree on an IndexTable
                                             |
                             BufferPool (FramePool, ClockCache) --> File
```

| Component (sources) | State | Operations | What is hard |
|---|---|---|---|
| **Buffer pool** (`bufferpool.*`, `cache.h`, `file.*`) | frames with descriptor, page, data, reference count; the clock's keys, bits and hand; open descriptors; the size each File object remembers | `getPage`/`allocPage`, write through a `Frame`, release, open and close a file, destruction of the pool | the cache key is the descriptor, not the file; a pinned frame may be evicted; reference counts survive the theft of a frame; a descriptor number is reused |
| **KV store of the master** (`master/persistent_kv`) | a map, the pair number of each key, one page of cells in a file, four digits to a cell | `set`, `erase`, recovery in the constructor | a kill between any two digits; the row shifting of a deletion; pair numbers after a restart |
| **Balancer of the master** (`master/balancer.*`, `master/main.cpp`) | the last report of each chunk, the ordered free list, the partitions in the KV store, one mutex | heartbeat, `insert_table`, `chunks_by_query`, `remove_table` on the threads of the HTTP server | interleaving of requests; an insert that fails half-way; a handler that locks a mutex it holds; restart |
| **B-tree** (`btree.*`, `btree_page.*`, `index.h`) | pages: metadata, one inner root, leaves in a chain | `insert`, `remove`, `lookup`, scans | splits, a root that overflows, leaves that leave the chain, the numbers of the neighbours |
| **Tables, scans, pages** (`table.*`, `scan.*`, `fixed.*`, `flexible.*`, `marshal.*`, `row.*`) | rows in the slots of pages | insert, get, delete a row; iterate | one-byte lengths and counts; where a scan ends; row numbers after a deletion |
| **Database, store, catalog** (`database.*`, `store.*`, `catalog.*`, `schema.*`) | files of a directory, a scheme file per table | create, open, drop tables and indexes | a crash between the two files of a table; append to a scheme file that is there |
| **Chunk server** (`src/chunk`) | its database, a heartbeat thread | add row, create and drop table, get content | one database, several HTTP threads and no lock; an exception in the heartbeat thread |
| **Client** (`src/client`) | none | create, drop and read a table, add a row | requests to several servers one after the other, each of which may fail |
| **Interpreter** (`interpreter.*`, `parser.y`, `lexer.l`, `accessors.*`, `comparator.*`) | the map of variables | one statement after the other | what one statement leaves behind for the next; sorting after projecting; values of several types |
| **Texts** (`schema.cpp`, `serialize.*`) | none | a schema or a list of numbers to text and back | names with blanks or commas |
| **Vector search** (`lib/vectors`) | hash tables, a graph of neighbours | add a vector, search | not part of the build |

What makes each correct:

* *Pool*: what a holder of a page sees is what was last written to it; what was
  written is in the files after the pool is destroyed; reference counts are the
  number of holders; the cache never answers for a file that was closed.
* *KV store*: a killed master finds the map of before or after the operation
  under way; the pair number kept for a key is where its pair is.
* *Balancer*: the parts of a table add up to its size; no chunk is promised more
  than it reported; all parts come from one state of the free list; every
  request is answered.
* *B-tree*: it is a map; a scan returns it, once and in order.
* *Tables*: a row is read back under its id as it was inserted; a scan returns
  the rows that were inserted and not deleted; an insert ends.
* *Catalog*: a table that is found has the columns and rows it was given; a
  table never lacks its scheme; no request hangs.
* *Cluster*: a table that a client was told is made is on every chunk it was told
  of; an acknowledged row is there once per part; every client gets an answer or
  an error.
* *Interpreter*: a SELECT gives what the relational expression it stands for gives
  on the tables, whatever was executed before; an INSERT adds what is written.

## 2. Modules

| Module | Models | Notes |
|---|---|---|
| `BufferPool` | `FramePool`, `Frame`, `BufferPool`, `ClockCache`, `File` | the specification whatever the users do (`Spec`) and two disciplines of use (`SpecSoleObject`, `SpecSequential`) |
| `BufferPoolProofs` | | theorems about `BufferPool`: any users, then disciplined users |
| `KVProofs`, `BalancerProofs`, `ClusterProofs`, `BTreeProofs`, `TableProofs`, `DatabaseProofs` | | theorems about the module of the name |
| `Iteration` | | induction over sets of numbers, functions defined by iteration, sums, flattened sequences |
| `KVStorage` | `KVStorage` on a `FlixiblePage` on a `FileEditor`, digit by digit | kills between any two digits |
| `Master` | what the balancer promises: each operation in one step | the abstract specification |
| `Balancer` | `Balancer` under the threads of `MasterRequestHandler` | implements `Master`; with fairness |
| `Cluster` | `ClientGetter`, the chunks' request handlers and heartbeat threads, on `Master` | kills, restarts, late answers; with fairness |
| `Index` | what `IIndex` promises: a map | the abstract specification |
| `BTree` | `BTree` on leaf and inner pages | implements `Index` |
| `Marshal` | the bytes of a row and the row of bytes | operators only |
| `Wire` | schemas and byte lists as text, a row and a content on their way between client and chunk | operators only |
| `Table` | `ImplementedTable`, `FixedPage`, `FlixiblePage`, `Scan`, on `Marshal` and `Wire` | one action per round of an insert |
| `Database` | `Database`, `Catalog`, `Store` under the threads of a chunk server | files, a pool of any number of frames and descriptors, kills and clean restarts |
| `Interpreter` | `Interpreter`, `executeSomeAST`, `Comparator`, `executeJoin`, what grammar and lexer decide | statements are data |
| `MCBufferPool`, `MCKVStorage`, `MCBalancer`, `MCCluster`, `MCBTree`, `MCTable`, `MCDatabase`, `MCInterpreter` | | instances for TLC |

How they build on each other:

```
 Interpreter      Cluster  extends  Master  <-- implemented by --  Balancer
     |               |                                                |
  takes tables as Table                                 takes the store as a map, which
  and Database show them                                KVStorage shows and limits
     |               |
     +--- Database --+--- Table extends Wire extends Marshal
             |               |
             +-- BufferPool -+         BTree implements Index
```

`Cluster` takes of the master what `Balancer` is shown to implement, and of a
chunk what `Database` shows of its requests: which of them fail, crash the chunk
or hang in it. `Database` treats a table as one page of rows, which `Table`
justifies, and has a pool of its own, in which no page is pinned between two steps:
what is left of `BufferPool` is which file's page a frame holds, under which handle it
is found, what of it is not yet on disk, and that the hand goes round. `Table` takes for granted that a
page is what was last written to it, which `BufferPool` shows for one `File`
object per file and refutes for several. `Balancer` treats the store as a map
that survives a kill, which `KVStorage` shows while tables are only added, and
`Balancer` and `Cluster` kill the master only then.

Operators named in a comment "Mutant: ..." are deliberately wrong variants of the
definition behind them. Nothing uses them; they are there to show, by putting
them in its place, that a property can fail.

### BufferPool

`disk` and `fileSize` are the files, `open` the kernel's descriptor table, `size`
the page count a `File` object remembers, `owned` the descriptors some table
handle refers to (the frames are the other owners of the `shared_ptr<File>`).
`frames`, `keys`, `clock` and `hand` are `FramePool` and its `ClockCache`; `pins`
are the live `Frame` objects. A page is one value. `acquireFrame` is one action
with two cases: on a hit the reference count goes up, on a miss the hand clears
`k` bits and the slot it stops at is written back, re-keyed and read again,
*with the reference count it had*. A frame of a pinned page can thus be taken
away; its holder then reads and writes another page, which is what
`PinOutlivesATurn` measures. `logical` and `heldFor` are history variables: what
was last written to each page, and how many misses each pin has outlived.

The cache key is `(fd, page)`, so the same file under two descriptors is cached
twice. `SpecSoleObject` restricts the users to one File object per file and one
pin at a time; under it the pool is coherent, which `BufferPoolSole` checks.
`SpecSequential` is what a chunk or the SQL shell really does: it closes a table
and opens it again, while frames still keep the old descriptor alive.

### KVStorage

`cells` is the file. An operation of the map becomes a queue of page operations
(`todo`), each of which becomes a queue of digit writes (`writes`): every digit
reaches the operating system before the next, as `FileEditor::Set` seeks first.
`Kill` may cut the queue anywhere; `Restart` is the constructor. Rows are short
sequences of small numbers; what they spell does not matter, but their lengths
do, and whether a value is also a key. An empty value, which a table of size 0 has, is
left out here: its row looks deleted to the constructor, and `Balancer` takes that
into account. `promised` and `kept` are history: the map after the current operation, and
the map acknowledged before the first kill. There are two owners, chosen at the
start: one that only adds keys, as a master does that is not asked to remove or
to place a table again, and one that also overwrites and erases (`deletes`);
`MaxKills` bounds the kills of each.

### Master and Balancer

In `Balancer` each thread of the server is idle, waits for the mutex or works. A
request that has the mutex is one step, except `InsertTable`, whose loop takes one
step per part, and `EraseTable`, which calls `GetPartition` with the mutex held
and so waits for itself (`pc = "relock"`): from then on the master answers nobody.
A partial placement gives the chunk's rest back as an entry of its own, and the
next heartbeat replaces only the entry of the last report, so a chunk may have
two entries: `PlacedWithinReports` therefore allows its capacity once *per
report*. `ImplementsMaster` shows all this to be `Master`, where a report, a
placement, a removal (which sets `frozen`) and a restart are one step each: the
mapping hides the rounds of a placement under way behind the free list it began
with (`before`).

### Cluster

An operation of the client is its sequence of HTTP requests (`Requests`), to the
master for the parts of its table, then to the chunks of these parts one after
the other; `pc` and `todo` say where it is. A client dies from whatever goes wrong:
a refused connection (`Refused`), one that is closed because the process ended or
the handler threw (`Closed`), an answer that takes more than Poco's 60 seconds.
Such a request may still be performed later (`TimesOut` makes it `"late"`), or
hang in the chunk or in the frozen master (`"hung"`). A chunk performs a request in
one step, with the outcomes `Database` found: a table whose scheme is missing kills
the chunk, an unfinished scheme hangs, a kill in the middle of `CreateTable` leaves
none, one or both of its files (`CutCreate`). `schema` is served by a function
without a return statement, so it may crash the chunk, or answer something that is
no schema, or a schema. `table_content` crashes the chunk unless every slot but the
last has a row. The heartbeat thread of a chunk does not catch anything: a master
that is dead, or frozen, ends the chunk (`HeartbeatFails`). A row counts as
added whatever columns the lookup found (`Database` says which these are), and a chunk has
descriptors left. `used`, `replaced` and
`added` are history: whom a client sent a request, which tables were placed again,
and which rows were added where.

### BTree

`inner` is the root when it is an inner page, `leaf` gives every page its content
as a leaf, `pageCount` is the file's size. The tree has two levels, because an
insert that finds the root full throws. The scan is an operator (`Scan`): the
leaves `nextRow` visits. `LeafMax` is even: splitting a full leaf with an odd
number of pairs writes one pair beyond the new page (`btree_page.h:587`), which a
model of pages does not show. Callers insert a key once, the contract of
`isUnique()`; `BTree::insert` itself does not compare keys.

### Marshal, Wire and Table

A cell is a byte or the eight bytes of a number; a page is an array of cells and
`Byte` is what a byte counts to, so that the one-byte lengths and counts of a
flexible page wrap. `insertRow` is a loop: `InsertRow` starts it (`inserting` is
the row), each round is one of `InsertFixed`, `InsertFlexible`, `InsertAborts`
(the assertion on the row length fails) and `InsertNextPage`, which allocates a
page when the handle has come to the end. A row with a value of the wrong type
throws in the middle of `serializeRow`: on a fixed page (`InsertThrowsFixed`) the
slot's flag is set already, so a row is there that nobody inserted, with what the
slot held before in the columns that were not written (`phantoms`); on a flexible
page (`InsertThrowsFlexible`) only bytes nobody counts change. `Reopen` is a new
handle, whose `current` starts at the first page. Both deletions are as in the
code: on a flexible page deleting the first row only clears its length, deleting
another one moves a cell too many. From then on rows are read from the wrong
place, and likewise when the row count comes back to 0, so the properties hold
while `damaged` is false; nothing in the repository deletes rows of a table. The
scan is an operator: `Visited` are the ids of the loop from `begin` to `end`.

`Wire` is what a schema, a row and a content become between client and chunk. A
table's schema is read from the text its creator sent, an inserted row may come as
a list of byte values in text, and `ScanFindsRows` asks that a client cuts the same
rows out of an answer that the chunk scanned. A number in a text is one character.
Columns have names without blanks and commas (`Plain`); `NamesAssumption` of
`MCTable` shows what other names do: the name is cut and the rest read as the type,
the schema is refused, or one column becomes two. `StringsAssumption` says that the
run's strings are shorter than what a byte counts to, as the theorems assume.

### Database

`dir` is the directory, `disk` the page of each file (`None` when it has none),
`frames` and `hand` the pool. A file is a path and a
generation, so that a file that was removed and one created under its path are
told apart while somebody still has the first open, be it only a frame. A thread is
at a label of the code (`pc`) with what it knows (`op`): the schema it found, its open
handles and the size each of them remembers. Every system call and every access to a
page is a step. A lookup of a table without a scheme follows a null pointer, so the process
dies (`Dies`), and so it may when a chunk is asked for the content of a table with
free slots; a scan of a file without a page reads at page -1, which as an
unsigned offset is 4 GB behind the end, and never returns (`Hangs`).

A frame is found again by the handle its page was read for and by no other (`by`), for
the pool's key is the descriptor; when the handle is closed the frame keeps its File,
and so the page is never found again, but is written back when the hand comes to it.
How much goes wrong depends on the number of frames:

* With one frame, as in the tests (`createDatabase(1)`), the next access to any
  other page writes it back, so a file that is opened anew is read as it was left.
* With more, a handle reads what is on the disk while newer pages are in frames of closed
  handles, and the frames of several handles are written back one after the other, an
  older one over a newer one. Tables do not stay as they were made, which `BufferPoolReopen`
  shows for two handles. `NothingInvented` says what is: columns and rows are lost, but
  every copy of a page has only what its table was given.
* A chunk opens 10000 frames (`src/chunk/main.cpp:119`), more than the 1024 descriptors
  a process has by default. Its hand never comes round: only the
  handle that wrote a page ever sees it, `add_row` and `table_content` find no
  columns and no rows in a table that another request filled. And as every frame
  keeps its descriptor (`Used`), after some hundred requests no file can be opened
  any more (`RunsDry`), until the process is started anew with what is on the disk.

`made` and `spoiled` are history: what a table was given, and why it may differ
from that: it was created again while it was there, a kill or a create without
descriptors cut something, or requests met that make, drop or begin it. The properties
are exact about which of these break what. A row is in the page with the columns its
client's bytes were read by and those it was laid out by, which are two lookups; what
rows of different layouts on one page read as is left out. When a row is laid out by more
columns than it was read by, its last values come from memory that is not the
row's, and the request may take them, throw or end the process (`Insert`). No HTTP
request drops a table; `ChunkManager::DropTable` is there and is a request here.
The interpreter does the same with fewer lookups.

### Interpreter

A statement is a record, an expression a nested tuple; `Parses` and `Token` are
what the grammar and the lexer decide. `variables` is the interpreter's map: every
row a SELECT reads writes its columns to it and nothing removes them, and every
name in a statement, quoted or not, is looked up there and stands for itself if it
is not found. A SELECT is evaluated in the order of the code (`Select`): for every
row of the join the variables, the projection, then the filter; after that, for
every row that is left, the variables again, now from the projected columns, and
the sort keys; then the sort, whose comparator asserts on two types. `Sorts` allows
every order `std::sort` may give rows with equal keys. `Insert` throws at the first
value of a wrong type and leaves what `Table` shows. A statement that crashes or
hangs the shell is the last one. `read` is history: the columns any SELECT read.

## 3. Runs

| Run | Specification | Question | Bounds |
|---|---|---|---|
| `BufferPoolFree` | `Spec` | what holds whatever users do: keys that identify frames, open descriptors, counts of holders, sizes, the protection of a pin | 3 frames, 2 files, 2 descriptors, 2 pages, 3 users; one data value, since no property here is about data |
| `BufferPoolSole` | `SpecSoleObject` | coherence, durability | 2 frames, 2 files of 2 pages, 1 user, 2 values, restarts unbounded |
| `BufferPoolReopen` | `SpecSequential` | the same coherence when a table is reopened: **violated** | 2 frames, 1 file of 1 page |
| `KV` | `Spec` | recovery from kills between digits while keys are added; pairs and numbers across sets, overwrites and erases without a kill | 20 cells, so that the row count passes 15 and becomes two digits; 3 keys of 1-3 characters, 2 values; 2 kills of the owner who adds, none of the other |
| `KVRestartErase` | `Spec` | keys after a restart and an erase: **violated** | 20 cells, 2 keys, 1 kill |
| `Balancer` | `FairSpec` | that it implements `Master`; sizes of parts, room promised, answers, chunks that come back | 2 chunks of capacity 2 and 3, sizes 0 and 4 (none fits one chunk), 2 placements, 2 reports counted per chunk, 1 kill, 2 threads |
| `Cluster` | `FairSpec` | where tables are made and by whom, how often rows are there, that clients end, what the freeze ends | 2 chunks of capacity 3, 2 tables, sizes 0, 2, 4, 2 clients with five pairs of programs, 2 faults (kills and late answers together), reports and restarts unbounded |
| `BTreeUpdates` | `Spec` | the tree is a map, separators bound, scans are sound and, until a leaf was dropped, complete | 5 keys, leaves of 2 pairs, root of 4 entries, 7 pages: enough for a root split, two leaf splits, the overflow of the root, dropped leaves and a new root |
| `BTreeEmptiedFirst` | `Spec` | scans are complete: **violated** | 5 keys |
| `Table` | `Spec` | rows are read back, scanned and sent, ids are free | pages of 12 cells, a byte counts to 3, 5 inserts of which one may throw; a schema with a string, one without, one whose rows are longer than a page |
| `Database` | `Spec` | what a chunk's tables have and lose, when a scheme is missing, what hangs, what still works in the end | 5 frames, 4 descriptors, 2 threads, 1 table, 2 schemas (of one and two columns), 5 requests, 1 kill, any number of clean restarts |
| `Interpreter` | `Spec` | a SELECT is its relational expression, an INSERT adds what is written | 18 statements in any order, two tables (one with fixed pages, one with flexible ones, sharing a column), 2 rows each |

Why the bounds are enough: each is chosen so that the interesting edge is reached
and passed. In the pool three frames and three users are the smallest instance in
which the hand can wrap over several pinned frames; two descriptors are enough for
a file to be open twice and for a number to be reused. In the KV store the page
gets full and the count carries into a second digit. In the balancer a size of 4
needs both chunks, so a second placement fails after using up entries or has to
wait for heartbeats. In the cluster a size of 2 splits a chunk's entry, so that the
next table gets two parts of that chunk, 4 needs both chunks and 0 none; the
programs are two clients making the same table, one making what the other uses,
and one removing what the other has, and two faults can hit both chunks, or a chunk
and the master, or make one client late and kill what it waits for. In the tree the
page bound is reached only after the root overflowed. A flexible page of 12 cells
takes four rows of nulls, which is where its row count wraps, or three others; a
fixed one has two slots, so five inserts need three pages. Five requests are
enough for a table to be created, filled by two threads and read, or to be created,
filled, dropped and created again, or for a create, a drop and a lookup to meet, with
a restart in between. One table is enough, since its scheme and its rows are two
files. One create and one insert fill a pool that has four descriptors to
keep, and so does one request for the content; as in a chunk the descriptors are gone
before the hand has come round, so frames are written back only when the process
ends. Pools in which frames are evicted are in the model and in the theorems, which
hold for every number of frames and descriptors. For the interpreter two rows are enough
for duplicates, for an order and for a row that leaves variables to the next.
`CHECK_DEADLOCK FALSE` is set where the program or the bound really
stops: a full KV page without a kill left, a master frozen with no kill left, a
cluster whose clients ended with all chunks dead, an index whose page bound is
reached, a table after its last insert, a database after its last request, a
shell that crashed.

### What the properties say

The comment before each property is its precise statement. Some state the limit of
what the code does, as exactly as it can be drawn:

* `PinOutlivesATurn`: a pinned frame is stolen, but not before as many misses as a
  turn of the hand takes, each of which moves it by at most one slot per other user.
* `RecoverableAtAnyPoint` is about a master that adds tables: then a kill between
  any two digits leaves the map of before or of after. It is not so when a key is
  set again: between its deletion and its insertion neither map is recovered.
  Nor is it so in the moment the row count goes from 15 to 16, see below; `KV` stays
  below that, and the theorem about it says so.
* `PairsBeforeTheKillSurvive` holds although a pair that was cut in two shifts all
  later rows, because a table's name is never the text of a list of chunks. If a
  value is also a key, three keys and two kills are enough to lose a pair.
* `PlacedWithinReports` counts a chunk's capacity once per report.
* `OneCreatorPerTable`: two clients that were both told that they made the same
  table made it on different chunks, because a chunk refuses to create what it has.
* `RowsOncePerPart`: a row is added once per part its client was told of, also when
  the answer was late; a chunk has a row twice only when its table has two parts
  there, and then nobody got past its creation on a part.
* `FreezeEndsChunks`: the first `remove_table` ends every chunk, unless the master is
  started again first.
* `ScanIsSound`: `FullScan` holds until a leaf was dropped; after that scans still
  return nothing wrong.
* `ScanFindsRows`: a scan stops before the last slot of the last page, and a chunk
  survives a request for the content of a table only if every other slot has a row.
* `NothingInvented` does not say that rows are found: in a chunk, where until the
  process ends a page is seen only by the handle that wrote it, they are not. It says that what is found was given.
* `SchemeBeforeTable`: a drop removes the scheme first, so a kill between its two
  removals leaves a table that kills whoever looks it up, for ever; nothing else does.
* `HangsOnEmpty`: requests hang only at a scheme nobody finished, or at a table that
  never got a row.
* `SelectIsRelational` is about a SELECT whose every name is a column of its tables
  and which orders by columns it shows; other names may meet stale variables.

### What the violated runs show

* `BufferPoolReopen`: a row written through one handle is not seen through the
  next, because the frame that holds it is keyed by the old descriptor. With a
  single frame (the tests use `createDatabase(1)`) the frame is written back
  before it is read again and the pool is coherent even so.
* `KVRestartErase`: the constructor stores `i / 2` for the pair number although its
  loop already counts pairs, and starts numbering new pairs from 0 again.
* `BTreeEmptiedFirst`: the first entry of the root is never updated, so a scan
  starts at a leaf that was emptied and dropped, and ends there.

More disagreements were met while modelling and have no run of their own:

* in the KV store `eraseRow` moves one cell too many and damages the first cell of
  the row before the erased one, a value; an overwrite that is killed between its
  two halves recovers neither map; a cell is written digit by digit, the low one
  first, so a row count of 15 becomes 0 and then 16, and a master with seven tables that
  is killed in between comes back with none (TLC finds it with eight keys in 33 cells);
  the page has room for more rows than its cell can
  count, and with the 65536th the count is 0 and the store empty;
* in the tree, after a split, the leaf behind the new one keeps its old `prev`
  number, which a later removal trusts; `insert` puts a key in twice although
  `isUnique()`;
* the scan of a table without rows, and the lookup of a table whose scheme got no
  column before a kill, never return, so a SELECT from an empty table hangs the
  shell; looking up a table that does not exist ends the process;
* creating a table that exists fails only after its columns were appended to the
  scheme once more;
* a string of 256 characters or more is inserted with the length that fits a byte and
  read back cut, without an error, and what follows it in the row is read from its inside;
* inserting a row that is longer than a page allocates pages for ever; the scan of
  a fixed table leaves out the last slot of the last page;
* an INSERT that throws leaves a row in a table of fixed pages;
* `GetSerializedSchema` has no return statement; `table_content` reads a value of the
  empty row of every free slot, which for a flexible table there always is;
* `==` is given the token of `>` by the lexer; a column of an unknown type is left
  out of its table silently; a string that is the name of a column some SELECT read
  is replaced by that column's last value.

### Fairness

`Balancer` and `Cluster` have liveness.

* `Balancer`: a thread that has the mutex keeps running (weak fairness of `Work`); a
  thread that waits for it gets it if it is free again and again (strong fairness of
  `Lock`, the scheduler's promise for a `std::mutex` contended by few threads); every
  chunk's heartbeat is received again and again, because its thread loops for ever
  (`src/chunk/main.cpp:126-131`). No client is assumed to send anything. Both of its
  liveness properties except the frozen master.
* `Cluster`: as long as some client can go on, one does (weak fairness of their
  next steps together: each ends after finitely many), and the heartbeat of a chunk
  that runs comes to its end, in a report or an exception (weak fairness per chunk).
  Nobody is assumed to restart anything, and no fault is assumed to happen or not.

## 4. Proofs

Seven modules hold theorems about the models, `Iteration` general lemmas. They are proved for every value of the constants
that satisfies the assumptions named in the models: any number of frames, threads,
clients or chunks, pages of any size, any keys, tables, schemas and programs of the
clients. Bounds of the models (`MaxPages`, `MaxInserts`, `MaxFaults`, ...) are
constants like others, so the theorems hold for any bound.

| Theorem | Property | Says |
|---|---|---|
| `BufferPoolProofs!TypeCorrect` | `TypeOK` | every variable stays in its range; a reference count never goes below zero |
| `BufferPoolProofs!KeysIdentifyFrames` | `KeysIdentify` | a frame's key is what it caches, and keys are unique |
| `BufferPoolProofs!CachedPagesKeepFilesOpen` | `CachedFdsOpen` | a descriptor the cache knows is open |
| `BufferPoolProofs!IdleFramesEvictable` | `RefsCountHolders` | reference counts are the numbers of holders, and a frame nobody holds has its clock bit clear |
| `BufferPoolProofs!ReadsStayInFile` | `SizeWithinFile` | no handle believes in pages its file does not have |
| `BufferPoolProofs!PinsOutliveATurn` | `PinOutlivesATurn` | a pinned frame is not stolen before the hand came round |
| `BufferPoolProofs!HoldersSeeLastWrite` | `PinsSeeLastWrite` | with one File object per file and one page in use at a time, a holder sees the last write |
| `BufferPoolProofs!NothingLostAtExit` | `DurableAfterShutdown` | and after the pool's end the files have everything |
| `BufferPoolProofs!NoPageStolen` | (`NoneStolen`) | and no page in use loses its frame |
| `KVProofs!TypeCorrect` | `TypeOK` | headers and rows never meet, wherever a kill cuts; between operations the map and the pair numbers have the same keys |
| `KVProofs!RecoverableWhileOneDigit` | `RecoverableAtAnyPoint` | below `Base - 1` rows a kill between any two digits leaves the map of before or of after |
| `KVProofs!KeptWhileOneDigit` | `PairsBeforeTheKillSurvive` | likewise, and if no value is a key, what was acknowledged before the first kill is found for ever |
| `KVProofs!PairsStay` | `PairsStayFound` | in a first life pair numbers stay right and no key is damaged, as long as the row count fits a cell |
| `BalancerProofs!TypeCorrect` | `TypeOK` | ranges; no entry of the free list goes below zero |
| `BalancerProofs!MutualExclusion` | (`OneAtATime`) | one thread at a time has the mutex |
| `BalancerProofs!PartitionsCover` | `PartitionCovers` | the parts of a table add up to its size |
| `BalancerProofs!GivenWithinReports` | `PlacedWithinReports` | a chunk is never given more than its capacity for every report it sent |
| `BalancerProofs!Refinement` | `ImplementsMaster` | each operation takes effect in one step of `Master` |
| `BTreeProofs!TypeCorrect` | `TypeOK` | no page holds more than fits |
| `BTreeProofs!DescentsEndRight` | `SeparatorsBound` | separators bound the leaves between them |
| `BTreeProofs!Refinement` | `ImplementsIndex` | the tree is the map of `Index` |
| `BTreeProofs!ChainInvariance` | (`SInv`) | links between leaves follow the entries of the root, and lead to no page yet to be allocated |
| `BTreeProofs!ScansAreSound` | `ScanIsSound` | a scan returns pairs of the map only, in the order of their keys, and all of them until a leaf was dropped |
| `TableProofs!TypeCorrect` | `TypeOK` | bytes stay bytes and ids within pages, through torn rows, erased rows and row counts that come back to 0 |
| `TableProofs!RowsAreReadBack` | `RowsReadBack` | `getRow` of the id an insert returned gives the row, until a flexible page is damaged |
| `TableProofs!InsertsTakeFreeIds` | `InsertTakesFreeId` | an insert never returns the id of a row that is there, nor of a row nobody inserted |
| `TableProofs!ScansFindRows` | `ScanFindsRows` | a scan visits every row once, but for the last slot of the last page, and a content is sent as it was scanned or not at all |
| `DatabaseProofs!TypeCorrect` | `TypeOK` | ranges of directory, frames and history; an open handle finds its page in at most one frame |
| `DatabaseProofs!TablesHaveSchemes` | `SchemeBeforeTable` | a table without a scheme comes from a drop that is under way, was killed between its two removals or met another request; never from a create that was cut |
| `DatabaseProofs!OnlyWhatWasGiven` | `NothingInvented` | in any pool, no copy of a page has what its table was not given |
| `DatabaseProofs!HangsExplained` | `HangsOnEmpty` | what a request that hangs has met |
| `ClusterProofs!TypeCorrect` | `TypeOK` | ranges; a client that asks chunks has one to ask |
| `ClusterProofs!CreatedStays` | `CreatedOnEveryPart` | an acknowledged table is on every part |
| `ClusterProofs!OneCreator` | `OneCreatorPerTable` | two acknowledged creators have no chunk in common |
| `ClusterProofs!RowsAddedOnce` | `RowsOncePerPart` | an acknowledged row was added once per part |

### The arguments

*Buffer pool, any users* (`IInv`): the conjunction of the properties proved
(`KeysIdentify` is `KeysMatchFrames` and `OneFramePerKey`, `RefsCountHolders` is
`RefsCountPins` and `IdleFramesUnlocked`) and two more. `OwnedFdsOpen` (a handle's
descriptor is open) is what makes `Load` leave the new frame's descriptor open, and
`PinsNameFiles` is needed for the type of `logical`. None of the properties is
inductive alone: `IdleFramesUnlocked` needs `RefsCountPins` (a released frame has a
count above zero) and both halves of `KeysIdentify` (`unlock` by key clears the bit
of exactly the released frame); `SizeWithinFile` needs to know that files only grow
while open. One lemma per action shows that it keeps `IInv`; the counting of holders
is in `CountsPin` and `CountsUnpin`.

*Buffer pool, the clock* (`TurnsCounted`): since a held frame lost its bit, the hand
has gone at most `heldFor` times as many slots as there are other users. It is kept
because the bits a miss clears belong to frames that are held, each by somebody
else, and neither by the user who asks nor by the one on the frame in question
(`SweptAreHeld`, an injection into the users; `OthersHold`). When the hand stops on a
held frame the turn is complete, which is the property. It needs that a release
clears no other frame's bit, so that held frames have a key of their own
(`HeldFramesFilled`), and that the ages are counted up to `FrameCount - 1`, the
hypothesis of the theorem.

*Buffer pool, disciplined users* (`CoherenceInv`): a cached page is current, an
uncached one is current on disk. The first is kept because nobody writes through a
stolen frame (`NoneStolen`), which holds because whoever asks for a page holds no
other, so the frame that is given away is nobody's; and because a page is in at most
one frame (`OneFramePerPage`, from one descriptor per file). `SizesAreFull` keeps `allocPage`
from zeroing a page that is in use. `SpecSequential` breaks one descriptor per file,
which is how `BufferPoolReopen` fails.

*KV store.* Most of the model is in one place, the queue of digit writes, and so is the
proof: `Reaches(c, w, S, d)` says that the writes `w` take the page from `c` to `d`
and that every page on the way, the ones a kill may find, is in `S`. It composes
(`ReachMore`, `ReachAll`, `ReachSet`), so a digit, a cell, a row and an operation are
reasoned about one after the other, up to `InsertReaches` and `DeleteReaches`. What
is left is which pages are on the way:

* `KVInv` (`TypeCorrect`): all of them are `Safe`, the headers and the rows of each
  keep apart. An insertion writes below the rows and then a length and a count that
  the space check has made room for, a torn length being behind the rows that are
  counted; a torn count is never more than the new one. A deletion writes the length
  first, and a torn length is no longer than the old one.
* `AddInv` (`RecoverableWhileOneDigit`): all of them show `values_` or `promised`
  (`Showing`). Until its count is written a row is not seen (`Alike`), and the count
  is written at once as long as it has one digit, the hypothesis `CountIsOneDigit`;
  a key row without its value row makes no pair. The phases of an operation
  (`PairToInsert`, `ValueToInsert`, `AllInserted`) say what its last page shows.
* `KeptInv` (`KeptWhileOneDigit`): all of them are `Keeping` the old pairs, and no row
  still to be inserted, nor a lone last row, is a key of one. A shifted value can
  become a key, so this needs `Keys \cap Values = {}`: a key is a table's name, a value
  a list of `host,port:bytes;` (`SerializeValue` of the balancer). Without it TLC finds
  an old pair lost.
* `StayInv` (`PairsStay`): `Holds(c, f, K, X)` says of a page that the keys `K` are in
  the pairs `f` gives them, and no other pair but those of `X` is whole; the stages of
  an operation say for which `X`. The key lemma, `DeletedPair`, is that a deletion
  damages at most the first cell of the row before the deleted one, which is never the
  key row of another pair. `CountFits`, fewer rows than a cell can count, deleted ones
  included, is needed because the page has ten million cells and a cell counts to 65535.

Their hypotheses are about the state and not about the constants: they say until when
a run of the program is safe, and every run meets them up to some size.

*Balancer* (`BInv`): `PartitionCovers` rests on `NoByteLost` (the parts already
given and what is left of the request add up to its size in the middle of the
loop), and every conjunct on `OneAtATime`, for the loop is not atomic.
`PlacedWithinReports` is inductive with `BInv` and finitely many stored tables and
free entries (`Room`): a round of the loop moves bytes from a free entry to a part
being placed (`GiveKeepsRoom`), `StorePartition` moves those parts to the table in
place of the ones it had, a failure or a kill only drops bytes, and a report adds at
most one capacity (`OnUpdateKeepsRoom`). It is the one proof that needs
`ThreadsAssumption`, that the server has finitely many threads, for a sum over them.
The
refinement (`RInv`) adds that the loop is where the function `Rounds` of `Master`
is after as many rounds (`PlacesLikeMaster`). The rounds end because each but the
last uses up an entry, so after `Cardinality(before)` of them the list is empty; the
iteration of `Rounds` is reasoned about with `Iteration`. One lemma per action shows which step of
`Master` it is: all of a request takes effect at its last step, a step of the loop
is a stutter, since `SeenFree` still shows the list the loop began with.

*B-tree* (`BInv`, with `Tree`): a leaf is `Ascending`, and for entry `i` of the root
every pair below is within `Bounds(i)`, the separators ascend and no child is
reached twice (`Fits`). From this `DescentEnds` shows that the one entry whose bounds
admit a key is where its descent goes, so `Lookup` finds a row id exactly if the
pair is `Stored`, in whatever leaf (`LookupFinds`). So it is enough to show what an
operation does to the set of stored pairs; `PairAdded`, `KeyRemoved` and `PairsLost`
turn that into a step of `Index`. Four lemmas about trees, `LeafReplaced`,
`SeparatorLowered`, `EntryAdded` and `EntryDropped`, are composed into the actions:
`SplitLeaf` lowers a separator and adds an entry, `SplitThrows` only lowers one, which
is why it loses exactly the pairs of the upper half. That page numbers below
`pageCount` are the only ones reached (the third part of `BInv`) is needed for a
split to take a page nobody uses.

The scans of the tree need more (`SInv`, with `Links`), for nothing but a scan
follows the links between the leaves, and they are wrong in many states: a removal
unlinks a leaf from the neighbours it knows, which after a split need not be all that
know it, and dropped leaves keep their own links. What stays true is an order: a link from
the leaf of one entry of the root to that of another leads forward (`Ordered`), so a
scan that stays in the tree ascends, whatever it leaves out. It does stay in the
tree while `NoLeafLost`, since it ends at a leaf without pairs, the old
first leaf or the root above the leaves included. `Ordered` alone is not inductive: a
split puts a new leaf at the end of `pageCount`, and a link to that page made
earlier would point anywhere; so no link leads to a page that was not allocated and
those pages hold no pairs. That the whole chain is there (`Whole`) holds as long as
`pageCount` counts exactly the pages of the tree. The path of a scan is a function
defined by iteration (`Rounds`, `ScanFollows`); that it ascends is by induction over
the distance of two of its leaves (`ChainLeadsOn`), that it comes to all of them over
their number (`AllVisited`), and `FlatPairs` says what their contents, put one after
the other, hold.

*Tables* (`Inv`). First what the operators of `Marshal` and `Wire` do, for every schema
and row: `RowReadBack` (the cells of a row, wherever they are in a page, are read as
the row), `FixedSpace` and `RowSpaceIs` (how many there are, so that the next row
is where the last one ends), and what is sent, `RowSent` and `SchemaSent` (the text of
a row or a schema is read as that row or schema). A fold over the columns is
reasoned about by naming its intermediate results, one per column, and induction
over the columns; a text that is cut at blanks or commas is cut where its
pieces were put together (`Lays`), since no piece has one inside. Then what a write
does to a page: `SlotFilled` and `SlotEmptied` touch one slot of a fixed page,
`RowAdded` leaves the rows a flexible page counts as they are, `RowTorn` changes only
cells below them, and `RowErased` keeps lengths and rows apart even where it moves
a cell too many. The invariant says which ids are taken:

* `FixedPages`: the flag of a slot is set exactly where a row is, or one that nobody
  inserted, and the row is behind its flag. No id of a row is that of a phantom.
* `FlexiblePages`: a page has exactly the rows it counts, each above the next, as
  long as it is not `damaged`.
* `Room`: count, lengths and rows do not meet, damaged or not; without it an insert
  into a damaged page could leave the page and `TypeOK` be lost.

`StringsFit`, the hypothesis of the theorems, says that strings are shorter than what
a byte counts to. The code does not see to it: a chunk inserts a longer string when
a client sends one, its length byte is the length modulo 256, and the row is
read back with the string cut and the next columns read from its inside. The
theorems say that this is the only such row.

`ScansFindRows` needs no more of the pages than `Inv`. The ids of the loop go page by
page, slot by slot (`PageByPage`), so the loop meets the end once, and before it every
other id once (`VisitedIs`, `ScanVisits`). On a fixed page a slot whose flag is set is
read as a row of the schema whatever its bytes are (`SlotRead`): phantoms, too, are
rows that can be sent, and a content is missing exactly if fewer than all slots but
the last are taken. What a client cuts out of the text of all rows is those rows
(`ContentSent`). On a flexible page each row takes a byte and its length another
(`FewRows`), so the scan always comes to an id without a row. The hypothesis
`PageSize > 3` is for that: on a page of three bytes one row could be all the scan
visits. The code's pages have 4096.

*Database.* The pool gives the proofs their shape: a step of one thread may write back
the frame of any other table, so what a step leaves of pages it does not mean to write
is stated once. `Touches(th, fs)` says that a step of `th` adds to no file but those of
`fs`; every other file has `OldCopies`, no copy that was not there, and keeps its page
in a frame or on the disk (`Keeps`). One lemma (`LoadsTouches`, `OpeningTouches`,
`ClosingTouches`, `HangingTouches`) shows it for each kind of step, and from then on other tables are one lemma, `OtherFits`.

* `TInv`: types, and what each label of the code goes with (`OpFits`). That a handle
  finds one frame at most (`Keyed`) needs that a frame becomes nobody's when its
  handle is closed, and that a handle with a size of 0 has no frame.
* `Meets`, from which `TablesHaveSchemes` follows: who works on a table with whom. A create
  or a drop that met nobody is alone (`Alone`), one that met somebody left its mark
  (`NotAlone`), and whoever meets otherwise does so on a table with a page
  (`Meeting`). So the two removals of a drop that is alone, and the two files of a create,
  are not disturbed.
* `DInv` adds what a table that was not made twice and not torn has: `TableFits`, every
  copy of its pages has what it was given (`SchemePages`, `DataPages`), and its scheme has
  a page once the table is made. For this a create must not lose its own columns on
  the way: up to its last column the scheme's page has exactly the columns appended
  so far in the one frame, or on the disk (`Saved`), since nobody else opens the
  scheme. A reader's columns are the first of the table's (`ReaderFits`), whatever copy it
  read; and a handle that knows of no page, in a table nobody else writes to, is
  one of a file without one, which is why `HangsExplained` holds and why an insert
  that allocates the page zeroes no rows but those that requests met at.

*Cluster* (`CInv`): `PlacesFit` ties the lists clients were told to the placement
in force; `CreatesFit` says that each acknowledgement of a creation (a client, a
request and a position of its list) has its table on its chunk, and no two
acknowledgements have the same; `RowsFit` counts: a request's row is on a chunk as
often as the chunk is among the part of the list that has answered, as long as the
client may still hear of it, and never more often than in all of the list.
`CreatedStays`, `OneCreator` and `RowsAddedOnce` are read off these.

Three attempts failed for a good reason. `RecoverableAtAnyPoint` was to be a theorem
without a hypothesis; the torn row count stood in its way. `PinOutlivesATurn` used to say that a pin
outlives `(FrameCount - 1) / (n - 1)` misses before the one that steals it, which is
true of the run's three frames; with four frames and three users the bits cleared on
the way by the stealing miss itself count, and the property now counts that miss.
`RowsOncePerPart` used to say that a chunk
does not add a row twice as soon as somebody's `create_table` went through. That is
not so if that client was told of no part: a table of size 0 is placed on nothing,
its creation succeeds on nothing, a master that is started again does not recover
its empty value, and the name may be placed anew, on two parts of one chunk. The
property now asks for a creation on at least one part.

Recursive functions are reasoned about with `Iteration`: `SetInduction` and
`BoundedInduction` do induction over a *set* of numbers, so that no lemma takes an
operator for an argument. Sums over finite sets, which the community modules define
by a recursive function, are there too (`SumRemove`, `SumInsert`, `SumBelow`,
`SumChange`): that the function exists is `SumsExist`, by iteration. `Flattened` does
the same for `FlattenSeq`.

### Only model-checked

* Liveness (`Balancer`, `Cluster`): the prover has no rule for fairness.
* `RunsDry`: it is about pools with at least as many frames as descriptors.
* `Interpreter`: statements and expressions are read by recursive operators, about
  which the prover can show nothing.

## 5. Not modelled

* Data races inside the pool when several HTTP threads of a chunk use it: a call is
  one step here. What becomes of the frame in which a scan hangs when the hand comes
  back to it. A chunk that runs out of descriptors is in `Database` and not in `Cluster`.
* Errors of `pread`, `pwrite`, `fallocate`.
* Of the catalog: its indexes (nothing in the repository creates one), a schema
  passed to `getTable`, columns of vectors (which `saveTableSchema` leaves out),
  schemes longer than a page, a table whose name is another one's with `scheme`
  behind.
* Of the tree: scans with conditions, and an iterator kept across updates, which may
  end early or return a key twice.
* Of the interpreter: NULLs, which no statement can write, overflow of `int64`, an
  INSERT with fewer values than columns (it reads past the end of a vector), a
  varchar longer than its column (likewise), a table that is created again while it
  is there (`Database` has this). `executor.cpp`, `expression.cpp` and
  `aggregate_function.cpp` are stubs that no statement reaches.
* Of the chunk: `chunk_info`, which returns a constant, and the printing of the first
  four columns of a schema that may have fewer. Of the master: its configuration.
* The generated lexer and parser; the grammar counts as far as it decides what a
  statement means.
* The vector search (`lib/vectors`): its directory is commented out of the build,
  several functions have no return statement, a metric is used before it is set, and
  what remains is arithmetic on floating-point vectors without steps or shared state.
* Large parts of `src/` are no code of the system: two copies of `catch.hpp`, build
  directories of CMake, generated parsers.

## 6. Plan

1. *Done*: `BufferPool` and its proofs, `KVStorage`, `Balancer`/`Master`,
   `BTree`/`Index`, `Marshal`/`Wire`/`Table`, `Database`, `Cluster`, `Interpreter`.
2. *Done*: proofs about the pool under both disciplines, `Balancer` and its
   refinement, `BTree`, its refinement and its scans, `Table`, `Database`, `Cluster`, `KVStorage`.
3. Iterators of the tree kept across updates; a pool whose calls are not one step,
   for the threads of a chunk.
