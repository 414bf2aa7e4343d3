------------------------------ MODULE Cluster -------------------------------
(***************************************************************************)
(* Clients, the master and the chunks together: client/client_getter.cpp,  *)
(* client/main.cpp, chunk/main.cpp, chunk/chunk_manager.cpp and, as the    *)
(* abstract steps of module Master, master/balancer.cpp.                   *)
(*                                                                         *)
(* An operation of the client is a sequence of HTTP requests, to the       *)
(* master for the parts of its table and to the chunks of these parts, one *)
(* after the other; whatever goes wrong with one of them is an exception   *)
(* that nobody catches and ends the client.  A chunk performs a request in *)
(* one step (module Database has what happens in between); its rows stay   *)
(* in its buffer pool, which a process that ends loses: an orderly stop    *)
(* waits for the heartbeat thread for ever.                                *)
(***************************************************************************)
EXTENDS Master

CONSTANTS
    Clients,
    Programs,       \* client -> [table, size, operations]: what may run
    MaxFaults       \* bound: kills of processes and answers after the timeout

Operations == {"AddTableOnMaster", "RemoveTableOnMaster", "CreateTable",
               "GetTableContent", "InsertRowOnTable"}

ASSUME ProgramsAssumption ==
    Programs \subseteq
        [Clients -> [table : Tables, size : Sizes,
                     operations : Seq(Operations) \ {<<>>}]]
ASSUME BoundsAssumption == MaxFaults \in Nat
ASSUME NoTableAssumption == NoTable \notin Seq([chunk : Chunks, bytes : Nat])

VARIABLES
    up,             \* the master runs
    alive,          \* the chunks that run
    files,          \* chunk -> table -> "none", "scheme" or "both" files
    paged,          \* chunk -> table -> its file has a page
    script,         \* client -> the requests of its operations
    table, size,    \* client -> its table, and the size it asks for
    pc,             \* client -> the request of the script it is at
    todo,           \* client -> chunks that request still goes to
    status,         \* client -> "asks", "late", "hung", "ended" or "died"
    used,           \* history: client -> the chunks each request went to
    replaced,       \* history: tables placed more than once
    added,          \* history: chunk -> the add_row requests it performed
    faults

chunk == <<alive, files, paged, added>>
program == <<script, table, size>>
client == <<pc, todo, status, used>>
vars == <<master, up, chunk, program, client, replaced, faults>>

-----------------------------------------------------------------------------
(* The client                                                              *)

\* The requests of an operation; those to chunks go to each part of a table.
Requests(operation) ==
    CASE operation = "AddTableOnMaster" -> <<"insert_table">>
      [] operation = "RemoveTableOnMaster" -> <<"remove_table">>
      [] operation = "CreateTable" -> <<"chunks_by_query", "create_table">>
      [] operation = "GetTableContent" -> <<"chunks_by_query", "table_content">>
      [] operation = "InsertRowOnTable" ->
            <<"chunks_by_query", "schema", "chunks_by_query", "add_row">>
Script(operations) ==
    FlattenSeq([i \in DOMAIN operations |-> Requests(operations[i])])

ToMaster == {"insert_table", "remove_table", "chunks_by_query"}
Request(cl) == script[cl][pc[cl]]
InFlight(cl) == status[cl] \in {"asks", "late"}
At(cl, c) == Request(cl) \notin ToMaster /\ Head(todo[cl]) = c
Reached(cl) == IF Request(cl) \in ToMaster THEN up ELSE Head(todo[cl]) \in alive
Asked(cl, type) == InFlight(cl) /\ Request(cl) = type /\ Reached(cl)

Init ==
    /\ MasterInit
    /\ up = TRUE
    /\ alive = Chunks
    /\ files = [c \in Chunks |-> [t \in Tables |-> "none"]]
    /\ paged = [c \in Chunks |-> {}]
    /\ \E p \in Programs :
        /\ script = [cl \in Clients |-> Script(p[cl].operations)]
        /\ table = [cl \in Clients |-> p[cl].table]
        /\ size = [cl \in Clients |-> p[cl].size]
    /\ pc = [cl \in Clients |-> 1]
    /\ todo = [cl \in Clients |-> <<>>]
    /\ status = [cl \in Clients |-> "asks"]
    /\ used = [cl \in Clients |-> [i \in DOMAIN script[cl] |-> <<>>]]
    /\ replaced = {}
    /\ added = [c \in Chunks |-> <<>>]
    /\ faults = 0

\* The connection is refused, or was made to a process that ended since.
Refused(cl) ==
    /\ status[cl] = "asks"
    /\ ~Reached(cl)
    /\ status' = [status EXCEPT ![cl] = "died"]
    /\ UNCHANGED <<master, up, chunk, program, pc, todo, used, replaced,
                   faults>>

\* After 60 seconds without an answer, which may have been under way.
TimesOut(cl) ==
    /\ status[cl] = "asks"
    /\ Reached(cl)
    /\ faults < MaxFaults
    /\ faults' = faults + 1
    /\ status' = [status EXCEPT ![cl] = "late"]
    /\ UNCHANGED <<master, up, chunk, program, pc, todo, used, replaced>>

\* Mutant: requests to the master have no timeout.
GivesUpOnChunks(cl) ==
    /\ status[cl] = "hung"
    /\ status' = [status EXCEPT ![cl] = "died"]
    /\ UNCHANGED <<master, up, chunk, program, pc, todo, used, replaced,
                   faults>>

\* The same when there will never be an answer.
GivesUp(cl) ==
    /\ \/ status[cl] = "hung"
       \/ status[cl] = "asks" /\ Request(cl) \in ToMaster /\ frozen
    /\ status' = [status EXCEPT ![cl] = "died"]
    /\ UNCHANGED <<master, up, chunk, program, pc, todo, used, replaced,
                   faults>>

\* No answer, or one that cannot be parsed.
Closed(cl) ==
    /\ status' = [status EXCEPT ![cl] = "died"]
    /\ UNCHANGED <<pc, todo, used>>

\* The client is at request next and will send it to the chunks in list; a
\* table without parts has no schema: an assertion fails.
Goes(cl, next, list) ==
    /\ pc' = [pc EXCEPT ![cl] = next]
    /\ todo' = [todo EXCEPT ![cl] = list]
    /\ status' = [status EXCEPT ![cl] =
                    IF next > Len(script[cl]) THEN "ended" ELSE "asks"]

\* Mutant: the assertion of GetTableSchema is left out.
MasterAnswersAny(cl, list) ==
    IF status[cl] = "late" THEN Closed(cl)
    ELSE Goes(cl, pc[cl] + 1, list) /\ UNCHANGED used

MasterAnswers(cl, list) ==
    IF status[cl] = "late" THEN Closed(cl)
    ELSE IF Request(cl) # "chunks_by_query"
    THEN Goes(cl, pc[cl] + 1, <<>>) /\ UNCHANGED used
    ELSE /\ used' = [used EXCEPT ![cl][pc[cl] + 1] = list]
         /\ IF list # <<>> THEN Goes(cl, pc[cl] + 1, list)
            ELSE IF script[cl][pc[cl] + 1] # "schema"
            THEN Goes(cl, pc[cl] + 2, <<>>)
            ELSE /\ status' = [status EXCEPT ![cl] = "died"]
                 /\ UNCHANGED <<pc, todo>>

\* Mutant: the loop over the parts returns after the first answer.
ChunkAnswersOnce(cl) ==
    IF status[cl] = "late" THEN Closed(cl)
    ELSE Goes(cl, pc[cl] + 1, <<>>) /\ UNCHANGED used

\* The schema is asked of the first part only.
ChunkAnswers(cl) ==
    IF status[cl] = "late" THEN Closed(cl)
    ELSE /\ IF Request(cl) = "schema" \/ Len(todo[cl]) = 1
            THEN Goes(cl, pc[cl] + 1, <<>>)
            ELSE Goes(cl, pc[cl], Tail(todo[cl]))
         /\ UNCHANGED used

-----------------------------------------------------------------------------
(* The master                                                              *)

InsertTableOnMaster(cl) ==
    LET t == table[cl] IN
    /\ Asked(cl, "insert_table")
    /\ InsertTable(t, size[cl])
    /\ IF Enough(size[cl]) THEN MasterAnswers(cl, <<>>) ELSE Closed(cl)
    /\ replaced' = IF Enough(size[cl]) /\ partitions[t] # NoTable
                   THEN replaced \cup {t} ELSE replaced
    /\ UNCHANGED <<up, chunk, program, faults>>

GetPartition(cl) ==
    LET parts == partitions[table[cl]] IN
    /\ Asked(cl, "chunks_by_query")
    /\ ~frozen
    /\ IF parts = NoTable THEN Closed(cl)
       ELSE MasterAnswers(cl, [i \in DOMAIN parts |-> parts[i].chunk])
    /\ UNCHANGED <<master, up, chunk, program, replaced, faults>>

RemoveTableOnMaster(cl) ==
    /\ Asked(cl, "remove_table")
    /\ EraseTable
    /\ status' = [status EXCEPT ![cl] = IF @ = "late" THEN "died" ELSE "hung"]
    /\ UNCHANGED <<up, chunk, program, pc, todo, used, replaced, faults>>

-----------------------------------------------------------------------------
(* Ends of processes                                                       *)

\* Of a process that ends nobody gets an answer: the clients in S see it, the
\* others when they come to ask; what was under way for others is lost.
Waiting == {cl \in Clients : status[cl] \in {"late", "hung"}}
Forget(S) == status' = [cl \in Clients |-> IF cl \in S THEN "died" ELSE status[cl]]
EndChunk(c, S) ==
    /\ c \in alive
    /\ alive' = alive \ {c}
    /\ Forget(S \cup {cl \in Waiting : At(cl, c)})
    /\ UNCHANGED <<paged, added, program, pc, todo, used>>

\* What a create that is cut leaves of its two files.
CutCreate(c, t) ==
    IF \E cl \in Clients :
         Asked(cl, "create_table") /\ At(cl, c) /\ table[cl] = t
    THEN CASE files[c][t] = "none" -> {"none", "scheme", "both"}
           [] files[c][t] = "scheme" -> {"scheme", "both"}
           [] OTHER -> {"both"}
    ELSE {files[c][t]}

\* A kill, or a stop that ends in one.
KillChunk(c) ==
    /\ faults < MaxFaults
    /\ faults' = faults + 1
    /\ \E left \in [Tables -> {"none", "scheme", "both"}] :
        /\ \A t \in Tables : left[t] \in CutCreate(c, t)
        /\ files' = [files EXCEPT ![c] = left]
    /\ EndChunk(c, {})
    /\ UNCHANGED <<master, up, replaced>>

StartChunk(c) ==
    /\ c \notin alive
    /\ alive' = alive \cup {c}
    /\ UNCHANGED <<master, up, files, paged, added, program, client, replaced,
                   faults>>

\* The store of the master recovers its pairs only if none was replaced.
KillMaster ==
    /\ up
    /\ replaced = {}
    /\ faults < MaxFaults
    /\ faults' = faults + 1
    /\ up' = FALSE
    /\ Forget({cl \in Waiting : Request(cl) \in ToMaster})
    /\ UNCHANGED <<master, chunk, program, pc, todo, used, replaced>>

StartMaster ==
    /\ ~up
    /\ up' = TRUE
    /\ Restart
    /\ UNCHANGED <<chunk, program, client, replaced, faults>>

-----------------------------------------------------------------------------
(* The heartbeat thread of a chunk                                         *)

OnUpdate(c) ==
    /\ c \in alive
    /\ up
    /\ Report(c)
    /\ UNCHANGED <<up, chunk, program, client, replaced, faults>>

\* Mutant: the exception is caught.
HeartbeatFailsCaught(c) ==
    /\ c \in alive
    /\ ~up \/ frozen
    /\ UNCHANGED vars

\* A connection that is refused or closed, or an answer that does not come in
\* 60 seconds, is an exception that leaves the function of the thread: the
\* chunk ends.
HeartbeatFails(c) ==
    /\ ~up \/ frozen
    /\ EndChunk(c, {})
    /\ UNCHANGED <<master, up, files, replaced, faults>>

-----------------------------------------------------------------------------
(* The requests of a chunk                                                 *)

\* No file changes, and the request is answered, closed, or runs for ever.
Answers(cl, c, outcomes) ==
    /\ \/ "answered" \in outcomes /\ ChunkAnswers(cl)
       \/ "closed" \in outcomes /\ Closed(cl)
       \/ /\ "hung" \in outcomes
          /\ status' = [status EXCEPT ![cl] =
                          IF @ = "late" THEN "died" ELSE "hung"]
          /\ UNCHANGED <<pc, todo, used>>
    /\ UNCHANGED <<master, up, chunk, program, replaced, faults>>

\* A lookup of a table without scheme, or of a returned string that is none.
Crashes(cl, c) ==
    /\ EndChunk(c, {cl})
    /\ UNCHANGED <<master, up, files, replaced, faults>>

\* Mutant: the file is opened whether it is there or not.
CreateTableOrOpen(cl, c) ==
    /\ Asked(cl, "create_table")
    /\ files' = [files EXCEPT ![c][table[cl]] = "both"]
    /\ ChunkAnswers(cl)
    /\ UNCHANGED <<master, up, alive, paged, added, program, replaced, faults>>

CreateTable(cl, c) ==
    LET t == table[cl] IN
    /\ Asked(cl, "create_table")
    /\ files' = [files EXCEPT ![c][t] = "both"]
    /\ IF files[c][t] = "both" THEN Closed(cl) ELSE ChunkAnswers(cl)
    /\ UNCHANGED <<master, up, alive, paged, added, program, replaced, faults>>

\* The function has no return statement: what it returns may crash the chunk,
\* be no schema, or be the empty one.  A scheme that was cut may have no page.
GetSerializedSchema(cl, c) ==
    LET f == files[c][table[cl]] IN
    /\ Asked(cl, "schema")
    /\ \/ Crashes(cl, c)
       \/ /\ f # "none"
          /\ Answers(cl, c, {"answered", "closed"}
                              \cup (IF f = "scheme" THEN {"hung"} ELSE {}))

AddSerializedRow(cl, c) ==
    LET t == table[cl] IN
    /\ Asked(cl, "add_row")
    /\ \/ files[c][t] = "none" /\ Crashes(cl, c)
       \/ files[c][t] = "scheme" /\ Answers(cl, c, {"closed", "hung"})
       \/ /\ files[c][t] = "both"
          /\ added' = [added EXCEPT ![c] = Append(@, <<cl, pc[cl]>>)]
          /\ paged' = [paged EXCEPT ![c] = @ \cup {t}]
          /\ ChunkAnswers(cl)
          /\ UNCHANGED <<master, up, alive, files, program, replaced, faults>>

\* The rows are sent if every slot but the last of the table has one, and
\* otherwise the chunk ends (ContentCrashes of module Table).
GetContent(cl, c) ==
    LET t == table[cl] IN
    /\ Asked(cl, "table_content")
    /\ \/ files[c][t] = "none" /\ Crashes(cl, c)
       \/ files[c][t] = "scheme" /\ Answers(cl, c, {"closed", "hung"})
       \/ /\ files[c][t] = "both"
          /\ IF t \in paged[c] THEN Crashes(cl, c) \/ Answers(cl, c, {"answered"})
             ELSE Answers(cl, c, {"hung"})

Serve(cl, c) ==
    /\ InFlight(cl) /\ At(cl, c)
    /\ \/ CreateTable(cl, c)
       \/ GetSerializedSchema(cl, c)
       \/ AddSerializedRow(cl, c)
       \/ GetContent(cl, c)

ServeMaster(cl) ==
    \/ InsertTableOnMaster(cl)
    \/ GetPartition(cl)
    \/ RemoveTableOnMaster(cl)

ClientGoesOn(cl) ==
    \/ Refused(cl)
    \/ GivesUp(cl)
    \/ ServeMaster(cl)
    \/ \E c \in Chunks : Serve(cl, c)

HeartbeatEnds(c) == OnUpdate(c) \/ HeartbeatFails(c)

Next ==
    \/ \E cl \in Clients : ClientGoesOn(cl) \/ TimesOut(cl)
    \/ \E c \in Chunks : HeartbeatEnds(c) \/ KillChunk(c) \/ StartChunk(c)
    \/ KillMaster
    \/ StartMaster

Spec == Init /\ [][Next]_vars

\* Processes that run go on; a request in flight is performed, or its client
\* and the heartbeat thread get their exception after 60 seconds.  Nobody has
\* to restart anything.
FairSpec ==
    /\ Spec
    /\ WF_vars(\E cl \in Clients : ClientGoesOn(cl))
    /\ \A c \in Chunks : WF_vars(HeartbeatEnds(c))
-----------------------------------------------------------------------------
(* Properties                                                              *)

\* Type invariant; an open request to a chunk names the chunk.
TypeOK ==
    /\ chunk2Free \in [Chunks -> Nat]
    /\ freePositions \subseteq Nat \X Chunks
    /\ partitions \in
         [Tables -> Seq([chunk : Chunks, bytes : Nat]) \cup {NoTable}]
    /\ {up, frozen} \subseteq BOOLEAN
    /\ alive \subseteq Chunks
    /\ files \in [Chunks -> [Tables -> {"none", "scheme", "both"}]]
    /\ paged \in [Chunks -> SUBSET Tables]
    /\ added \in [Chunks -> Seq(Clients \X Nat)]
    /\ todo \in [Clients -> Seq(Chunks)]
    /\ status \in [Clients -> {"asks", "late", "hung", "ended", "died"}]
    /\ \A cl \in Clients :
        /\ pc[cl] \in
              1 .. Len(script[cl]) + (IF status[cl] = "ended" THEN 1 ELSE 0)
        /\ status[cl] \in {"asks", "late", "hung"}
              /\ Request(cl) \notin ToMaster => todo[cl] # <<>>
    /\ replaced \subseteq Tables
    /\ faults \in 0 .. MaxFaults

\* The request number i of a client was acknowledged by all it was sent to.
Acknowledged(cl, i, type) ==
    i \in DOMAIN script[cl] /\ script[cl][i] = type /\ i < pc[cl]

Times(s, e) == Cardinality({k \in DOMAIN s : s[k] = e})
Steps == UNION {DOMAIN script[cl] : cl \in Clients}

\* A client that got past CreateTable has made the table on every part it was
\* told of, and whatever dies, is placed anew or is asked late, it stays there.
CreatedOnEveryPart ==
    \A cl \in Clients, i \in Steps :
        Acknowledged(cl, i, "create_table") =>
            \A c \in ToSet(used[cl][i]) : files[c][table[cl]] = "both"

\* Two clients that were both told that they made the same table (all clients
\* draw the same name) made it on different chunks, and nobody gets past the
\* creation of a table two parts of which are on one chunk.
OneCreatorPerTable ==
    \A cl, other \in Clients, i, j \in Steps :
        /\ Acknowledged(cl, i, "create_table")
        /\ Acknowledged(other, j, "create_table")
        /\ table[cl] = table[other]
        => IF <<cl, i>> = <<other, j>> THEN IsInjective(used[cl][i])
           ELSE ToSet(used[cl][i]) \cap ToSet(used[other][j]) = {}

\* An acknowledged row was added once for every part its client was told of;
\* a chunk adds a row twice only if its table was placed anew or nobody got
\* past its creation on a part: a client that was told of no part made nothing,
\* and a master that is started again forgets that it placed such a table.
RowsOncePerPart ==
    \A cl \in Clients, i \in Steps, c \in Chunks :
        LET n == Times(added[c], <<cl, i>>) IN
        /\ n <= Times(IF i \in DOMAIN used[cl] THEN used[cl][i] ELSE <<>>, c)
        /\ Acknowledged(cl, i, "add_row") => n = Times(used[cl][i], c)
        /\ (/\ table[cl] \notin replaced
            /\ \E other \in Clients, j \in Steps :
                  /\ table[other] = table[cl]
                  /\ Acknowledged(other, j, "create_table")
                  /\ used[other][j] # <<>>)
              => n <= 1

\* Every client ends: no server that died, hangs or is frozen, and no part
\* that is missing, keeps it waiting for ever.
EveryClientEnds == <>(\A cl \in Clients : status[cl] \notin {"asks", "hung"})

\* The first remove_table ends the cluster: no chunk that runs then survives
\* its next heartbeat, unless the master is started again.
FreezeEndsChunks ==
    \A c \in Chunks : frozen /\ c \in alive ~> c \notin alive \/ ~frozen
=============================================================================
