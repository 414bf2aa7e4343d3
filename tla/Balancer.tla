------------------------------ MODULE Balancer ------------------------------
(***************************************************************************)
(* The master's balancer (master/balancer.cpp) under the threads of its    *)
(* HTTP server (master/main.cpp).                                          *)
(*                                                                         *)
(* Chunks report their free bytes every few seconds; a client asks for a   *)
(* table of some size and the balancer splits it over the chunks with the  *)
(* most room.  The free list and chunk2Free_ live in memory, the           *)
(* partitions of the tables in the persistent store: here a map that       *)
(* survives a kill, which module KVStorage shows of it while tables are    *)
(* only added.                                                             *)
(*                                                                         *)
(* Every request runs on a thread of the server and holds the one mutex of *)
(* the balancer while it works.                                            *)
(***************************************************************************)
EXTENDS Integers, Sequences, FiniteSets, SequencesExt

CONSTANTS
    Chunks,         \* numbers: the order of their host and port
    Tables, Threads,
    Capacity,       \* the free bytes a chunk reports: configured, constant
    Sizes,          \* table sizes clients ask for
    MaxInserts,     \* bound: insert_table requests
    MaxReports,     \* bound: reports counted per chunk
    MaxKills,       \* bound: a second kill may find the store torn
    Removes,        \* whether clients send remove_table
    NoTable, Nobody

ASSUME ChunksAssumption == Chunks \subseteq Nat
ASSUME CapacityAssumption == Capacity \in [Chunks -> Nat]
ASSUME SizesAssumption == Sizes \subseteq Nat
ASSUME BoundsAssumption == {MaxInserts, MaxReports} \subseteq Nat
ASSUME KillsAssumption == MaxKills \in 0 .. 1
ASSUME SwitchAssumption == Removes \in BOOLEAN
ASSUME ThreadsAssumption == IsFiniteSet(Threads)
ASSUME NobodyAssumption == Nobody \notin Threads

VARIABLES
    chunk2Free,     \* chunk -> the free bytes it last reported
    freePositions,  \* {<<free bytes, chunk>>}
    partitions,     \* table -> sequence of [chunk, bytes], or NoTable
    mutex,          \* the thread that holds it, or Nobody
    pc, request,    \* what each thread is doing, and for which request
    left, chunks,   \* the locals table_size and chunks of InsertTable
    before,         \* history: the free list InsertTable began with
    asked,          \* history: the size a stored table was asked for with
    reports,        \* history: how often OnUpdate ran for a chunk
    replaced,       \* history: a stored table was placed again
    inserts, kills

balancer == <<chunk2Free, freePositions, partitions>>
history == <<asked, reports, replaced>>
vars == <<balancer, mutex, pc, request, left, chunks, before, history,
          inserts, kills>>

-----------------------------------------------------------------------------
Heartbeat(c) == [type |-> "hearbeat", chunk |-> c]
Query(t) == [type |-> "chunks_by_query", table |-> t]
InsertTable(t, n) == [type |-> "insert_table", table |-> t, size |-> n]
RemoveTable(t) == [type |-> "remove_table", table |-> t]
NoRequest == [type |-> "none"]

Part == [chunk : Chunks, bytes : Nat]
Entry == Nat \X Chunks

Init ==
    /\ chunk2Free = [c \in Chunks |-> 0]
    /\ freePositions = {}
    /\ partitions = [t \in Tables |-> NoTable]
    /\ mutex = Nobody
    /\ pc = [th \in Threads |-> "idle"]
    /\ request = [th \in Threads |-> NoRequest]
    /\ left = [th \in Threads |-> 0]
    /\ chunks = [th \in Threads |-> <<>>]
    /\ before = {}
    /\ asked = [t \in Tables |-> 0]
    /\ reports = [c \in Chunks |-> 0]
    /\ replaced = FALSE
    /\ inserts = 0
    /\ kills = 0

\* The server hands a request to a free thread.
Receive(th, req) ==
    /\ pc[th] = "idle"
    /\ pc' = [pc EXCEPT ![th] = "lock"]
    /\ request' = [request EXCEPT ![th] = req]
    /\ UNCHANGED <<balancer, mutex, left, chunks, before, history, kills>>

\* A chunk waits for the answer to a heartbeat before it sends the next one.
ReceiveHeartbeat(th, c) ==
    /\ \A other \in Threads : request[other] # Heartbeat(c)
    /\ Receive(th, Heartbeat(c))
    /\ UNCHANGED inserts
ReceiveQuery(th, t) == Receive(th, Query(t)) /\ UNCHANGED inserts
\* The name may be taken: the client never seeds the generator it draws names
\* from, so every run of it asks for the same table.
ReceiveInsert(th, t, n) ==
    /\ inserts < MaxInserts
    /\ inserts' = inserts + 1
    /\ Receive(th, InsertTable(t, n))
ReceiveRemove(th, t) ==
    /\ Removes
    /\ Receive(th, RemoveTable(t))
    /\ UNCHANGED inserts

\* Mutant: no lock_guard.
LockFree(th) ==
    /\ pc[th] = "lock"
    /\ mutex' = th
    /\ pc' = [pc EXCEPT ![th] = "work"]
    /\ left' = [left EXCEPT ![th] = IF request[th].type = "insert_table"
                                    THEN request[th].size ELSE 0]
    /\ before' = freePositions
    /\ UNCHANGED <<balancer, request, chunks, history, inserts, kills>>

\* The lock_guard that every operation starts with.
Lock(th) ==
    /\ pc[th] = "lock"
    /\ mutex = Nobody
    /\ mutex' = th
    /\ pc' = [pc EXCEPT ![th] = "work"]
    /\ left' = [left EXCEPT ![th] = IF request[th].type = "insert_table"
                                    THEN request[th].size ELSE 0]
    /\ before' = freePositions
    /\ UNCHANGED <<balancer, request, chunks, history, inserts, kills>>

Works(th, type) == pc[th] = "work" /\ request[th].type = type

\* The operation returns or throws; the guard unlocks; the request is over.
Done(th) ==
    /\ mutex' = Nobody
    /\ pc' = [pc EXCEPT ![th] = "idle"]
    /\ request' = [request EXCEPT ![th] = NoRequest]
    /\ left' = [left EXCEPT ![th] = 0]
    /\ chunks' = [chunks EXCEPT ![th] = <<>>]
    /\ before' = {}
    /\ UNCHANGED <<inserts, kills>>

\* Mutant: a report that repeats the last one is skipped.
OnUpdateOfNews(th) ==
    LET c == request[th].chunk IN
    /\ Works(th, "hearbeat")
    /\ freePositions' = IF chunk2Free[c] = Capacity[c] THEN freePositions
                        ELSE (freePositions \ {<<chunk2Free[c], c>>})
                               \cup {<<Capacity[c], c>>}
    /\ chunk2Free' = [chunk2Free EXCEPT ![c] = Capacity[c]]
    /\ UNCHANGED <<partitions, history>>
    /\ Done(th)

\* Only the entry the chunk had reported before is replaced: an entry that
\* InsertTable made smaller stays.
OnUpdate(th) ==
    LET c == request[th].chunk IN
    /\ Works(th, "hearbeat")
    /\ freePositions' = (freePositions \ {<<chunk2Free[c], c>>})
                          \cup {<<Capacity[c], c>>}
    /\ chunk2Free' = [chunk2Free EXCEPT ![c] = Capacity[c]]
    /\ reports' = [reports EXCEPT ![c] = IF @ < MaxReports THEN @ + 1 ELSE @]
    /\ UNCHANGED <<partitions, asked, replaced>>
    /\ Done(th)

\* Of a table that is not there, at() throws.
GetPartition(th) ==
    /\ Works(th, "chunks_by_query")
    /\ UNCHANGED <<balancer, history>>
    /\ Done(th)

\* The part of the table that goes to a chunk.
Give(th, entry, bytes) ==
    /\ left' = [left EXCEPT ![th] = @ - bytes]
    /\ chunks' = [chunks EXCEPT ![th] =
                    Append(@, [chunk |-> entry[2], bytes |-> bytes])]

\* Mutants: an entry is used up by a table that is smaller; an entry that was
\* used up stays with no bytes.
UseUpAlways(th, last) ==
    /\ freePositions' = freePositions \ {last}
    /\ Give(th, last, last[1])
UseUpToZero(th, last) ==
    /\ left[th] >= last[1]
    /\ freePositions' = (freePositions \ {last}) \cup {<<0, last[2]>>}
    /\ IF last[1] > 0 THEN Give(th, last, last[1]) ELSE UNCHANGED <<left, chunks>>

UseUp(th, last) ==
    /\ left[th] >= last[1]
    /\ freePositions' = freePositions \ {last}
    /\ Give(th, last, last[1])

\* Mutants: the part is recorded after table_size was set to 0; the old entry
\* is not erased.
ShrinkThenRecord(th, last) ==
    /\ left[th] < last[1]
    /\ freePositions' = (freePositions \ {last})
                          \cup {<<last[1] - left[th], last[2]>>}
    /\ left' = [left EXCEPT ![th] = 0]
    /\ chunks' = [chunks EXCEPT ![th] =
                    Append(@, [chunk |-> last[2], bytes |-> 0])]
ShrinkACopy(th, last) ==
    /\ left[th] < last[1]
    /\ freePositions' = freePositions \cup {<<last[1] - left[th], last[2]>>}
    /\ Give(th, last, left[th])

Shrink(th, last) ==
    /\ left[th] < last[1]
    /\ freePositions' = (freePositions \ {last})
                          \cup {<<last[1] - left[th], last[2]>>}
    /\ Give(th, last, left[th])

\* One round of the loop of InsertTable, with the last of the ordered free
\* list.
PlacePart(th) ==
    /\ Works(th, "insert_table")
    /\ left[th] > 0
    /\ \E last \in freePositions :
        /\ \A e \in freePositions :
              e[1] < last[1] \/ (e[1] = last[1] /\ e[2] <= last[2])
        /\ UseUp(th, last) \/ Shrink(th, last)
    /\ UNCHANGED <<chunk2Free, partitions, mutex, pc, request, before, history,
                   inserts, kills>>

\* "Not enough chunks": what the rounds before took stays taken.
InsertFails(th) ==
    /\ Works(th, "insert_table")
    /\ left[th] > 0
    /\ freePositions = {}
    /\ UNCHANGED <<balancer, history>>
    /\ Done(th)

StorePartition(th) ==
    LET t == request[th].table IN
    /\ Works(th, "insert_table")
    /\ left[th] = 0
    /\ partitions' = [partitions EXCEPT ![t] = chunks[th]]
    /\ asked' = [asked EXCEPT ![t] = request[th].size]
    /\ replaced' = (replaced \/ partitions[t] # NoTable)
    /\ UNCHANGED <<chunk2Free, freePositions, reports>>
    /\ Done(th)

\* EraseTable calls GetPartition, which locks the mutex its own thread holds:
\* the thread waits for itself, and nothing after the call is ever reached.
EraseTable(th) ==
    /\ Works(th, "remove_table")
    /\ pc' = [pc EXCEPT ![th] = "relock"]
    /\ UNCHANGED <<balancer, mutex, request, left, chunks, before, history,
                   inserts, kills>>

\* The master is killed and started again; a table stored with no parts has
\* an empty value, which the store does not recover.  Nor does it recover all
\* its pairs once one was replaced: no kill follows then.
KillAndRestart ==
    /\ kills < MaxKills
    /\ ~replaced
    /\ kills' = kills + 1
    /\ chunk2Free' = [c \in Chunks |-> 0]
    /\ freePositions' = {}
    /\ partitions' = [t \in Tables |->
                        IF partitions[t] = <<>> THEN NoTable ELSE partitions[t]]
    /\ mutex' = Nobody
    /\ pc' = [th \in Threads |-> "idle"]
    /\ request' = [th \in Threads |-> NoRequest]
    /\ left' = [th \in Threads |-> 0]
    /\ chunks' = [th \in Threads |-> <<>>]
    /\ before' = {}
    /\ UNCHANGED <<history, inserts>>

Work(th) ==
    \/ OnUpdate(th)
    \/ GetPartition(th)
    \/ PlacePart(th)
    \/ InsertFails(th)
    \/ StorePartition(th)
    \/ EraseTable(th)

Next ==
    \/ \E th \in Threads :
        \/ \E c \in Chunks : ReceiveHeartbeat(th, c)
        \/ \E t \in Tables : ReceiveQuery(th, t) \/ ReceiveRemove(th, t)
        \/ \E t \in Tables, n \in Sizes : ReceiveInsert(th, t, n)
        \/ Lock(th)
        \/ Work(th)
    \/ KillAndRestart

Spec == Init /\ [][Next]_vars

\* The threads of the server run, requests wait in its queue in order, and
\* every chunk goes on reporting, seconds apart, whereas the mutex is held for
\* microseconds: nobody finds it taken for ever.
Fairness ==
    /\ \A th \in Threads : WF_vars(Work(th)) /\ SF_vars(Lock(th))
    /\ \A c \in Chunks : SF_vars(\E th \in Threads : ReceiveHeartbeat(th, c))
FairSpec == Spec /\ Fairness
-----------------------------------------------------------------------------
(* Properties                                                              *)

Requests ==
    {NoRequest} \cup {Heartbeat(c) : c \in Chunks}
        \cup {Query(t) : t \in Tables} \cup {RemoveTable(t) : t \in Tables}
        \cup {InsertTable(t, n) : t \in Tables, n \in Sizes}

\* Type invariant: the ranges of the balancer's state; in particular no free
\* entry and no rest of a table size goes below zero.
TypeOK ==
    /\ chunk2Free \in [Chunks -> Nat]
    /\ freePositions \subseteq Entry
    /\ partitions \in [Tables -> Seq(Part) \cup {NoTable}]
    /\ mutex \in Threads \cup {Nobody}
    /\ pc \in [Threads -> {"idle", "lock", "work", "relock"}]
    /\ request \in [Threads -> Requests]
    /\ left \in [Threads -> Nat]
    /\ chunks \in [Threads -> Seq(Part)]
    /\ asked \in [Tables -> Nat]
    /\ before \subseteq Entry
    /\ reports \in [Chunks -> 0 .. MaxReports]
    /\ replaced \in BOOLEAN
    /\ inserts \in 0 .. MaxInserts
    /\ kills \in 0 .. MaxKills

\* Bytes of the parts of p, all of them or those on chunk c.
BytesOf(p) == SumFunction([i \in DOMAIN p |-> p[i].bytes])
BytesOn(p, c) ==
    SumFunction([i \in DOMAIN p |-> IF p[i].chunk = c THEN p[i].bytes ELSE 0])
Stored == {t \in Tables : partitions[t] # NoTable}

\* The parts of a stored table add up to the size it was asked for: two
\* clients placing tables at once, heartbeats in between, chunks that report
\* nothing, and restarts neither lose nor add a byte.
PartitionCovers == \A t \in Stored : BytesOf(partitions[t]) = asked[t]

BytesStored(c) == SumFunction([t \in Stored |-> BytesOn(partitions[t], c)])
BytesBeingPlaced(c) == SumFunction([th \in Threads |-> BytesOn(chunks[th], c)])
BytesFree(c) ==
    SumFunction([e \in {x \in freePositions : x[2] = c} |-> e[1]])

\* What a chunk may be given: its capacity once per report, for a report puts
\* the whole capacity back whatever was placed there.  Stored parts, parts
\* being placed and free entries together stay within that, so a chunk that
\* reported once is never given more than it has.
PlacedWithinReports ==
    \A c \in Chunks :
        reports[c] < MaxReports =>
            BytesStored(c) + BytesBeingPlaced(c) + BytesFree(c)
            <= Capacity[c] * reports[c]

\* Some remove_table waits for the mutex its own thread holds.
Frozen == \E th \in Threads : pc[th] = "relock"

\* An insert_table that began to place parts and has not ended.
Placing == \E th \in Threads : Works(th, "insert_table")
Promise == INSTANCE Master WITH
    freePositions <- IF Placing THEN before ELSE freePositions,
    frozen <- Frozen

\* Every request works as if it were alone: an insert_table chooses all parts
\* of its table from the free list it found and stores them, or uses the list
\* up and fails, in one step as the others see it; a remove_table freezes the
\* master for good, and what it should do never happens.
ImplementsMaster == Promise!MasterSpec

\* Unless the master gets frozen every request is answered: the loop of
\* InsertTable ends, because each of its rounds uses up a free entry or the
\* table, and nobody else keeps the mutex.
EveryRequestAnswered ==
    \A th \in Threads : pc[th] = "lock" ~> pc[th] = "idle" \/ Frozen

\* A chunk whose last entry was used up is offered again, also by a restarted
\* master: its next report brings it back, unless the master is frozen.
UsedUpChunkReturns ==
    \A c \in Chunks :
        []<>((\E e \in freePositions : e[2] = c) \/ Frozen)
=============================================================================
