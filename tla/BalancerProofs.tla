---------------------------- MODULE BalancerProofs ----------------------------
(***************************************************************************)
(* What the balancer guarantees for every set of chunks, tables, threads   *)
(* and sizes: one operation at a time, no byte of a table lost or added,   *)
(* that it implements module Master, and that no chunk is given more than  *)
(* its reports had.                                                        *)
(***************************************************************************)
EXTENDS Balancer, Iteration, FiniteSetTheorems, TLAPS

USE ChunksAssumption, CapacityAssumption, SizesAssumption, BoundsAssumption,
    KillsAssumption, SwitchAssumption, ThreadsAssumption, NobodyAssumption

-----------------------------------------------------------------------------
(* The bytes of a list of parts                                            *)

\* A sum over a sequence of numbers grows by what is appended.
LEMMA SumAppended ==
    ASSUME NEW n \in Nat,
           NEW f, DOMAIN f = 1 .. n, \A i \in 1 .. n : f[i] \in Nat,
           NEW k, DOMAIN k = 1 .. n + 1, k[n + 1] \in Nat,
           \A i \in 1 .. n : k[i] = f[i]
    PROVE  /\ SumFunction(f) \in Nat
           /\ SumFunction(k) = SumFunction(f) + k[n + 1]
<1>1. IsFiniteSet(1 .. n)
    BY FS_Interval
<1>2. 1 .. n + 1 = (1 .. n) \cup {n + 1} /\ n + 1 \notin 1 .. n
    OBVIOUS
<1>3. /\ SumFunction(f) = Total(f, 1 .. n)
      /\ SumFunction(k) = Total(k, (1 .. n) \cup {n + 1})
    BY <1>2 DEF SumFunction, Total
<1>4. Total(k, (1 .. n) \cup {n + 1}) = k[n + 1] + Total(k, 1 .. n)
    BY <1>1, <1>2, SumInsert
<1>5. Total(k, 1 .. n) = Total(f, 1 .. n) /\ Total(f, 1 .. n) \in Nat
    BY <1>1, SumSame, SumOfFirst
<1> QED
    BY <1>3, <1>4, <1>5

LEMMA BytesOfNothing ==
    BytesOf(<<>>) = 0 /\ \A c \in Chunks : BytesOn(<<>>, c) = 0
<1>1. DOMAIN <<>> = {}
    OBVIOUS
<1>2. ASSUME NEW f, DOMAIN f = {} PROVE SumFunction(f) = 0
    BY <1>2, SumOfNone DEF SumFunction, Total
<1> QED
    BY <1>1, <1>2 DEF BytesOf, BytesOn

LEMMA BytesAreNumbers ==
    ASSUME NEW p \in Seq(Part)
    PROVE  BytesOf(p) \in Nat /\ \A c \in Chunks : BytesOn(p, c) \in Nat
<1>1. /\ DOMAIN p = 1 .. Len(p) /\ IsFiniteSet(1 .. Len(p))
      /\ \A i \in 1 .. Len(p) : p[i].bytes \in Nat
    <2>1. DOMAIN p = 1 .. Len(p) /\ Len(p) \in Nat
        OBVIOUS
    <2>2. \A i \in 1 .. Len(p) : p[i] \in Part
        OBVIOUS
    <2> QED
        BY <2>1, <2>2, FS_Interval DEF Part
<1>2. ASSUME NEW f, DOMAIN f = 1 .. Len(p), \A i \in 1 .. Len(p) : f[i] \in Nat
      PROVE  SumFunction(f) \in Nat
    BY <1>1, <1>2, SumOfFirst DEF SumFunction, Total
<1> QED
    BY <1>1, <1>2 DEF BytesOf, BytesOn

\* A part more is its bytes more, on its chunk.
LEMMA BytesOfAppend ==
    ASSUME NEW p \in Seq(Part), NEW part \in Part
    PROVE  /\ BytesOf(p) \in Nat
           /\ BytesOf(Append(p, part)) = BytesOf(p) + part.bytes
           /\ \A c \in Chunks :
                /\ BytesOn(p, c) \in Nat
                /\ BytesOn(Append(p, part), c) =
                     BytesOn(p, c) + IF part.chunk = c THEN part.bytes ELSE 0
<1> DEFINE q == Append(p, part)
           n == Len(p)
<1>1. /\ n \in Nat
      /\ DOMAIN p = 1 .. n /\ DOMAIN q = 1 .. n + 1
      /\ \A i \in 1 .. n : q[i] = p[i] /\ p[i].bytes \in Nat
      /\ q[n + 1] = part /\ part.bytes \in Nat
    <2>1. \A i \in 1 .. n : p[i] \in Part
        OBVIOUS
    <2> QED
        BY <2>1 DEF Part
<1> HIDE DEF q, n
<1>2. /\ BytesOf(p) \in Nat
      /\ BytesOf(q) = BytesOf(p) + part.bytes
    <2> DEFINE f == [i \in DOMAIN p |-> p[i].bytes]
               k == [i \in DOMAIN q |-> q[i].bytes]
    <2>1. /\ DOMAIN f = 1 .. n /\ \A i \in 1 .. n : f[i] \in Nat
          /\ DOMAIN k = 1 .. n + 1 /\ k[n + 1] = part.bytes
          /\ \A i \in 1 .. n : k[i] = f[i]
        BY <1>1
    <2>2. BytesOf(p) = SumFunction(f) /\ BytesOf(q) = SumFunction(k)
        BY DEF BytesOf
    <2>3. k[n + 1] \in Nat
        BY <1>1, <2>1
    <2> HIDE DEF f, k
    <2>4. /\ SumFunction(f) \in Nat
          /\ SumFunction(k) = SumFunction(f) + k[n + 1]
        BY <1>1, <2>1, <2>3, SumAppended
    <2> QED
        BY <2>1, <2>2, <2>4
<1>3. ASSUME NEW c \in Chunks
      PROVE  /\ BytesOn(p, c) \in Nat
             /\ BytesOn(q, c) =
                  BytesOn(p, c) + IF part.chunk = c THEN part.bytes ELSE 0
    <2> DEFINE f == [i \in DOMAIN p |->
                       IF p[i].chunk = c THEN p[i].bytes ELSE 0]
               k == [i \in DOMAIN q |->
                       IF q[i].chunk = c THEN q[i].bytes ELSE 0]
    <2>1. /\ DOMAIN f = 1 .. n /\ \A i \in 1 .. n : f[i] \in Nat
          /\ DOMAIN k = 1 .. n + 1
          /\ k[n + 1] = IF part.chunk = c THEN part.bytes ELSE 0
          /\ \A i \in 1 .. n : k[i] = f[i]
        BY <1>1
    <2>2. BytesOn(p, c) = SumFunction(f) /\ BytesOn(q, c) = SumFunction(k)
        BY DEF BytesOn
    <2>3. k[n + 1] \in Nat
        BY <1>1, <2>1
    <2> HIDE DEF f, k
    <2>4. /\ SumFunction(f) \in Nat
          /\ SumFunction(k) = SumFunction(f) + k[n + 1]
        BY <1>1, <2>1, <2>3, SumAppended
    <2> QED
        BY <2>1, <2>2, <2>4
<1> QED
    BY <1>2, <1>3 DEF q

-----------------------------------------------------------------------------
(* The inductive invariant                                                 *)

Inserting(th) == Works(th, "insert_table")

\* The thread that works, and it alone, holds the mutex; so does one that waits
\* for itself.
OneAtATime ==
    \A th \in Threads : pc[th] \in {"work", "relock"} <=> mutex = th

\* A thread that waits for itself does so for a remove_table.
RelocksForRemove ==
    \A th \in Threads : pc[th] = "relock" => request[th].type = "remove_table"

\* No byte of the table that is being placed is lost: the parts chosen so far
\* and the rest are the size asked for.  Nobody else has parts or a rest.
NoByteLost ==
    \A th \in Threads :
        IF Inserting(th) THEN BytesOf(chunks[th]) + left[th] = request[th].size
        ELSE chunks[th] = <<>> /\ left[th] = 0

BInv ==
    /\ TypeOK
    /\ OneAtATime
    /\ RelocksForRemove
    /\ NoByteLost
    /\ PartitionCovers

\* The loop of InsertTable is where that of module Master is after n rounds,
\* each of which has used up an entry unless it was the last one.
Place(th) == [free |-> freePositions, left |-> left[th], parts |-> chunks[th]]
PlacesLikeMaster ==
    \A th \in Threads :
        Inserting(th) =>
            \E n \in 0 .. Cardinality(before) :
                /\ Place(th) = Promise!Rounds(before, request[th].size)[n]
                /\ left[th] # 0 =>
                      Cardinality(freePositions) = Cardinality(before) - n

RInv ==
    /\ BInv
    /\ IsFiniteSet(freePositions)
    /\ IsFiniteSet(before)
    /\ PlacesLikeMaster

-----------------------------------------------------------------------------
LEMMA RequestFields ==
    ASSUME NEW r \in Requests
    PROVE  /\ r.type = "insert_table" => r.table \in Tables /\ r.size \in Nat
           /\ r.type = "insert_table" => r.size \in Sizes
           /\ r.type = "hearbeat" => r.chunk \in Chunks
BY DEF Requests, NoRequest, Heartbeat, Query, RemoveTable, InsertTable

LEMMA SomeRequests ==
    /\ NoRequest \in Requests
    /\ \A c \in Chunks : Heartbeat(c) \in Requests
    /\ \A t \in Tables : Query(t) \in Requests /\ RemoveTable(t) \in Requests
    /\ \A t \in Tables, n \in Sizes : InsertTable(t, n) \in Requests
    /\ NoRequest.type = "none"
BY DEF Requests, NoRequest

\* No two threads work at once.
LEMMA WorksAlone ==
    ASSUME OneAtATime, NEW th \in Threads, pc[th] = "work",
           NEW other \in Threads, other # th
    PROVE  pc[other] \notin {"work", "relock"}
BY DEF OneAtATime

\* What the end of an operation does to the threads.
LEMMA DoneKeeps ==
    ASSUME BInv, NEW th \in Threads, pc[th] = "work", Done(th)
    PROVE  /\ mutex' \in Threads \cup {Nobody}
           /\ pc' \in [Threads -> {"idle", "lock", "work", "relock"}]
           /\ request' \in [Threads -> Requests]
           /\ left' \in [Threads -> Nat]
           /\ chunks' \in [Threads -> Seq(Part)]
           /\ before' \subseteq Entry
           /\ inserts' \in 0 .. MaxInserts
           /\ kills' \in 0 .. MaxKills
           /\ OneAtATime'
           /\ RelocksForRemove'
           /\ NoByteLost'
<1> USE DEF Done
<1>1. /\ mutex' \in Threads \cup {Nobody}
      /\ pc' \in [Threads -> {"idle", "lock", "work", "relock"}]
      /\ left' \in [Threads -> Nat]
      /\ before' \subseteq Entry
      /\ inserts' \in 0 .. MaxInserts
      /\ kills' \in 0 .. MaxKills
    BY DEF BInv, TypeOK
<1>2. request' \in [Threads -> Requests]
    BY SomeRequests DEF BInv, TypeOK
<1>3. chunks' \in [Threads -> Seq(Part)]
    BY DEF BInv, TypeOK
<1>4. OneAtATime'
    <2> SUFFICES ASSUME NEW other \in Threads
                 PROVE  pc'[other] \notin {"work", "relock"} /\ mutex' # other
        BY DEF OneAtATime
    <2> QED
        BY WorksAlone DEF BInv, TypeOK
<1>5. RelocksForRemove'
    BY <1>4 DEF RelocksForRemove, OneAtATime
<1>6. NoByteLost'
    <2> SUFFICES ASSUME NEW other \in Threads
                 PROVE  /\ ~Inserting(other)'
                        /\ chunks'[other] = <<>>
                        /\ left'[other] = 0
        BY DEF NoByteLost
    <2>1. ~Inserting(other)'
        BY <1>4 DEF OneAtATime, Inserting, Works
    <2>2. CASE other = th
        BY <2>1, <2>2 DEF BInv, TypeOK
    <2>3. CASE other # th
        BY <2>1, <2>3, WorksAlone
           DEF BInv, TypeOK, NoByteLost, Inserting, Works
    <2> QED
        BY <2>2, <2>3
<1> QED
    BY <1>1, <1>2, <1>3, <1>4, <1>5, <1>6

-----------------------------------------------------------------------------
(* One lemma per action.                                                   *)

LEMMA ReceiveKeeps ==
    ASSUME BInv, NEW th \in Threads, NEW req \in Requests, Receive(th, req),
           inserts' \in 0 .. MaxInserts
    PROVE  BInv'
<1> USE DEF Receive, balancer, history
<1>1. TypeOK'
    BY DEF BInv, TypeOK
<1>2. OneAtATime' /\ RelocksForRemove'
    BY DEF BInv, TypeOK, OneAtATime, RelocksForRemove
<1>3. \A other \in Threads :
         /\ Inserting(other)' <=> Inserting(other)
         /\ Inserting(other) => request'[other] = request[other]
    BY DEF BInv, TypeOK, Inserting, Works
<1>4. NoByteLost'
    BY <1>3 DEF BInv, NoByteLost
<1>5. PartitionCovers'
    BY DEF BInv, PartitionCovers, Stored
<1> QED
    BY <1>1, <1>2, <1>4, <1>5 DEF BInv

LEMMA LockKeeps ==
    ASSUME BInv, NEW th \in Threads, Lock(th)
    PROVE  BInv'
<1> USE DEF Lock, balancer, history
<1>1. TypeOK'
    <2>1. left' \in [Threads -> Nat]
        BY RequestFields DEF BInv, TypeOK
    <2> QED
        BY <2>1 DEF BInv, TypeOK
<1>2. OneAtATime'
    BY DEF BInv, TypeOK, OneAtATime
<1>3. RelocksForRemove'
    BY DEF BInv, TypeOK, RelocksForRemove
<1>4. NoByteLost'
    <2> SUFFICES ASSUME NEW other \in Threads
                 PROVE  IF Inserting(other)'
                        THEN BytesOf(chunks[other]) + left'[other]
                                = request[other].size
                        ELSE chunks[other] = <<>> /\ left'[other] = 0
        BY DEF NoByteLost
    <2>1. ~Inserting(other) /\ chunks[other] = <<>> /\ left[other] = 0
        BY DEF BInv, NoByteLost, OneAtATime, Inserting, Works
    <2>2. CASE other = th
        <3>1. Inserting(other)' <=> request[other].type = "insert_table"
            BY <2>2 DEF BInv, TypeOK, Inserting, Works
        <3>2. left'[other] = IF request[other].type = "insert_table"
                             THEN request[other].size ELSE 0
            BY <2>2 DEF BInv, TypeOK
        <3>3. request[other].type = "insert_table" => request[other].size \in Nat
            BY RequestFields DEF BInv, TypeOK
        <3> QED
            BY <2>1, <3>1, <3>2, <3>3, BytesOfNothing
    <2>3. CASE other # th
        BY <2>1, <2>3 DEF BInv, TypeOK, Inserting, Works
    <2> QED
        BY <2>2, <2>3
<1>5. PartitionCovers'
    BY DEF BInv, PartitionCovers, Stored
<1> QED
    BY <1>1, <1>2, <1>3, <1>4, <1>5 DEF BInv

LEMMA OnUpdateKeeps ==
    ASSUME BInv, NEW th \in Threads, OnUpdate(th)
    PROVE  BInv'
<1> USE DEF OnUpdate
<1>0. request[th].chunk \in Chunks /\ pc[th] = "work"
    BY RequestFields DEF BInv, TypeOK, Works
<1>1. TypeOK'
    <2> DEFINE c == request[th].chunk
    <2>0. c \in Chunks /\ Capacity[c] \in Nat /\ MaxReports \in Nat
        BY <1>0
    <2>1. /\ chunk2Free' \in [Chunks -> Nat]
          /\ reports' \in [Chunks -> 0 .. MaxReports]
        <3>1. chunk2Free' = [chunk2Free EXCEPT ![c] = Capacity[c]]
            OBVIOUS
        <3>2. reports' = [reports EXCEPT ![c] = IF @ < MaxReports THEN @ + 1 ELSE @]
            OBVIOUS
        <3> HIDE DEF c
        <3>3. /\ chunk2Free \in [Chunks -> Nat]
              /\ reports \in [Chunks -> 0 .. MaxReports]
            BY DEF BInv, TypeOK
        <3>4. (IF reports[c] < MaxReports THEN reports[c] + 1 ELSE reports[c])
                 \in 0 .. MaxReports
            BY <2>0, <3>3
        <3>5. chunk2Free' \in [Chunks -> Nat]
            BY <2>0, <3>1, <3>3
        <3>6. reports' \in [Chunks -> 0 .. MaxReports]
            BY <3>2, <3>3, <3>4
        <3> QED
            BY <3>5, <3>6
    <2>2. freePositions' \subseteq Entry
        <3>1. freePositions' \subseteq freePositions \cup {<<Capacity[c], c>>}
            OBVIOUS
        <3>2. <<Capacity[c], c>> \in Entry
            BY <1>0, <2>0 DEF Entry
        <3> QED
            BY <3>1, <3>2 DEF BInv, TypeOK
    <2>3. /\ partitions' \in [Tables -> Seq(Part) \cup {NoTable}]
          /\ asked' \in [Tables -> Nat]
          /\ replaced' \in BOOLEAN
        BY DEF BInv, TypeOK
    <2> QED
        BY <1>0, <2>1, <2>2, <2>3, DoneKeeps DEF TypeOK
<1>2. PartitionCovers'
    BY DEF BInv, PartitionCovers, Stored
<1> QED
    BY <1>0, <1>1, <1>2, DoneKeeps DEF BInv

\* Operations that end without a change to the balancer.
LEMMA EndsKeep ==
    ASSUME BInv, NEW th \in Threads, pc[th] = "work", Done(th),
           UNCHANGED <<chunk2Free, partitions, history>>,
           freePositions' \subseteq Entry
    PROVE  BInv'
<1> USE DEF history
<1>1. TypeOK'
    <2>1. /\ chunk2Free' \in [Chunks -> Nat]
          /\ reports' \in [Chunks -> 0 .. MaxReports]
          /\ partitions' \in [Tables -> Seq(Part) \cup {NoTable}]
          /\ asked' \in [Tables -> Nat]
          /\ replaced' \in BOOLEAN
        BY DEF BInv, TypeOK
    <2> QED
        BY <2>1, DoneKeeps DEF TypeOK
<1>2. PartitionCovers'
    BY DEF BInv, PartitionCovers, Stored
<1> QED
    BY <1>1, <1>2, DoneKeeps DEF BInv

\* What a round of InsertTable gives is taken off the rest.
LEMMA GiveKeeps ==
    ASSUME BInv, NEW th \in Threads, Inserting(th), NEW entry \in Entry,
           NEW bytes \in Nat, bytes <= left[th], Give(th, entry, bytes),
           freePositions' \subseteq Entry,
           UNCHANGED <<chunk2Free, partitions, mutex, pc, request, before,
                       history, inserts, kills>>
    PROVE  BInv'
<1> DEFINE part == [chunk |-> entry[2], bytes |-> bytes]
<1> USE DEF Give, history
<1>1. part \in Part
    BY DEF Part, Entry
<1>2. /\ chunks[th] \in Seq(Part)
      /\ left[th] \in Nat
      /\ left' = [left EXCEPT ![th] = left[th] - bytes]
      /\ chunks' = [chunks EXCEPT ![th] = Append(chunks[th], part)]
    BY DEF BInv, TypeOK
<1> HIDE DEF part
<1>3. TypeOK'
    <2>1. left' \in [Threads -> Nat]
        BY <1>2 DEF BInv, TypeOK
    <2>2. Append(chunks[th], part) \in Seq(Part)
        BY <1>1, <1>2
    <2>3. chunks' \in [Threads -> Seq(Part)]
        BY <1>2, <2>2 DEF BInv, TypeOK
    <2> QED
        BY <2>1, <2>3 DEF BInv, TypeOK
<1>4. OneAtATime' /\ RelocksForRemove' /\ PartitionCovers'
    BY DEF BInv, OneAtATime, RelocksForRemove, PartitionCovers, Stored
<1>5. NoByteLost'
    <2> SUFFICES ASSUME NEW other \in Threads
                 PROVE  IF Inserting(other)
                        THEN BytesOf(chunks'[other]) + left'[other]
                                = request[other].size
                        ELSE chunks'[other] = <<>> /\ left'[other] = 0
        BY DEF NoByteLost, Inserting, Works
    <2>1. CASE other = th
        <3>1. BytesOf(chunks[th]) + left[th] = request[th].size
            BY DEF BInv, NoByteLost
        <3>2. /\ BytesOf(chunks[th]) \in Nat
              /\ BytesOf(Append(chunks[th], part)) = BytesOf(chunks[th]) + bytes
            BY <1>1, <1>2, BytesOfAppend DEF part
        <3>3. left'[th] = left[th] - bytes
            BY <1>2 DEF BInv, TypeOK
        <3>4. chunks'[th] = Append(chunks[th], part)
            BY <1>2 DEF BInv, TypeOK
        <3> QED
            BY <1>2, <2>1, <3>1, <3>2, <3>3, <3>4
    <2>2. CASE other # th
        BY <1>2, <2>2 DEF BInv, TypeOK, NoByteLost
    <2> QED
        BY <2>1, <2>2
<1> QED
    BY <1>3, <1>4, <1>5 DEF BInv

LEMMA PlacePartKeeps ==
    ASSUME BInv, NEW th \in Threads, PlacePart(th)
    PROVE  BInv'
<1>1. PICK last \in freePositions : UseUp(th, last) \/ Shrink(th, last)
    BY DEF PlacePart
<1>2. /\ last \in Entry /\ last[1] \in Nat /\ last[2] \in Chunks
      /\ left[th] \in Nat
      /\ freePositions \subseteq Entry
      /\ Inserting(th)
    BY DEF BInv, TypeOK, Entry, PlacePart, Inserting
<1>3. UNCHANGED <<chunk2Free, partitions, mutex, pc, request, before, history,
                  inserts, kills>>
    BY DEF PlacePart
<1>4. CASE UseUp(th, last)
    <2>1. freePositions' \subseteq Entry
        BY <1>2, <1>4 DEF UseUp
    <2> QED
        BY <1>2, <1>3, <1>4, <2>1, GiveKeeps DEF UseUp
<1>5. CASE Shrink(th, last)
    <2>1. <<last[1] - left[th], last[2]>> \in Entry
        BY <1>2, <1>5 DEF Shrink, Entry
    <2>2. freePositions' \subseteq Entry
        BY <1>2, <1>5, <2>1 DEF Shrink
    <2> QED
        BY <1>2, <1>3, <1>5, <2>2, GiveKeeps DEF Shrink
<1> QED
    BY <1>1, <1>4, <1>5

\* At the end of the loop the rest is 0, so the parts are the whole table.
LEMMA StorePartitionKeeps ==
    ASSUME BInv, NEW th \in Threads, StorePartition(th)
    PROVE  BInv'
<1> DEFINE t == request[th].table
           n == request[th].size
<1> USE DEF StorePartition
<1>1. /\ pc[th] = "work"
      /\ Done(th)
      /\ t \in Tables
      /\ n \in Nat
      /\ chunks[th] \in Seq(Part)
    BY RequestFields DEF BInv, TypeOK, Works
<1>2. /\ partitions' = [partitions EXCEPT ![t] = chunks[th]]
      /\ asked' = [asked EXCEPT ![t] = n]
      /\ UNCHANGED <<chunk2Free, freePositions, reports>>
    OBVIOUS
<1>3. BytesOf(chunks[th]) = n
    <2>1. BytesOf(chunks[th]) + left[th] = n /\ left[th] = 0
        BY DEF BInv, NoByteLost, Inserting
    <2>2. BytesOf(chunks[th]) \in Nat
        BY <1>1, BytesAreNumbers
    <2> QED
        BY <2>1, <2>2
<1>4. replaced' \in BOOLEAN
    BY DEF BInv, TypeOK
<1> HIDE DEF t, n
<1>5. TypeOK'
    <2>1. /\ chunk2Free' \in [Chunks -> Nat]
          /\ reports' \in [Chunks -> 0 .. MaxReports]
          /\ freePositions' \subseteq Entry
        BY <1>2 DEF BInv, TypeOK
    <2>2. partitions' \in [Tables -> Seq(Part) \cup {NoTable}]
        BY <1>1, <1>2 DEF BInv, TypeOK
    <2>3. asked' \in [Tables -> Nat]
        BY <1>1, <1>2 DEF BInv, TypeOK
    <2> QED
        BY <1>1, <1>4, <2>1, <2>2, <2>3, DoneKeeps DEF TypeOK
<1>6. PartitionCovers'
    <2> SUFFICES ASSUME NEW u \in Tables, partitions'[u] # NoTable
                 PROVE  BytesOf(partitions'[u]) = asked'[u]
        BY DEF PartitionCovers, Stored
    <2>1. CASE u = t
        BY <1>1, <1>2, <1>3, <2>1 DEF BInv, TypeOK
    <2>2. CASE u # t
        <3>1. partitions'[u] = partitions[u] /\ asked'[u] = asked[u]
            BY <1>2, <2>2 DEF BInv, TypeOK
        <3> QED
            BY <3>1 DEF BInv, PartitionCovers, Stored
    <2> QED
        BY <2>1, <2>2
<1> QED
    BY <1>1, <1>5, <1>6, DoneKeeps DEF BInv

LEMMA EraseTableKeeps ==
    ASSUME BInv, NEW th \in Threads, EraseTable(th)
    PROVE  BInv'
<1> USE DEF EraseTable, balancer, history
<1>1. TypeOK'
    BY DEF BInv, TypeOK
<1>2. OneAtATime' /\ RelocksForRemove'
    BY DEF BInv, TypeOK, OneAtATime, RelocksForRemove, Works
<1>3. NoByteLost'
    BY DEF BInv, TypeOK, NoByteLost, Inserting, Works
<1>4. PartitionCovers'
    BY DEF BInv, PartitionCovers, Stored
<1> QED
    BY <1>1, <1>2, <1>3, <1>4 DEF BInv

LEMMA KillAndRestartKeeps ==
    ASSUME BInv, KillAndRestart
    PROVE  BInv'
<1> USE DEF KillAndRestart, history
<1>1. TypeOK'
    <2>1. partitions' \in [Tables -> Seq(Part) \cup {NoTable}]
        BY DEF BInv, TypeOK
    <2>2. /\ request' \in [Threads -> Requests]
          /\ pc' \in [Threads -> {"idle", "lock", "work", "relock"}]
          /\ left' \in [Threads -> Nat]
        BY SomeRequests
    <2>3. chunks' \in [Threads -> Seq(Part)]
        OBVIOUS
    <2>4. kills' \in 0 .. MaxKills
        BY DEF BInv, TypeOK
    <2>5. /\ chunk2Free' \in [Chunks -> Nat]
          /\ freePositions' \subseteq Entry
          /\ before' \subseteq Entry
          /\ mutex' \in Threads \cup {Nobody}
        OBVIOUS
    <2> QED
        BY <2>1, <2>2, <2>3, <2>4, <2>5 DEF BInv, TypeOK
<1>2. OneAtATime' /\ RelocksForRemove' /\ NoByteLost'
    BY DEF OneAtATime, RelocksForRemove, NoByteLost, Inserting, Works
<1>3. PartitionCovers'
    BY DEF BInv, TypeOK, PartitionCovers, Stored
<1> QED
    BY <1>1, <1>2, <1>3 DEF BInv

LEMMA InitBInv == Init => BInv
<1> SUFFICES ASSUME Init PROVE BInv
    OBVIOUS
<1> USE DEF Init
<1>1. TypeOK
    <2>1. /\ request \in [Threads -> Requests]
          /\ pc \in [Threads -> {"idle", "lock", "work", "relock"}]
          /\ left \in [Threads -> Nat]
          /\ chunks \in [Threads -> Seq(Part)]
        BY SomeRequests
    <2>2. /\ chunk2Free \in [Chunks -> Nat]
          /\ partitions \in [Tables -> Seq(Part) \cup {NoTable}]
          /\ asked \in [Tables -> Nat]
        OBVIOUS
    <2>3. /\ reports \in [Chunks -> 0 .. MaxReports]
          /\ inserts \in 0 .. MaxInserts
          /\ kills \in 0 .. MaxKills
        OBVIOUS
    <2> QED
        BY <2>1, <2>2, <2>3 DEF TypeOK
<1>2. OneAtATime /\ RelocksForRemove /\ NoByteLost /\ PartitionCovers
    BY DEF OneAtATime, RelocksForRemove, NoByteLost, PartitionCovers, Stored,
           Inserting, Works
<1> QED
    BY <1>1, <1>2 DEF BInv

LEMMA ReceivesKeep ==
    ASSUME BInv, NEW th \in Threads,
           \/ \E c \in Chunks : ReceiveHeartbeat(th, c)
           \/ \E t \in Tables : ReceiveQuery(th, t) \/ ReceiveRemove(th, t)
           \/ \E t \in Tables, n \in Sizes : ReceiveInsert(th, t, n)
    PROVE  BInv'
<1>1. PICK req \in Requests : Receive(th, req)
    BY SomeRequests DEF ReceiveHeartbeat, ReceiveQuery, ReceiveRemove,
                        ReceiveInsert
<1>2. inserts' \in 0 .. MaxInserts
    BY DEF ReceiveHeartbeat, ReceiveQuery, ReceiveRemove, ReceiveInsert, BInv,
           TypeOK
<1> QED
    BY <1>1, <1>2, ReceiveKeeps

LEMMA WorkKeeps ==
    ASSUME BInv, NEW th \in Threads, Work(th)
    PROVE  BInv'
<1>1. CASE GetPartition(th) \/ InsertFails(th)
    <2>1. /\ pc[th] = "work"
          /\ Done(th)
          /\ UNCHANGED <<chunk2Free, partitions, history>>
          /\ UNCHANGED freePositions
        BY <1>1 DEF GetPartition, InsertFails, Works, balancer
    <2> QED
        BY <2>1, EndsKeep DEF BInv, TypeOK
<1>2. CASE OnUpdate(th)
    BY <1>2, OnUpdateKeeps
<1>3. CASE PlacePart(th)
    BY <1>3, PlacePartKeeps
<1>4. CASE StorePartition(th)
    BY <1>4, StorePartitionKeeps
<1>5. CASE EraseTable(th)
    BY <1>5, EraseTableKeeps
<1> QED
    BY <1>1, <1>2, <1>3, <1>4, <1>5 DEF Work

LEMMA NextKeepsBInv == BInv /\ [Next]_vars => BInv'
<1> SUFFICES ASSUME BInv, [Next]_vars PROVE BInv'
    OBVIOUS
<1>1. ASSUME NEW th \in Threads, Lock(th) PROVE BInv'
    BY <1>1, LockKeeps
<1>2. ASSUME NEW th \in Threads, Work(th) PROVE BInv'
    BY <1>2, WorkKeeps
<1>3. CASE KillAndRestart
    BY <1>3, KillAndRestartKeeps
<1>4. CASE UNCHANGED vars
    BY <1>4 DEF vars, balancer, history, BInv, TypeOK, OneAtATime,
                RelocksForRemove, NoByteLost, PartitionCovers, Stored,
                Inserting, Works
<1> QED
    BY <1>1, <1>2, <1>3, <1>4, ReceivesKeep DEF Next

LEMMA BalancerInvariance == Spec => []BInv
BY InitBInv, NextKeepsBInv, PTL DEF Spec

\* Types: among them, no free entry and no rest of a table goes below zero.
THEOREM TypeCorrect == Spec => []TypeOK
BY BalancerInvariance, PTL DEF BInv

\* The lock_guard does its job: one operation at a time, whatever the threads
\* of the server do, and a remove_table that waits for itself keeps all others
\* out.
THEOREM MutualExclusion == Spec => []OneAtATime
BY BalancerInvariance, PTL DEF BInv

\* The parts of every stored table add up to the size it was asked for.
THEOREM PartitionsCover == Spec => []PartitionCovers
BY BalancerInvariance, PTL DEF BInv

-----------------------------------------------------------------------------
(* The rounds of InsertTable in module Master                              *)

\* The order of the free list, and that it has a last entry.
NotAfter(x, e) == x[1] < e[1] \/ (x[1] = e[1] /\ x[2] <= e[2])

LEMMA EntryNumbers ==
    ASSUME NEW e \in Entry
    PROVE  e[1] \in Nat /\ e[2] \in Chunks /\ e[2] \in Nat /\ e = <<e[1], e[2]>>
<1>1. e[1] \in Nat /\ e[2] \in Chunks /\ e = <<e[1], e[2]>>
    BY DEF Entry
<1>2. e[2] \in Nat
    BY <1>1
<1> QED
    BY <1>1, <1>2

LEMMA LastEntryExists ==
    ASSUME NEW free \in SUBSET Entry, IsFiniteSet(free), free # {}
    PROVE  \E e \in free : \A x \in free : NotAfter(x, e)
<1> DEFINE S == {n \in Nat : \A T \in SUBSET Entry :
                    IsFiniteSet(T) /\ Cardinality(T) = n /\ T # {}
                        => \E e \in T : \A x \in T : NotAfter(x, e)}
<1>1. 0 \in S
    BY FS_EmptySet
<1>2. ASSUME NEW n \in Nat, n \in S PROVE n + 1 \in S
    <2> SUFFICES ASSUME NEW T \in SUBSET Entry, IsFiniteSet(T),
                        Cardinality(T) = n + 1, T # {}
                 PROVE  \E e \in T : \A x \in T : NotAfter(x, e)
        OBVIOUS
    <2>1. PICK y : y \in T
        BY <1>2
    <2>2. IsFiniteSet(T \ {y}) /\ Cardinality(T \ {y}) = n
        <3>1. n \in Nat /\ Cardinality(T) = n + 1
            BY <1>2
        <3>2. /\ IsFiniteSet(T \ {y})
              /\ Cardinality(T \ {y}) = Cardinality(T) - 1
            BY <2>1, FS_RemoveElement
        <3> QED
            BY <3>1, <3>2
    <2>3. \A x \in T : x[1] \in Int /\ x[2] \in Int
        BY EntryNumbers
    <2>4. CASE T \ {y} = {}
        <3>1. \A x \in T : NotAfter(x, y)
            BY <2>3, <2>4 DEF NotAfter
        <3> QED
            BY <2>1, <3>1
    <2>5. CASE T \ {y} # {}
        <3>1. PICK e \in T \ {y} : \A x \in T \ {y} : NotAfter(x, e)
            BY <1>2, <2>2, <2>5
        <3>2. CASE NotAfter(y, e)
            <4>1. \A x \in T : NotAfter(x, e)
                BY <3>1, <3>2
            <4> QED
                BY <4>1
        <3>3. CASE ~NotAfter(y, e)
            <4>1. \A x \in T : NotAfter(x, y)
                BY <2>1, <2>3, <3>1, <3>3 DEF NotAfter
            <4> QED
                BY <2>1, <4>1
        <3> QED
            BY <3>2, <3>3
    <2> QED
        BY <2>4, <2>5
<1> HIDE DEF S
<1>3. \A n \in Nat : n \in S
    BY <1>1, <1>2, SetInduction
<1>4. Cardinality(free) \in S
    BY <1>3, FS_CardinalityType
<1> QED
    BY <1>4 DEF S

LEMMA LastOfIsLast ==
    ASSUME NEW free \in SUBSET Entry, IsFiniteSet(free), free # {}
    PROVE  /\ Promise!LastOf(free) \in free
           /\ \A e \in free :
                (\A x \in free : NotAfter(x, e)) => Promise!LastOf(free) = e
<1> DEFINE last == Promise!LastOf(free)
<1>1. last = CHOOSE e \in free : \A x \in free : NotAfter(x, e)
    BY DEF Promise!LastOf, NotAfter
<1>2. last \in free /\ \A x \in free : NotAfter(x, last)
    BY <1>1, LastEntryExists
<1> HIDE DEF last
<1>3. ASSUME NEW e \in free, \A x \in free : NotAfter(x, e)
      PROVE  last = e
    <2>1. NotAfter(last, e) /\ NotAfter(e, last)
        BY <1>2, <1>3
    <2>2. last \in Entry /\ e \in Entry
        BY <1>2
    <2>3. /\ last[1] \in Int /\ last[2] \in Int
          /\ e[1] \in Int /\ e[2] \in Int
        BY <2>2, EntryNumbers
    <2>4. last[1] = e[1] /\ last[2] = e[2]
        BY <2>1, <2>3 DEF NotAfter
    <2> QED
        BY <2>2, <2>4, EntryNumbers
<1> QED
    BY <1>2, <1>3 DEF last

\* Where the loop may be.
FreeLists == {S \in SUBSET Entry : IsFiniteSet(S)}
Places == [free : FreeLists, left : Nat, parts : Seq(Part)]

LEMMA RoundInPlaces ==
    ASSUME NEW place \in Places, place.free # {}
    PROVE  Promise!Round(place) \in Places
<1> DEFINE last == Promise!LastOf(place.free)
           fits == place.left < last[1]
           given == IF fits THEN place.left ELSE last[1]
           rest == IF fits THEN {<<last[1] - given, last[2]>>} ELSE {}
           part == [chunk |-> last[2], bytes |-> given]
<1>1. /\ place.free \in SUBSET Entry
      /\ IsFiniteSet(place.free)
      /\ place.left \in Nat
      /\ place.parts \in Seq(Part)
    BY DEF Places, FreeLists
<1>2. last \in place.free
    BY <1>1, LastOfIsLast
<1>3. last[1] \in Nat /\ last[2] \in Chunks
    BY <1>1, <1>2 DEF Entry
<1> HIDE DEF last
<1>4. given \in Nat /\ place.left - given \in Nat
    BY <1>1, <1>3
<1>5. (place.free \ {last}) \cup rest \in FreeLists
    <2>1. IsFiniteSet(place.free \ {last})
        BY <1>1, FS_RemoveElement
    <2>2. CASE fits
        <3>1. <<last[1] - given, last[2]>> \in Entry
            BY <1>1, <1>3, <2>2 DEF Entry
        <3>2. IsFiniteSet((place.free \ {last}) \cup rest)
            BY <2>1, <2>2, FS_AddElement
        <3> QED
            BY <1>1, <2>2, <3>1, <3>2 DEF FreeLists
    <2>3. CASE ~fits
        BY <1>1, <2>1, <2>3 DEF FreeLists
    <2> QED
        BY <2>2, <2>3
<1>6. Append(place.parts, part) \in Seq(Part)
    <2>1. part \in Part
        BY <1>3, <1>4 DEF Part
    <2> HIDE DEF part
    <2> QED
        BY <1>1, <2>1
<1>7. Promise!Round(place) = [free |-> (place.free \ {last}) \cup rest,
                              left |-> place.left - given,
                              parts |-> Append(place.parts, part)]
    BY DEF Promise!Round, last
<1> QED
    BY <1>4, <1>5, <1>6, <1>7 DEF Places

Over(place) == place.left = 0 \/ place.free = {}

LEMMA RoundsGoOn ==
    ASSUME NEW free \in FreeLists, NEW size \in Nat
    PROVE  LET N == Cardinality(free)
               after == Promise!Rounds(free, size)
           IN  /\ N \in Nat
               /\ after[0] = [free |-> free, left |-> size, parts |-> <<>>]
               /\ \A n \in 1 .. N :
                    after[n] = IF Over(after[n - 1]) THEN after[n - 1]
                               ELSE Promise!Round(after[n - 1])
<1> DEFINE N == Cardinality(free)
           a == [free |-> free, left |-> size, parts |-> <<>>]
           F == [z \in Nat \X Places |->
                    IF Over(z[2]) THEN z[2] ELSE Promise!Round(z[2])]
           IsRounds(f) ==
             f = [n \in 0 .. N |->
                    IF n = 0 THEN a
                    ELSE LET place == f[n - 1]
                         IN  IF Over(place) THEN place ELSE Promise!Round(place)]
<1>1. N \in Nat
    BY FS_CardinalityType DEF FreeLists
<1>2. a \in Places
    BY DEF Places
<1>3. F \in [Nat \X Places -> Places]
    BY RoundInPlaces DEF Over
<1>4. \A n \in Nat, x \in Places :
         F[<<n, x>>] = IF Over(x) THEN x ELSE Promise!Round(x)
    OBVIOUS
<1> HIDE DEF F, N, a
<1>5. PICK f \in [0 .. N -> Places] : Iterates(f, a, F, N)
    BY <1>1, <1>2, <1>3, IterationExists
<1>6. \A n \in 0 .. N : f[n] = IF n = 0 THEN a ELSE F[<<n, f[n - 1]>>]
    BY <1>5 DEF Iterates
<1>7. ASSUME NEW n \in 0 .. N
      PROVE  f[n] = IF n = 0 THEN a
                    ELSE LET place == f[n - 1]
                         IN  IF Over(place) THEN place ELSE Promise!Round(place)
    <2>1. CASE n = 0
        BY <1>6, <2>1
    <2>2. CASE n # 0
        <3>1. n - 1 \in 0 .. N /\ n \in Nat
            BY <1>1, <2>2
        <3>2. f[n] = F[<<n, f[n - 1]>>] /\ f[n - 1] \in Places
            BY <1>6, <2>2, <3>1
        <3> QED
            BY <1>4, <2>2, <3>1, <3>2
    <2> QED
        BY <2>1, <2>2
<1>8. IsRounds(f)
    BY <1>7
<1>9. Promise!Rounds(free, size) = CHOOSE g : IsRounds(g)
    <2>1. Promise!Rounds(free, size) =
            CHOOSE after :
              after = [n \in 0 .. Promise!Cardinality(free) |->
                IF n = 0 THEN [free |-> free, left |-> size, parts |-> <<>>]
                ELSE LET place == after[n - 1]
                     IN  IF place.left = 0 \/ place.free = {} THEN place
                         ELSE Promise!Round(place)]
        BY DEF Promise!Rounds
    <2>2. Promise!Cardinality(free) = Cardinality(free)
        BY DEF Promise!Cardinality, Cardinality
    <2> QED
        BY <2>1, <2>2 DEF Over, N, a
<1>10. IsRounds(Promise!Rounds(free, size))
    BY <1>8, <1>9
<1> DEFINE after == Promise!Rounds(free, size)
<1> HIDE DEF after
<1>11. after[0] = a
    BY <1>1, <1>10 DEF after
<1>12. ASSUME NEW n \in 1 .. N
       PROVE  after[n] = IF Over(after[n - 1]) THEN after[n - 1]
                         ELSE Promise!Round(after[n - 1])
    <2>1. n \in 0 .. N /\ n # 0
        BY <1>1
    <2> QED
        BY <1>10, <2>1 DEF after
<1> QED
    BY <1>1, <1>11, <1>12 DEF after, N, a

LEMMA SameCardinality ==
    ASSUME NEW S
    PROVE  Promise!Cardinality(S) = Cardinality(S)
BY DEF Promise!Cardinality, Cardinality

\* Where the loop is over it stays.
LEMMA RoundsEnd ==
    ASSUME NEW free \in FreeLists, NEW size \in Nat,
           NEW n \in 0 .. Cardinality(free),
           Over(Promise!Rounds(free, size)[n])
    PROVE  Promise!Placement(free, size) = Promise!Rounds(free, size)[n]
<1> DEFINE N == Cardinality(free)
           after == Promise!Rounds(free, size)
           S == {m \in Nat : m >= n => after[m] = after[n]}
<1>1. N \in Nat
    BY RoundsGoOn
<1>2. ASSUME NEW m \in 1 .. N
      PROVE  after[m] = IF Over(after[m - 1]) THEN after[m - 1]
                        ELSE Promise!Round(after[m - 1])
    BY RoundsGoOn
<1>3. Over(after[n])
    OBVIOUS
<1>4. Promise!Placement(free, size) = after[N]
    BY SameCardinality DEF Promise!Placement
<1> HIDE DEF N, after
<1>5. n \in Nat /\ n <= N
    BY <1>1 DEF N
<1>6. 0 \in S
    BY <1>5
<1>7. ASSUME NEW m \in 0 .. N - 1, m \in S PROVE m + 1 \in S
    <2>1. m \in Nat /\ m + 1 \in 1 .. N /\ m + 1 - 1 = m
        BY <1>1
    <2>2. after[m + 1] = IF Over(after[m]) THEN after[m]
                         ELSE Promise!Round(after[m])
        BY <1>2, <2>1
    <2>3. CASE m >= n
        BY <1>3, <1>7, <2>1, <2>2, <2>3
    <2>4. CASE ~(m >= n)
        <3>1. m + 1 >= n => m + 1 = n
            BY <1>5, <2>1, <2>4
        <3> QED
            BY <2>1, <3>1
    <2> QED
        BY <2>3, <2>4
<1> HIDE DEF S
<1>8. \A m \in 0 .. N : m \in S
    BY <1>1, <1>6, <1>7, BoundedInduction
<1>9. after[N] = after[n]
    BY <1>1, <1>5, <1>8 DEF S
<1> QED
    BY <1>4, <1>9 DEF after

\* A round of the balancer is one of module Master.
LEMMA PlacePartIsRound ==
    ASSUME RInv, NEW th \in Threads, PlacePart(th)
    PROVE  /\ ~Over(Place(th))
           /\ Place(th)' = Promise!Round(Place(th))
           /\ IsFiniteSet(freePositions')
           /\ left'[th] # 0 =>
                 Cardinality(freePositions') = Cardinality(freePositions) - 1
           /\ Cardinality(freePositions) \in Nat \ {0}
<1>1. PICK last \in freePositions :
         /\ \A e \in freePositions : NotAfter(e, last)
         /\ UseUp(th, last) \/ Shrink(th, last)
    BY DEF PlacePart, NotAfter
<1>2. /\ freePositions \in SUBSET Entry
      /\ IsFiniteSet(freePositions)
      /\ left \in [Threads -> Nat]
      /\ chunks \in [Threads -> Seq(Part)]
    BY DEF RInv, BInv, TypeOK
<1>3. last[1] \in Nat /\ left[th] \in Nat /\ left[th] # 0
    BY <1>2, EntryNumbers DEF PlacePart
<1>4. Promise!LastOf(freePositions) = last
    BY <1>1, <1>2, LastOfIsLast
<1>5. /\ IsFiniteSet(freePositions \ {last})
      /\ Cardinality(freePositions \ {last}) = Cardinality(freePositions) - 1
      /\ Cardinality(freePositions) \in Nat
      /\ Cardinality(freePositions \ {last}) \in Nat
    BY <1>2, FS_RemoveElement, FS_CardinalityType
<1>6. ~Over(Place(th))
    BY <1>3 DEF Over, Place
<1>7. CASE UseUp(th, last)
    <2>1. /\ ~(left[th] < last[1])
          /\ freePositions' = (freePositions \ {last}) \cup {}
          /\ left'[th] = left[th] - last[1]
          /\ chunks'[th] = Append(chunks[th],
                                  [chunk |-> last[2], bytes |-> last[1]])
        BY <1>2, <1>3, <1>7 DEF UseUp, Give
    <2>2. Place(th)' = Promise!Round(Place(th))
        BY <1>4, <2>1 DEF Place, Promise!Round
    <2> QED
        BY <1>5, <1>6, <2>1, <2>2
<1>8. CASE Shrink(th, last)
    <2>1. /\ left[th] < last[1]
          /\ freePositions' = (freePositions \ {last})
                                \cup {<<last[1] - left[th], last[2]>>}
          /\ left'[th] = left[th] - left[th]
          /\ left'[th] = 0
          /\ chunks'[th] = Append(chunks[th],
                                  [chunk |-> last[2], bytes |-> left[th]])
        BY <1>2, <1>3, <1>8 DEF Shrink, Give
    <2>2. Place(th)' = Promise!Round(Place(th))
        BY <1>4, <2>1 DEF Place, Promise!Round
    <2>3. IsFiniteSet(freePositions')
        BY <1>5, <2>1, FS_AddElement
    <2> QED
        BY <1>5, <1>6, <2>1, <2>2, <2>3
<1> QED
    BY <1>1, <1>7, <1>8

-----------------------------------------------------------------------------
(* The loop is where that of module Master is.                             *)

LEMMA InitRInv == Init => RInv
<1> SUFFICES ASSUME Init PROVE RInv
    OBVIOUS
<1>1. IsFiniteSet(freePositions) /\ IsFiniteSet(before)
    BY FS_EmptySet DEF Init
<1>2. PlacesLikeMaster
    BY DEF Init, PlacesLikeMaster, Inserting, Works
<1> QED
    BY <1>1, <1>2, InitBInv DEF RInv

\* While nobody places a table there is nothing to compare.
LEMMA NobodyPlaces ==
    ASSUME \A th \in Threads : ~Inserting(th)
    PROVE  PlacesLikeMaster
BY DEF PlacesLikeMaster

LEMMA PlacePartKeepsRInv ==
    ASSUME RInv, NEW th \in Threads, PlacePart(th)
    PROVE  IsFiniteSet(before') /\ PlacesLikeMaster'
<1>1. /\ pc[th] = "work" /\ Inserting(th)
      /\ UNCHANGED <<pc, request, before>>
    BY DEF PlacePart, Works, Inserting
<1>2. \A other \in Threads : other # th => ~Inserting(other)'
    BY <1>1, WorksAlone DEF RInv, BInv, Inserting, Works
<1>3. PICK n \in 0 .. Cardinality(before) :
         /\ Place(th) = Promise!Rounds(before, request[th].size)[n]
         /\ left[th] # 0 => Cardinality(freePositions) = Cardinality(before) - n
    BY <1>1 DEF RInv, PlacesLikeMaster
<1>4. Cardinality(before) \in Nat /\ before \in FreeLists
    BY FS_CardinalityType DEF RInv, BInv, TypeOK, FreeLists
<1>5. request[th].size \in Nat
    BY <1>1, RequestFields DEF RInv, BInv, TypeOK, Inserting, Works
<1>6. left[th] # 0
    BY PlacePartIsRound DEF Over, Place
<1>7. n + 1 \in 1 .. Cardinality(before) /\ n + 1 - 1 = n
    BY <1>3, <1>4, <1>6, PlacePartIsRound
<1>8. Promise!Rounds(before, request[th].size)[n + 1] = Place(th)'
    <2> DEFINE after == Promise!Rounds(before, request[th].size)
    <2>1. \A m \in 1 .. Cardinality(before) :
             after[m] = IF Over(after[m - 1]) THEN after[m - 1]
                        ELSE Promise!Round(after[m - 1])
        BY <1>4, <1>5, RoundsGoOn
    <2> HIDE DEF after
    <2>2. after[n] = Place(th)
        BY <1>3 DEF after
    <2>3. after[n + 1] = IF Over(after[n]) THEN after[n]
                         ELSE Promise!Round(after[n])
        BY <1>7, <2>1
    <2> QED
        BY <2>2, <2>3, PlacePartIsRound DEF after
<1>9. left'[th] # 0 =>
         Cardinality(freePositions') = Cardinality(before) - (n + 1)
    BY <1>3, <1>4, <1>6, <1>7, PlacePartIsRound
<1>10. /\ n + 1 \in 0 .. Cardinality(before')
       /\ Place(th)' = Promise!Rounds(before', request'[th].size)[n + 1]
       /\ left'[th] # 0 =>
             Cardinality(freePositions') = Cardinality(before') - (n + 1)
    BY <1>1, <1>4, <1>7, <1>8, <1>9
<1> QED
    BY <1>1, <1>2, <1>10 DEF RInv, PlacesLikeMaster

LEMMA WorkKeepsRInv ==
    ASSUME RInv, NEW th \in Threads, Work(th)
    PROVE  IsFiniteSet(freePositions') /\ IsFiniteSet(before') /\ PlacesLikeMaster'
<1>1. CASE PlacePart(th)
    BY <1>1, PlacePartKeepsRInv, PlacePartIsRound
<1>2. CASE ~PlacePart(th)
    <2>1. pc[th] = "work"
        BY <1>2 DEF Work, OnUpdate, GetPartition, InsertFails, StorePartition,
                    EraseTable, Works
    <2>2. \A other \in Threads : pc'[other] # "work"
        BY <1>2, <2>1, WorksAlone
           DEF Work, OnUpdate, GetPartition, InsertFails, StorePartition,
               EraseTable, Done, RInv, BInv, TypeOK
    <2>3. IsFiniteSet(before')
        BY <1>2, FS_EmptySet
           DEF Work, OnUpdate, GetPartition, InsertFails, StorePartition,
               EraseTable, Done, RInv
    <2>4. IsFiniteSet(freePositions')
        <3>1. CASE OnUpdate(th)
            BY <3>1, FS_RemoveElement, FS_AddElement DEF OnUpdate, RInv
        <3>2. CASE ~OnUpdate(th)
            BY <1>2, <3>2
               DEF Work, GetPartition, InsertFails, StorePartition, EraseTable,
                   balancer, RInv
        <3> QED
            BY <3>1, <3>2
    <2> QED
        BY <2>2, <2>3, <2>4, NobodyPlaces DEF PlacesLikeMaster, Inserting, Works
<1> QED
    BY <1>1, <1>2

LEMMA LockKeepsRInv ==
    ASSUME RInv, NEW th \in Threads, Lock(th)
    PROVE  IsFiniteSet(freePositions') /\ IsFiniteSet(before') /\ PlacesLikeMaster'
<1>1. /\ UNCHANGED <<freePositions, request, chunks>>
      /\ before' = freePositions
    BY DEF Lock, balancer
<1>2. \A other \in Threads : ~Inserting(other) /\ chunks[other] = <<>>
    BY DEF Lock, RInv, BInv, NoByteLost, OneAtATime, Inserting, Works
<1>3. \A other \in Threads : other # th => ~Inserting(other)'
    BY <1>2 DEF Lock, RInv, BInv, TypeOK, Inserting, Works
<1>4. freePositions \in FreeLists
    BY DEF RInv, BInv, TypeOK, FreeLists
<1>5. ASSUME Inserting(th)'
      PROVE  /\ Place(th)' = Promise!Rounds(before', request'[th].size)[0]
             /\ 0 \in 0 .. Cardinality(before')
             /\ Cardinality(freePositions') = Cardinality(before') - 0
    <2>1. request[th].type = "insert_table"
        BY <1>1, <1>5 DEF Inserting, Works
    <2>2. request[th].size \in Nat /\ left'[th] = request[th].size
        BY <2>1, RequestFields DEF Lock, RInv, BInv, TypeOK
    <2>3. /\ Cardinality(freePositions) \in Nat
          /\ Promise!Rounds(freePositions, request[th].size)[0]
                = [free |-> freePositions, left |-> request[th].size,
                   parts |-> <<>>]
        BY <1>4, <2>2, RoundsGoOn
    <2>4. Place(th)' = [free |-> freePositions, left |-> request[th].size,
                        parts |-> <<>>]
        BY <1>1, <1>2, <2>2 DEF Place
    <2> QED
        BY <1>1, <2>3, <2>4
<1> QED
    BY <1>1, <1>3, <1>5 DEF RInv, PlacesLikeMaster

LEMMA NextKeepsRInv == RInv /\ [Next]_vars => RInv'
<1> SUFFICES ASSUME RInv, [Next]_vars
             PROVE  /\ IsFiniteSet(freePositions')
                    /\ IsFiniteSet(before')
                    /\ PlacesLikeMaster'
    BY NextKeepsBInv DEF RInv
<1>1. ASSUME NEW th \in Threads, NEW req, Receive(th, req)
      PROVE  /\ IsFiniteSet(freePositions')
             /\ IsFiniteSet(before')
             /\ PlacesLikeMaster'
    <2>1. UNCHANGED <<freePositions, before, left, chunks>>
        BY <1>1 DEF Receive, balancer
    <2>2. \A other \in Threads :
             /\ Inserting(other)' <=> Inserting(other)
             /\ Inserting(other) => request'[other] = request[other]
        BY <1>1 DEF Receive, RInv, BInv, TypeOK, Inserting, Works
    <2> QED
        BY <2>1, <2>2 DEF RInv, PlacesLikeMaster, Place
<1>2. CASE KillAndRestart
    BY <1>2, FS_EmptySet, NobodyPlaces
       DEF KillAndRestart, PlacesLikeMaster, Inserting, Works
<1>3. CASE UNCHANGED vars
    BY <1>3 DEF vars, balancer, RInv, PlacesLikeMaster, Place, Inserting, Works
<1> QED
    BY <1>1, <1>2, <1>3, LockKeepsRInv, WorkKeepsRInv
       DEF Next, ReceiveHeartbeat, ReceiveQuery, ReceiveRemove, ReceiveInsert

LEMMA LoopInvariance == Spec => []RInv
BY InitRInv, NextKeepsRInv, PTL DEF Spec

-----------------------------------------------------------------------------
(* The balancer implements module Master.                                  *)

\* The free list as the other operations see it.
SeenFree == IF Placing THEN before ELSE freePositions

LEMMA MasterSame ==
    UNCHANGED <<chunk2Free, SeenFree, partitions, Frozen>>
        => UNCHANGED Promise!master
BY DEF Promise!master, SeenFree

LEMMA InitImplements == Init => Promise!MasterInit
BY DEF Init, Promise!MasterInit, Placing, Frozen, Works

\* Who works is alone, and the master is not frozen.
LEMMA WorkerSees ==
    ASSUME RInv, NEW th \in Threads, pc[th] = "work"
    PROVE  /\ ~Frozen
           /\ Placing <=> Inserting(th)
           /\ \A other \in Threads : other # th => pc[other] \notin {"work", "relock"}
<1>1. \A other \in Threads : other # th => pc[other] \notin {"work", "relock"}
    BY WorksAlone DEF RInv, BInv
<1> QED
    BY <1>1 DEF Frozen, Placing, Inserting, Works

\* At its end nobody works.
LEMMA DoneSees ==
    ASSUME RInv, NEW th \in Threads, pc[th] = "work", Done(th)
    PROVE  ~Frozen' /\ ~Placing' /\ SeenFree' = freePositions'
<1>1. \A other \in Threads : pc'[other] \notin {"work", "relock"}
    BY WorkerSees DEF Done, RInv, BInv, TypeOK
<1> QED
    BY <1>1 DEF Frozen, Placing, Works, SeenFree

\* What the loop has come to when it is over.
LEMMA LoopIsPlacement ==
    ASSUME RInv, NEW th \in Threads, Inserting(th), Over(Place(th))
    PROVE  Promise!Placement(SeenFree, request[th].size) = Place(th)
<1>1. PICK n \in 0 .. Cardinality(before) :
         Place(th) = Promise!Rounds(before, request[th].size)[n]
    BY DEF RInv, PlacesLikeMaster
<1>2. request[th].size \in Nat
    BY RequestFields DEF RInv, BInv, TypeOK, Inserting, Works
<1>3. before \in FreeLists
    BY DEF RInv, BInv, TypeOK, FreeLists
<1>4. Promise!Placement(before, request[th].size) = Place(th)
    BY <1>1, <1>2, <1>3, RoundsEnd
<1>5. SeenFree = before
    BY DEF SeenFree, Placing, Inserting
<1> QED
    BY <1>4, <1>5

LEMMA ReceiveImplements ==
    ASSUME RInv, NEW th \in Threads, NEW req, Receive(th, req)
    PROVE  UNCHANGED Promise!master
<1>1. /\ Frozen' <=> Frozen
      /\ Placing' <=> Placing
    BY DEF Receive, Frozen, Placing, Works, RInv, BInv, TypeOK
<1>2. Frozen' = Frozen
    BY <1>1 DEF Frozen
<1> QED
    BY <1>1, <1>2, MasterSame DEF Receive, balancer, SeenFree

LEMMA LockImplements ==
    ASSUME RInv, NEW th \in Threads, Lock(th)
    PROVE  UNCHANGED Promise!master
<1>1. \A other \in Threads : pc[other] \notin {"work", "relock"}
    BY DEF Lock, RInv, BInv, OneAtATime
<1>2. ~Frozen /\ ~Placing
    BY <1>1 DEF Frozen, Placing, Works
<1>3. ~Frozen'
    BY <1>1 DEF Lock, Frozen, RInv, BInv, TypeOK
<1>4. SeenFree' = freePositions /\ SeenFree = freePositions
    BY <1>2 DEF Lock, balancer, SeenFree
<1>5. Frozen' = Frozen
    BY <1>2, <1>3 DEF Frozen
<1> QED
    BY <1>4, <1>5, MasterSame DEF Lock, balancer

LEMMA OnUpdateImplements ==
    ASSUME RInv, NEW th \in Threads, OnUpdate(th)
    PROVE  Promise!MasterNext
<1> DEFINE c == request[th].chunk
<1>1. pc[th] = "work" /\ request[th].type = "hearbeat" /\ Done(th)
    BY DEF OnUpdate, Works
<1>2. c \in Chunks
    BY <1>1, RequestFields DEF RInv, BInv, TypeOK
<1>3. ~Frozen /\ ~Placing
    BY <1>1, WorkerSees DEF Inserting, Works
<1>4. ~Frozen' /\ ~Placing'
    BY <1>1, DoneSees
<1>5. Frozen' = Frozen
    BY <1>3, <1>4 DEF Frozen
<1>6. Promise!Report(c)
    BY <1>3, <1>4, <1>5 DEF OnUpdate, Promise!Report
<1> QED
    BY <1>2, <1>6 DEF Promise!MasterNext

LEMMA InsertImplements ==
    ASSUME RInv, NEW th \in Threads, InsertFails(th) \/ StorePartition(th)
    PROVE  Promise!MasterNext
<1> DEFINE t == request[th].table
           size == request[th].size
<1>1. /\ pc[th] = "work" /\ Done(th) /\ Inserting(th)
      /\ UNCHANGED <<chunk2Free, freePositions>>
    BY DEF InsertFails, StorePartition, Works, Inserting, balancer
<1>2. t \in Tables /\ size \in Sizes
    BY <1>1, RequestFields DEF RInv, BInv, TypeOK, Inserting, Works
<1>3. ~Frozen /\ Placing
    BY <1>1, WorkerSees
<1>4. ~Frozen' /\ ~Placing' /\ SeenFree' = freePositions
    BY <1>1, DoneSees
<1>5. Frozen' = Frozen
    BY <1>3, <1>4 DEF Frozen
<1>6. Promise!Placement(SeenFree, size) = Place(th)
    BY <1>1, LoopIsPlacement DEF InsertFails, StorePartition, Over, Place
<1>7. Place(th).free = freePositions /\ Place(th).left = left[th]
      /\ Place(th).parts = chunks[th]
    BY DEF Place
<1>8. partitions' = IF left[th] = 0 THEN [partitions EXCEPT ![t] = chunks[th]]
                    ELSE partitions
    BY DEF InsertFails, StorePartition, RInv, BInv, TypeOK, balancer
<1>9. Promise!InsertTable(t, size)
    BY <1>1, <1>3, <1>4, <1>5, <1>6, <1>7, <1>8
       DEF Promise!InsertTable, Promise!Enough, SeenFree
<1> QED
    BY <1>2, <1>9 DEF Promise!MasterNext

LEMMA GetPartitionImplements ==
    ASSUME RInv, NEW th \in Threads, GetPartition(th)
    PROVE  UNCHANGED Promise!master
<1>1. /\ pc[th] = "work" /\ Done(th) /\ ~Inserting(th)
      /\ UNCHANGED <<chunk2Free, freePositions, partitions>>
    BY DEF GetPartition, Works, Inserting, balancer
<1>2. ~Frozen /\ ~Placing /\ ~Frozen' /\ SeenFree' = freePositions'
    BY <1>1, WorkerSees, DoneSees
<1>3. Frozen' = Frozen /\ SeenFree = freePositions
    BY <1>2 DEF Frozen, SeenFree
<1> QED
    BY <1>1, <1>2, <1>3, MasterSame

LEMMA PlacePartImplements ==
    ASSUME RInv, NEW th \in Threads, PlacePart(th)
    PROVE  UNCHANGED Promise!master
<1>1. UNCHANGED <<chunk2Free, partitions, pc, request, before>>
    BY DEF PlacePart
<1>2. Placing /\ Placing' /\ Frozen' = Frozen
    BY <1>1 DEF PlacePart, Placing, Works, Frozen
<1> QED
    BY <1>1, <1>2, MasterSame DEF SeenFree

LEMMA EraseTableImplements ==
    ASSUME RInv, NEW th \in Threads, EraseTable(th)
    PROVE  Promise!MasterNext
<1>1. pc[th] = "work" /\ ~Inserting(th)
    BY DEF EraseTable, Works, Inserting
<1>2. ~Frozen /\ ~Placing
    BY <1>1, WorkerSees
<1>3. Frozen' = TRUE
    BY DEF EraseTable, Frozen, RInv, BInv, TypeOK
<1>4. ~Placing'
    BY <1>1, WorkerSees DEF EraseTable, Placing, Works, RInv, BInv, TypeOK
<1>5. Promise!EraseTable
    BY <1>2, <1>3, <1>4 DEF EraseTable, Promise!EraseTable, balancer
<1> QED
    BY <1>5 DEF Promise!MasterNext

LEMMA RestartImplements ==
    ASSUME KillAndRestart
    PROVE  Promise!MasterNext
<1>1. Frozen' = FALSE /\ ~Placing'
    BY DEF KillAndRestart, Frozen, Placing, Works
<1>2. Promise!Restart
    BY <1>1 DEF KillAndRestart, Promise!Restart
<1> QED
    BY <1>2 DEF Promise!MasterNext

LEMMA NextImplements ==
    RInv /\ [Next]_vars => [Promise!MasterNext]_Promise!master
<1> SUFFICES ASSUME RInv, [Next]_vars
             PROVE  Promise!MasterNext \/ UNCHANGED Promise!master
    OBVIOUS
<1>1. ASSUME NEW th \in Threads, NEW req, Receive(th, req)
      PROVE  UNCHANGED Promise!master
    BY <1>1, ReceiveImplements
<1>2. ASSUME NEW th \in Threads, Work(th)
      PROVE  Promise!MasterNext \/ UNCHANGED Promise!master
    BY <1>2, OnUpdateImplements, InsertImplements, GetPartitionImplements,
       PlacePartImplements, EraseTableImplements DEF Work
<1>3. CASE UNCHANGED vars
    <2>1. SeenFree' = SeenFree /\ Frozen' = Frozen
        BY <1>3 DEF vars, balancer, SeenFree, Frozen, Placing, Works
    <2> QED
        BY <1>3, <2>1, MasterSame DEF vars, balancer
<1> QED
    BY <1>1, <1>2, <1>3, LockImplements, RestartImplements
       DEF Next, ReceiveHeartbeat, ReceiveQuery, ReceiveRemove, ReceiveInsert

\* The balancer, with its threads, its mutex and the rounds of InsertTable,
\* implements module Master: every request takes effect in one step, with what
\* an insert_table chose computed from the free list it found.
THEOREM Refinement == Spec => ImplementsMaster
<1>1. RInv /\ [Next]_vars => [Promise!MasterNext]_Promise!master
    BY NextImplements
<1> QED
    BY <1>1, InitImplements, LoopInvariance, PTL
       DEF Spec, ImplementsMaster, Promise!MasterSpec

-----------------------------------------------------------------------------
(* What a chunk is promised                                                *)

\* The bytes on chunk c of the lists of parts that f has for the members of S,
\* and those of the free entries E.
PartsOn(f, S, c) == [x \in S |-> BytesOn(f[x], c)]
FreeOf(E, c) == {e \in E : e[2] = c}
FreeOn(E, c) == [e \in FreeOf(E, c) |-> e[1]]
Bytes == [e \in Entry |-> e[1]]

LEMMA PartsNumbers ==
    ASSUME NEW S, IsFiniteSet(S), NEW f, \A x \in S : f[x] \in Seq(Part),
           NEW c \in Chunks
    PROVE  /\ SumFunction(PartsOn(f, S, c)) = Total(PartsOn(f, S, c), S)
           /\ SumFunction(PartsOn(f, S, c)) \in Nat
           /\ \A x \in S : /\ PartsOn(f, S, c)[x] = BytesOn(f[x], c)
                           /\ PartsOn(f, S, c)[x] \in Nat
<1>1. \A x \in S : BytesOn(f[x], c) \in Nat
    BY BytesAreNumbers
<1>2. /\ DOMAIN PartsOn(f, S, c) = S
      /\ \A x \in S : PartsOn(f, S, c)[x] = BytesOn(f[x], c)
    BY DEF PartsOn
<1>3. \A x \in S : PartsOn(f, S, c)[x] \in Nat
    BY <1>1, <1>2
<1>4. SumFunction(PartsOn(f, S, c)) = Total(PartsOn(f, S, c), S)
    BY <1>2 DEF SumFunction, Total
<1> QED
    BY <1>1, <1>2, <1>3, <1>4, SumOfFirst

\* Fewer lists or less in them are no more bytes.
LEMMA PartsFewer ==
    ASSUME NEW S, IsFiniteSet(S), NEW f, \A x \in S : f[x] \in Seq(Part),
           NEW R, R \subseteq S, NEW k, \A x \in R : k[x] \in {f[x], <<>>},
           NEW c \in Chunks
    PROVE  SumFunction(PartsOn(k, R, c)) <= SumFunction(PartsOn(f, S, c))
<1>1. IsFiniteSet(R) /\ \A x \in R : k[x] \in Seq(Part)
    <2>1. <<>> \in Seq(Part)
        OBVIOUS
    <2> QED
        BY <2>1, FS_Subset
<1>2. \A x \in R : BytesOn(k[x], c) \in {BytesOn(f[x], c), 0}
    BY BytesOfNothing
<1>3. /\ SumFunction(PartsOn(f, S, c)) = Total(PartsOn(f, S, c), S)
      /\ \A x \in S : /\ PartsOn(f, S, c)[x] = BytesOn(f[x], c)
                      /\ PartsOn(f, S, c)[x] \in Nat
    BY PartsNumbers
<1>4. /\ SumFunction(PartsOn(k, R, c)) = Total(PartsOn(k, R, c), R)
      /\ \A x \in R : /\ PartsOn(k, R, c)[x] = BytesOn(k[x], c)
                      /\ PartsOn(k, R, c)[x] \in Nat
    BY <1>1, PartsNumbers
<1>5. \A x \in R : PartsOn(k, R, c)[x] <= PartsOn(f, S, c)[x]
    <2> TAKE x \in R
    <2>1. x \in S
        OBVIOUS
    <2> QED
        BY <1>2, <1>3, <1>4, <2>1
<1> QED
    BY <1>3, <1>4, <1>5, SumBelow

\* One list that is changed.
LEMMA PartsChanged ==
    ASSUME NEW S, IsFiniteSet(S), NEW f, \A x \in S : f[x] \in Seq(Part),
           NEW y \in S, NEW k, k[y] \in Seq(Part),
           \A x \in S \ {y} : k[x] = f[x],
           NEW c \in Chunks
    PROVE  SumFunction(PartsOn(k, S, c)) + BytesOn(f[y], c)
             = SumFunction(PartsOn(f, S, c)) + BytesOn(k[y], c)
<1>1. \A x \in S : k[x] \in Seq(Part)
    OBVIOUS
<1>2. /\ SumFunction(PartsOn(f, S, c)) = Total(PartsOn(f, S, c), S)
      /\ \A x \in S : /\ PartsOn(f, S, c)[x] = BytesOn(f[x], c)
                      /\ PartsOn(f, S, c)[x] \in Nat
    BY PartsNumbers
<1>3. /\ SumFunction(PartsOn(k, S, c)) = Total(PartsOn(k, S, c), S)
      /\ \A x \in S : /\ PartsOn(k, S, c)[x] = BytesOn(k[x], c)
                      /\ PartsOn(k, S, c)[x] \in Nat
    BY <1>1, PartsNumbers
<1>4. \A x \in S \ {y} : PartsOn(k, S, c)[x] = PartsOn(f, S, c)[x]
    BY <1>2, <1>3
<1>5. Total(PartsOn(k, S, c), S) + PartsOn(f, S, c)[y]
        = Total(PartsOn(f, S, c), S) + PartsOn(k, S, c)[y]
    BY <1>2, <1>3, <1>4, SumChange
<1> QED
    BY <1>2, <1>3, <1>5

\* One list that is put in.
LEMMA PartsAdded ==
    ASSUME NEW S, IsFiniteSet(S), NEW f, \A x \in S : f[x] \in Seq(Part),
           NEW y, y \notin S, NEW k, k[y] \in Seq(Part),
           \A x \in S : k[x] = f[x],
           NEW c \in Chunks
    PROVE  SumFunction(PartsOn(k, S \cup {y}, c))
             = SumFunction(PartsOn(f, S, c)) + BytesOn(k[y], c)
<1> DEFINE K == PartsOn(k, S \cup {y}, c)
<1>1. IsFiniteSet(S \cup {y}) /\ \A x \in S \cup {y} : k[x] \in Seq(Part)
    BY FS_AddElement
<1>2. /\ SumFunction(PartsOn(f, S, c)) = Total(PartsOn(f, S, c), S)
      /\ SumFunction(PartsOn(f, S, c)) \in Nat
      /\ \A x \in S : /\ PartsOn(f, S, c)[x] = BytesOn(f[x], c)
                      /\ PartsOn(f, S, c)[x] \in Nat
    BY PartsNumbers
<1>3. /\ SumFunction(K) = Total(K, S \cup {y})
      /\ \A x \in S \cup {y} : K[x] = BytesOn(k[x], c) /\ K[x] \in Nat
    BY <1>1, PartsNumbers
<1>4. \A x \in S : K[x] \in Nat /\ K[x] = PartsOn(f, S, c)[x]
    BY <1>2, <1>3
<1>5. K[y] \in Nat /\ K[y] = BytesOn(k[y], c)
    BY <1>3
<1> HIDE DEF K
<1>6. Total(K, S \cup {y}) = K[y] + Total(K, S)
    BY <1>4, <1>5, SumInsert
<1>7. Total(K, S) = Total(PartsOn(f, S, c), S)
    BY <1>2, <1>4, SumSame
<1> QED
    BY <1>2, <1>3, <1>5, <1>6, <1>7 DEF K

LEMMA FreeNumbers ==
    ASSUME NEW E, E \subseteq Entry, IsFiniteSet(E), NEW c \in Chunks
    PROVE  /\ IsFiniteSet(FreeOf(E, c))
           /\ FreeOf(E, c) \subseteq Entry
           /\ \A e \in Entry : Bytes[e] = e[1] /\ Bytes[e] \in Nat
           /\ SumFunction(FreeOn(E, c)) = Total(Bytes, FreeOf(E, c))
           /\ SumFunction(FreeOn(E, c)) \in Nat
<1>1. FreeOf(E, c) \in SUBSET E
    BY DEF FreeOf
<1>2. IsFiniteSet(FreeOf(E, c)) /\ FreeOf(E, c) \subseteq Entry
    BY <1>1, FS_Subset
<1>3. \A e \in Entry : Bytes[e] = e[1] /\ Bytes[e] \in Nat
    BY DEF Bytes, Entry
<1>4. /\ DOMAIN FreeOn(E, c) = FreeOf(E, c)
      /\ \A e \in FreeOf(E, c) : FreeOn(E, c)[e] = e[1]
    BY DEF FreeOn
<1>5. SumFunction(FreeOn(E, c)) = Total(FreeOn(E, c), FreeOf(E, c))
    BY <1>4 DEF SumFunction, Total
<1>6. \A e \in FreeOf(E, c) : Bytes[e] \in Nat /\ FreeOn(E, c)[e] = Bytes[e]
    BY <1>2, <1>3, <1>4
<1>7. Total(FreeOn(E, c), FreeOf(E, c)) = Total(Bytes, FreeOf(E, c))
    BY <1>2, <1>6, SumSame
<1>8. Total(Bytes, FreeOf(E, c)) \in Nat
    BY <1>2, <1>6, SumOfFirst
<1> QED
    BY <1>2, <1>3, <1>5, <1>7, <1>8

LEMMA FreeTaken ==
    ASSUME NEW E, E \subseteq Entry, IsFiniteSet(E), NEW x, NEW c \in Chunks
    PROVE  /\ SumFunction(FreeOn(E \ {x}, c)) <= SumFunction(FreeOn(E, c))
           /\ x \in E =>
                SumFunction(FreeOn(E, c)) =
                  SumFunction(FreeOn(E \ {x}, c)) + IF x[2] = c THEN x[1] ELSE 0
<1>1. IsFiniteSet(E \ {x}) /\ E \ {x} \subseteq Entry
    BY FS_RemoveElement
<1>2. /\ IsFiniteSet(FreeOf(E, c)) /\ FreeOf(E, c) \subseteq Entry
      /\ \A e \in Entry : Bytes[e] = e[1] /\ Bytes[e] \in Nat
      /\ SumFunction(FreeOn(E, c)) = Total(Bytes, FreeOf(E, c))
      /\ SumFunction(FreeOn(E, c)) \in Nat
    BY FreeNumbers
<1>3. /\ SumFunction(FreeOn(E \ {x}, c)) = Total(Bytes, FreeOf(E \ {x}, c))
      /\ SumFunction(FreeOn(E \ {x}, c)) \in Nat
    BY <1>1, FreeNumbers
<1>4. FreeOf(E \ {x}, c) = FreeOf(E, c) \ {x}
    BY DEF FreeOf
<1>5. \A e \in FreeOf(E, c) : Bytes[e] \in Nat
    BY <1>2
<1>6. CASE x \in FreeOf(E, c)
    <2>1. Total(Bytes, FreeOf(E, c)) = Bytes[x] + Total(Bytes, FreeOf(E, c) \ {x})
        BY <1>2, <1>5, <1>6, SumRemove
    <2>2. x \in Entry /\ x[2] = c
        BY <1>2, <1>6 DEF FreeOf
    <2>3. Bytes[x] = x[1] /\ x[1] \in Nat
        BY <1>2, <2>2
    <2>4. SumFunction(FreeOn(E, c)) = x[1] + SumFunction(FreeOn(E \ {x}, c))
        BY <1>2, <1>3, <1>4, <2>1, <2>3
    <2> QED
        BY <1>2, <1>3, <2>2, <2>3, <2>4
<1>7. CASE x \notin FreeOf(E, c)
    <2>1. FreeOf(E, c) \ {x} = FreeOf(E, c)
        BY <1>7
    <2>2. x \in E => x[2] # c
        BY <1>7 DEF FreeOf
    <2>3. SumFunction(FreeOn(E, c)) = SumFunction(FreeOn(E \ {x}, c))
        BY <1>2, <1>3, <1>4, <2>1
    <2> QED
        BY <1>2, <2>2, <2>3
<1> QED
    BY <1>6, <1>7

\* An entry that is there already adds nothing.
LEMMA FreePut ==
    ASSUME NEW E, E \subseteq Entry, IsFiniteSet(E), NEW x \in Entry,
           NEW c \in Chunks
    PROVE  SumFunction(FreeOn(E \cup {x}, c)) <=
             SumFunction(FreeOn(E, c)) + IF x[2] = c THEN x[1] ELSE 0
<1>1. IsFiniteSet(E \cup {x}) /\ E \cup {x} \subseteq Entry
    BY FS_AddElement
<1>2. /\ IsFiniteSet(FreeOf(E, c)) /\ FreeOf(E, c) \subseteq Entry
      /\ \A e \in Entry : Bytes[e] = e[1] /\ Bytes[e] \in Nat
      /\ SumFunction(FreeOn(E, c)) = Total(Bytes, FreeOf(E, c))
      /\ SumFunction(FreeOn(E, c)) \in Nat
    BY FreeNumbers
<1>3. SumFunction(FreeOn(E \cup {x}, c)) = Total(Bytes, FreeOf(E \cup {x}, c))
    BY <1>1, FreeNumbers
<1>4. x[1] \in Nat
    BY DEF Entry
<1>5. CASE x[2] # c \/ x \in E
    <2>1. FreeOf(E \cup {x}, c) = FreeOf(E, c)
        BY <1>5 DEF FreeOf
    <2> QED
        BY <1>2, <1>3, <1>4, <2>1
<1>6. CASE x[2] = c /\ x \notin E
    <2>1. /\ FreeOf(E \cup {x}, c) = FreeOf(E, c) \cup {x}
          /\ x \notin FreeOf(E, c)
        BY <1>6 DEF FreeOf
    <2>2. \A e \in FreeOf(E, c) : Bytes[e] \in Nat
        BY <1>2
    <2>3. Total(Bytes, FreeOf(E, c) \cup {x})
            = Bytes[x] + Total(Bytes, FreeOf(E, c))
        BY <1>2, <2>1, <2>2, SumInsert
    <2>4. Bytes[x] = x[1]
        BY <1>2
    <2>5. SumFunction(FreeOn(E \cup {x}, c)) = x[1] + SumFunction(FreeOn(E, c))
        BY <1>2, <1>3, <2>1, <2>3, <2>4
    <2> QED
        BY <1>2, <1>4, <1>6, <2>5
<1> QED
    BY <1>5, <1>6

\* The invariant: with PlacedWithinReports, that few tables are stored.
Room ==
    /\ IsFiniteSet(Stored)
    /\ PlacedWithinReports

\* The three sums of PlacedWithinReports, in this step and the next.
LEMMA RoomIs ==
    ASSUME NEW c \in Chunks
    PROVE  /\ BytesStored(c) = SumFunction(PartsOn(partitions, Stored, c))
           /\ BytesBeingPlaced(c) = SumFunction(PartsOn(chunks, Threads, c))
           /\ BytesFree(c) = SumFunction(FreeOn(freePositions, c))
           /\ BytesStored(c)' = SumFunction(PartsOn(partitions', Stored', c))
           /\ BytesBeingPlaced(c)' = SumFunction(PartsOn(chunks', Threads, c))
           /\ BytesFree(c)' = SumFunction(FreeOn(freePositions', c))
BY DEF BytesStored, BytesBeingPlaced, BytesFree, PartsOn, FreeOn, FreeOf

LEMMA RoomTypes ==
    ASSUME RInv
    PROVE  /\ freePositions \subseteq Entry
           /\ IsFiniteSet(freePositions)
           /\ \A th \in Threads : chunks[th] \in Seq(Part)
           /\ \A t \in Stored : partitions[t] \in Seq(Part)
           /\ \A c \in Chunks : reports[c] \in Nat /\ Capacity[c] \in Nat
BY DEF RInv, BInv, TypeOK, Stored

LEMMA RoomNumbers ==
    ASSUME RInv, IsFiniteSet(Stored), NEW c \in Chunks
    PROVE  /\ BytesStored(c) \in Nat
           /\ BytesBeingPlaced(c) \in Nat
           /\ BytesFree(c) \in Nat
<1>1. SumFunction(PartsOn(partitions, Stored, c)) \in Nat
    BY RoomTypes, PartsNumbers
<1>2. SumFunction(PartsOn(chunks, Threads, c)) \in Nat
    BY RoomTypes, PartsNumbers
<1>3. SumFunction(FreeOn(freePositions, c)) \in Nat
    BY RoomTypes, FreeNumbers
<1> QED
    BY <1>1, <1>2, <1>3, RoomIs

\* The same one step later.
LEMMA RoomNumbersNext ==
    ASSUME RInv', IsFiniteSet(Stored'), NEW c \in Chunks
    PROVE  /\ BytesStored(c)' \in Nat
           /\ BytesBeingPlaced(c)' \in Nat
           /\ BytesFree(c)' \in Nat
<1>0. /\ freePositions' \subseteq Entry
      /\ IsFiniteSet(freePositions')
      /\ \A th \in Threads : chunks'[th] \in Seq(Part)
      /\ \A t \in Stored' : partitions'[t] \in Seq(Part)
    BY DEF RInv, BInv, TypeOK, Stored
<1>1. SumFunction(PartsOn(partitions', Stored', c)) \in Nat
    BY <1>0, PartsNumbers
<1>2. SumFunction(PartsOn(chunks', Threads, c)) \in Nat
    BY <1>0, PartsNumbers
<1>3. SumFunction(FreeOn(freePositions', c)) \in Nat
    BY <1>0, FreeNumbers
<1> QED
    BY <1>1, <1>2, <1>3, RoomIs

\* Steps that store no table: what is stored may get less.
LEMMA StoredNoMore ==
    ASSUME RInv, Room, Stored' \subseteq Stored,
           \A t \in Stored' : partitions'[t] = partitions[t]
    PROVE  /\ IsFiniteSet(Stored')
           /\ \A c \in Chunks : BytesStored(c)' <= BytesStored(c)
<1>1. IsFiniteSet(Stored')
    BY FS_Subset DEF Room
<1>2. ASSUME NEW c \in Chunks PROVE BytesStored(c)' <= BytesStored(c)
    <2>1. SumFunction(PartsOn(partitions', Stored', c))
            <= SumFunction(PartsOn(partitions, Stored, c))
        BY RoomTypes, PartsFewer DEF Room
    <2> QED
        BY <2>1, RoomIs
<1> QED
    BY <1>1, <1>2

\* A thread that stops has no parts any more, the others keep theirs.
LEMMA PlacedNoMore ==
    ASSUME RInv, \A th \in Threads : chunks'[th] \in {chunks[th], <<>>}
    PROVE  \A c \in Chunks : BytesBeingPlaced(c)' <= BytesBeingPlaced(c)
<1> TAKE c \in Chunks
<1>1. SumFunction(PartsOn(chunks', Threads, c))
        <= SumFunction(PartsOn(chunks, Threads, c))
    BY RoomTypes, PartsFewer
<1> QED
    BY <1>1, RoomIs

LEMMA DonePlacesNoMore ==
    ASSUME RInv, NEW th \in Threads, Done(th)
    PROVE  \A c \in Chunks : BytesBeingPlaced(c)' <= BytesBeingPlaced(c)
<1>1. \A other \in Threads : chunks'[other] \in {chunks[other], <<>>}
    BY DEF Done, RInv, BInv, TypeOK
<1> QED
    BY <1>1, PlacedNoMore

\* Steps that give nothing to a chunk and count no report.
LEMMA QuietKeepsRoom ==
    ASSUME RInv, RInv', Room, Stored' \subseteq Stored,
           \A t \in Stored' : partitions'[t] = partitions[t],
           \A th \in Threads : chunks'[th] \in {chunks[th], <<>>},
           freePositions' \in {freePositions, {}},
           reports' = reports
    PROVE  Room'
<1>1. IsFiniteSet(Stored')
    BY StoredNoMore
<1>2. ASSUME NEW c \in Chunks, reports'[c] < MaxReports
      PROVE  BytesStored(c)' + BytesBeingPlaced(c)' + BytesFree(c)'
               <= Capacity[c] * reports'[c]
    <2>1. BytesStored(c)' <= BytesStored(c)
        BY StoredNoMore
    <2>2. BytesBeingPlaced(c)' <= BytesBeingPlaced(c)
        BY PlacedNoMore
    <2>3. BytesFree(c)' <= BytesFree(c)
        <3>1. BytesFree(c) \in Nat
            BY RoomNumbers DEF Room
        <3>2. CASE freePositions' = freePositions
            BY <3>1, <3>2, RoomIs
        <3>3. CASE freePositions' = {}
            <4>1. FreeOf({}, c) = {}
                BY DEF FreeOf
            <4>2. SumFunction(FreeOn({}, c)) = 0
                <5>1. DOMAIN FreeOn({}, c) = {}
                    BY <4>1 DEF FreeOn
                <5> QED
                    BY <5>1, SumOfNone DEF SumFunction, Total
            <4> QED
                BY <3>1, <3>3, <4>2, RoomIs
        <3> QED
            BY <3>2, <3>3
    <2>4. BytesStored(c) + BytesBeingPlaced(c) + BytesFree(c)
            <= Capacity[c] * reports[c]
        BY <1>2 DEF Room, PlacedWithinReports
    <2>5. /\ BytesStored(c) \in Nat /\ BytesStored(c)' \in Nat
          /\ BytesBeingPlaced(c) \in Nat /\ BytesBeingPlaced(c)' \in Nat
          /\ BytesFree(c) \in Nat /\ BytesFree(c)' \in Nat
        BY <1>1, RoomNumbers, RoomNumbersNext DEF Room
    <2>6. Capacity[c] * reports[c] \in Nat
        BY RoomTypes
    <2> QED
        BY <2>1, <2>2, <2>3, <2>4, <2>5, <2>6
<1> QED
    BY <1>1, <1>2 DEF Room, PlacedWithinReports

\* A report adds at most the capacity of its chunk to the free list.
LEMMA OnUpdateKeepsRoom ==
    ASSUME RInv, RInv', Room, NEW th \in Threads, OnUpdate(th)
    PROVE  Room'
<1> DEFINE r == request[th].chunk
           E == freePositions \ {<<chunk2Free[r], r>>}
<1>0. r \in Chunks
    BY RequestFields DEF OnUpdate, Works, RInv, BInv, TypeOK
<1>1. /\ Done(th)
      /\ partitions' = partitions
      /\ freePositions' = E \cup {<<Capacity[r], r>>}
      /\ reports' = [reports EXCEPT ![r] = IF reports[r] < MaxReports
                                           THEN reports[r] + 1 ELSE reports[r]]
    BY DEF OnUpdate
<1>2. Stored' = Stored
    BY <1>1 DEF Stored
<1>3. E \subseteq Entry /\ IsFiniteSet(E)
    BY RoomTypes, FS_RemoveElement
<1>4. \A c \in Chunks : SumFunction(FreeOn(E, c)) <= BytesFree(c)
    BY RoomTypes, FreeTaken, RoomIs
<1> HIDE DEF r, E
<1>5. ASSUME NEW c \in Chunks, reports'[c] < MaxReports
      PROVE  BytesStored(c)' + BytesBeingPlaced(c)' + BytesFree(c)'
               <= Capacity[c] * reports'[c]
    <2>0. IsFiniteSet(Stored)
        BY DEF Room
    <2>1. /\ BytesStored(c) \in Nat /\ BytesStored(c)' \in Nat
          /\ BytesBeingPlaced(c) \in Nat /\ BytesBeingPlaced(c)' \in Nat
          /\ BytesFree(c) \in Nat /\ BytesFree(c)' \in Nat
        BY <1>2, <2>0, RoomNumbers, RoomNumbersNext
    <2>2. BytesStored(c)' <= BytesStored(c)
        BY <1>1, <1>2, StoredNoMore
    <2>3. BytesBeingPlaced(c)' <= BytesBeingPlaced(c)
        BY <1>1, DonePlacesNoMore
    <2>4. BytesFree(c)' <= BytesFree(c) + IF r = c THEN Capacity[r] ELSE 0
        <3> DEFINE x == <<Capacity[r], r>>
        <3>1. x \in Entry /\ x[1] = Capacity[r] /\ x[2] = r
            BY <1>0 DEF Entry
        <3> HIDE DEF x
        <3>2. SumFunction(FreeOn(E \cup {x}, c))
                <= SumFunction(FreeOn(E, c)) + IF x[2] = c THEN x[1] ELSE 0
            BY <1>3, <3>1, FreePut
        <3>3. BytesFree(c)' = SumFunction(FreeOn(E \cup {x}, c))
            BY <1>1, RoomIs DEF x
        <3>4. SumFunction(FreeOn(E, c)) \in Nat
            BY <1>3, FreeNumbers
        <3>5. Capacity[r] \in Nat
            BY <1>0
        <3> QED
            BY <1>4, <2>1, <3>1, <3>2, <3>3, <3>4, <3>5
    <2>5. reports[c] \in Nat /\ Capacity[c] \in Nat
        BY RoomTypes
    <2>6. /\ reports[c] < MaxReports
          /\ reports'[c] = IF r = c THEN reports[c] + 1 ELSE reports[c]
        BY <1>0, <1>1, <1>5, <2>5 DEF RInv, BInv, TypeOK
    <2>7. BytesStored(c) + BytesBeingPlaced(c) + BytesFree(c)
            <= Capacity[c] * reports[c]
        BY <2>6 DEF Room, PlacedWithinReports
    <2>8. /\ Capacity[c] * (reports[c] + 1) = Capacity[c] * reports[c] + Capacity[c]
          /\ Capacity[c] * reports[c] \in Nat
        BY <2>5
    <2>9. CASE r = c
        <3>1. BytesFree(c)' <= BytesFree(c) + Capacity[c]
            BY <2>4, <2>9
        <3>2. Capacity[c] * reports'[c] = Capacity[c] * reports[c] + Capacity[c]
            BY <2>6, <2>8, <2>9
        <3> QED
            BY <2>1, <2>2, <2>3, <2>5, <2>7, <2>8, <3>1, <3>2
    <2>10. CASE r # c
        <3>1. BytesFree(c)' <= BytesFree(c)
            BY <2>1, <2>4, <2>10
        <3>2. Capacity[c] * reports'[c] = Capacity[c] * reports[c]
            BY <2>6, <2>10
        <3> QED
            BY <2>1, <2>2, <2>3, <2>7, <2>8, <3>1, <3>2
    <2> QED
        BY <2>9, <2>10
<1> QED
    BY <1>2, <1>5 DEF Room, PlacedWithinReports

\* What a round of InsertTable gives has left the free list.
LEMMA GiveKeepsRoom ==
    ASSUME RInv, RInv', Room, NEW th \in Threads, NEW entry \in Entry,
           NEW bytes \in Nat, Give(th, entry, bytes),
           UNCHANGED <<partitions, reports>>,
           \A c \in Chunks :
              BytesFree(c)' + (IF entry[2] = c THEN bytes ELSE 0) <= BytesFree(c)
    PROVE  Room'
<1> DEFINE part == [chunk |-> entry[2], bytes |-> bytes]
<1>1. Stored' = Stored
    BY DEF Stored
<1>2. /\ part \in Part /\ part.chunk = entry[2] /\ part.bytes = bytes
    BY DEF Part, Entry
<1>3. /\ chunks'[th] = Append(chunks[th], part)
      /\ \A other \in Threads \ {th} : chunks'[other] = chunks[other]
      /\ chunks[th] \in Seq(Part)
    BY DEF Give, RInv, BInv, TypeOK
<1> HIDE DEF part
<1>4. ASSUME NEW c \in Chunks, reports'[c] < MaxReports
      PROVE  BytesStored(c)' + BytesBeingPlaced(c)' + BytesFree(c)'
               <= Capacity[c] * reports'[c]
    <2>0. IsFiniteSet(Stored)
        BY DEF Room
    <2>1. /\ BytesStored(c) \in Nat /\ BytesStored(c)' \in Nat
          /\ BytesBeingPlaced(c) \in Nat /\ BytesBeingPlaced(c)' \in Nat
          /\ BytesFree(c) \in Nat /\ BytesFree(c)' \in Nat
        BY <1>1, <2>0, RoomNumbers, RoomNumbersNext
    <2>2. BytesStored(c)' <= BytesStored(c)
        BY <1>1, StoredNoMore
    <2>3. BytesBeingPlaced(c)' =
            BytesBeingPlaced(c) + IF entry[2] = c THEN bytes ELSE 0
        <3>1. /\ BytesOn(chunks[th], c) \in Nat
              /\ BytesOn(chunks'[th], c) =
                   BytesOn(chunks[th], c) + IF entry[2] = c THEN bytes ELSE 0
            <4>1. /\ BytesOn(chunks[th], c) \in Nat
                  /\ BytesOn(Append(chunks[th], part), c) =
                       BytesOn(chunks[th], c)
                         + IF part.chunk = c THEN part.bytes ELSE 0
                BY <1>2, <1>3, BytesOfAppend
            <4> QED
                BY <1>2, <1>3, <4>1
        <3>2. chunks'[th] \in Seq(Part)
            BY <1>2, <1>3
        <3>4. SumFunction(PartsOn(chunks', Threads, c)) + BytesOn(chunks[th], c)
                = SumFunction(PartsOn(chunks, Threads, c)) + BytesOn(chunks'[th], c)
            <4>1. \A x \in Threads : chunks[x] \in Seq(Part)
                BY RoomTypes
            <4>2. \A x \in Threads \ {th} : chunks'[x] = chunks[x]
                BY <1>3
            <4>3. IsFiniteSet(Threads)
                BY ThreadsAssumption
            <4> QED
                BY <3>2, <4>1, <4>2, <4>3, PartsChanged
        <3>5. BytesBeingPlaced(c)' + BytesOn(chunks[th], c)
                = BytesBeingPlaced(c) + BytesOn(chunks'[th], c)
            BY <3>4, RoomIs
        <3> QED
            BY <2>1, <3>1, <3>5
    <2>4. BytesFree(c)' + (IF entry[2] = c THEN bytes ELSE 0) <= BytesFree(c)
        OBVIOUS
    <2>5. BytesStored(c) + BytesBeingPlaced(c) + BytesFree(c)
            <= Capacity[c] * reports[c]
        BY <1>4 DEF Room, PlacedWithinReports
    <2>6. Capacity[c] * reports[c] \in Nat
        BY RoomTypes
    <2> QED
        BY <2>1, <2>2, <2>3, <2>4, <2>5, <2>6
<1> QED
    BY <1>1, <1>4 DEF Room, PlacedWithinReports

LEMMA PlacePartKeepsRoom ==
    ASSUME RInv, RInv', Room, NEW th \in Threads, PlacePart(th)
    PROVE  Room'
<1>1. PICK last \in freePositions : UseUp(th, last) \/ Shrink(th, last)
    BY DEF PlacePart
<1> DEFINE E == freePositions \ {last}
           On(c, n) == IF last[2] = c THEN n ELSE 0
<1>2. /\ last \in Entry /\ last[1] \in Nat /\ last[2] \in Chunks
      /\ left[th] \in Nat
    BY RoomTypes DEF Entry, RInv, BInv, TypeOK
<1>3. UNCHANGED <<partitions, reports>>
    BY DEF PlacePart, history
<1>4. E \subseteq Entry /\ IsFiniteSet(E)
    BY RoomTypes, FS_RemoveElement
<1>5. \A c \in Chunks : /\ SumFunction(FreeOn(E, c)) \in Nat
                        /\ BytesFree(c) =
                             SumFunction(FreeOn(E, c)) + On(c, last[1])
    <2> TAKE c \in Chunks
    <2>1. SumFunction(FreeOn(E, c)) \in Nat
        BY <1>4, FreeNumbers
    <2>2. SumFunction(FreeOn(freePositions, c)) =
            SumFunction(FreeOn(E, c)) + IF last[2] = c THEN last[1] ELSE 0
        <3>1. freePositions \subseteq Entry /\ IsFiniteSet(freePositions)
            BY RoomTypes
        <3> QED
            BY <3>1, FreeTaken
    <2>3. BytesFree(c) = SumFunction(FreeOn(freePositions, c))
        BY RoomIs
    <2> QED
        BY <2>1, <2>2, <2>3
<1>6. CASE UseUp(th, last)
    <2>1. freePositions' = E /\ Give(th, last, last[1])
        BY <1>6 DEF UseUp
    <2>2. ASSUME NEW c \in Chunks
          PROVE  BytesFree(c)' + On(c, last[1]) <= BytesFree(c)
        <3>1. BytesFree(c)' = SumFunction(FreeOn(E, c))
            BY <2>1, RoomIs
        <3>2. /\ SumFunction(FreeOn(E, c)) \in Nat
              /\ BytesFree(c) = SumFunction(FreeOn(E, c)) + On(c, last[1])
            BY <1>5
        <3>3. BytesFree(c) \in Nat
            BY RoomNumbers DEF Room
        <3> HIDE DEF On, E
        <3>4. BytesFree(c)' + On(c, last[1]) = BytesFree(c)
            BY <3>1, <3>2
        <3> QED
            BY <3>3, <3>4
    <2> QED
        BY <1>2, <1>3, <2>1, <2>2, GiveKeepsRoom
<1>7. CASE Shrink(th, last)
    <2> DEFINE x == <<last[1] - left[th], last[2]>>
    <2>1. /\ freePositions' = E \cup {x}
          /\ Give(th, last, left[th])
          /\ left[th] < last[1]
        BY <1>7 DEF Shrink
    <2>2. /\ x \in Entry /\ x[1] = last[1] - left[th] /\ x[2] = last[2]
          /\ x[1] \in Nat
        BY <1>2, <2>1 DEF Entry
    <2> HIDE DEF x, E
    <2>3. ASSUME NEW c \in Chunks
          PROVE  BytesFree(c)' + On(c, left[th]) <= BytesFree(c)
        <3>1. BytesFree(c)' = SumFunction(FreeOn(E \cup {x}, c))
            BY <2>1, RoomIs
        <3>2. SumFunction(FreeOn(E \cup {x}, c))
                <= SumFunction(FreeOn(E, c)) + IF x[2] = c THEN x[1] ELSE 0
            BY <1>4, <2>2, FreePut
        <3>3. SumFunction(FreeOn(E \cup {x}, c)) \in Nat
            <4>1. E \cup {x} \subseteq Entry /\ IsFiniteSet(E \cup {x})
                BY <1>4, <2>2, FS_AddElement
            <4> QED
                BY <4>1, FreeNumbers
        <3> QED
            BY <1>2, <1>5, <2>2, <3>1, <3>2, <3>3
    <2> QED
        BY <1>2, <1>3, <2>1, <2>3, GiveKeepsRoom
<1> QED
    BY <1>1, <1>6, <1>7

\* The parts of a table that is stored are those that were being placed.
LEMMA StorePartitionKeepsRoom ==
    ASSUME RInv, RInv', Room, NEW th \in Threads, StorePartition(th)
    PROVE  Room'
<1> DEFINE t == request[th].table
<1>0. t \in Tables
    BY RequestFields DEF StorePartition, Works, RInv, BInv, TypeOK
<1>1. /\ partitions' = [partitions EXCEPT ![t] = chunks[th]]
      /\ UNCHANGED <<freePositions, reports>>
      /\ Done(th)
    BY DEF StorePartition
<1> HIDE DEF t
<1>2. /\ partitions'[t] = chunks[th]
      /\ chunks[th] \in Seq(Part)
      /\ \A s \in Stored \ {t} : partitions'[s] = partitions[s]
      /\ Stored' \subseteq Stored \cup {t}
    BY <1>0, <1>1 DEF RInv, BInv, TypeOK, Stored
<1>3. /\ chunks'[th] = <<>>
      /\ \A other \in Threads \ {th} : chunks'[other] = chunks[other]
    BY <1>1 DEF Done, RInv, BInv, TypeOK
<1>4. IsFiniteSet(Stored) /\ IsFiniteSet(Stored \cup {t}) /\ IsFiniteSet(Stored')
    BY <1>2, FS_AddElement, FS_Subset DEF Room
<1>5. ASSUME NEW c \in Chunks, reports'[c] < MaxReports
      PROVE  BytesStored(c)' + BytesBeingPlaced(c)' + BytesFree(c)'
               <= Capacity[c] * reports'[c]
    <2>1. /\ BytesStored(c) \in Nat /\ BytesStored(c)' \in Nat
          /\ BytesBeingPlaced(c) \in Nat /\ BytesBeingPlaced(c)' \in Nat
          /\ BytesFree(c) \in Nat /\ BytesFree(c)' \in Nat
        BY <1>4, RoomNumbers, RoomNumbersNext
    <2>2. BytesOn(chunks[th], c) \in Nat
        BY <1>2, BytesAreNumbers
    <2>3. BytesStored(c)' <= BytesStored(c) + BytesOn(chunks[th], c)
        <3> DEFINE Whole == SumFunction(PartsOn(partitions', Stored \cup {t}, c))
        <3>1. Whole <= SumFunction(PartsOn(partitions, Stored, c))
                         + BytesOn(partitions'[t], c)
            <4>1. \A s \in Stored : partitions[s] \in Seq(Part)
                BY RoomTypes
            <4>2. partitions'[t] \in Seq(Part) /\ BytesOn(partitions'[t], c) \in Nat
                BY <1>2, <2>2
            <4>3. SumFunction(PartsOn(partitions, Stored, c)) \in Nat
                BY <2>1, RoomIs
            <4>4. CASE t \in Stored
                <5>1. Stored \cup {t} = Stored
                    BY <4>4
                <5>2. SumFunction(PartsOn(partitions', Stored, c))
                        + BytesOn(partitions[t], c)
                        = SumFunction(PartsOn(partitions, Stored, c))
                            + BytesOn(partitions'[t], c)
                    BY <1>2, <1>4, <4>1, <4>2, <4>4, PartsChanged
                <5>3. BytesOn(partitions[t], c) \in Nat
                    BY <4>1, <4>4, BytesAreNumbers
                <5>4. SumFunction(PartsOn(partitions', Stored, c)) \in Nat
                    BY <1>2, <1>4, <4>1, <4>2, PartsNumbers
                <5>5. SumFunction(PartsOn(partitions', Stored, c))
                        <= SumFunction(PartsOn(partitions, Stored, c))
                             + BytesOn(partitions'[t], c)
                    BY <4>2, <4>3, <5>2, <5>3, <5>4
                <5> QED
                    BY <5>1, <5>5
            <4>5. CASE t \notin Stored
                <5>1. \A s \in Stored : partitions'[s] = partitions[s]
                    BY <1>2, <4>5
                <5>2. Whole = SumFunction(PartsOn(partitions, Stored, c))
                                + BytesOn(partitions'[t], c)
                    BY <1>4, <4>1, <4>2, <4>5, <5>1, PartsAdded
                <5> QED
                    BY <4>2, <4>3, <5>2
            <4> QED
                BY <4>4, <4>5
        <3>2. \A s \in Stored \cup {t} : partitions'[s] \in Seq(Part)
            BY <1>2, RoomTypes
        <3>3. /\ SumFunction(PartsOn(partitions', Stored', c)) <= Whole
              /\ Whole \in Nat
            BY <1>2, <1>4, <3>2, PartsFewer, PartsNumbers
        <3> HIDE DEF Whole
        <3> QED
            BY <1>2, <2>1, <2>2, <3>1, <3>3, RoomIs
    <2>4. BytesBeingPlaced(c)' + BytesOn(chunks[th], c) = BytesBeingPlaced(c)
        <3>1. chunks'[th] \in Seq(Part)
            BY <1>3
        <3>2. SumFunction(PartsOn(chunks', Threads, c)) + BytesOn(chunks[th], c)
                = SumFunction(PartsOn(chunks, Threads, c)) + BytesOn(chunks'[th], c)
            <4>1. \A x \in Threads : chunks[x] \in Seq(Part)
                BY RoomTypes
            <4>2. \A x \in Threads \ {th} : chunks'[x] = chunks[x]
                BY <1>3
            <4>3. IsFiniteSet(Threads)
                BY ThreadsAssumption
            <4> QED
                BY <3>1, <4>1, <4>2, <4>3, PartsChanged
        <3>3. BytesOn(chunks'[th], c) = 0
            BY <1>3, BytesOfNothing
        <3>4. BytesBeingPlaced(c)' + BytesOn(chunks[th], c)
                = BytesBeingPlaced(c) + BytesOn(chunks'[th], c)
            BY <3>2, RoomIs
        <3> QED
            BY <2>1, <2>2, <3>3, <3>4
    <2>5. BytesFree(c)' = BytesFree(c)
        BY <1>1, RoomIs
    <2>6. BytesStored(c) + BytesBeingPlaced(c) + BytesFree(c)
            <= Capacity[c] * reports[c]
        BY <1>1, <1>5 DEF Room, PlacedWithinReports
    <2>7. Capacity[c] * reports[c] \in Nat /\ reports' = reports
        BY <1>1, RoomTypes
    <2> QED
        BY <2>1, <2>2, <2>3, <2>4, <2>5, <2>6, <2>7
<1> QED
    BY <1>4, <1>5 DEF Room, PlacedWithinReports

LEMMA NextKeepsRoom ==
    ASSUME RInv, RInv', Room, [Next]_vars
    PROVE  Room'
<1>1. ASSUME NEW th \in Threads, NEW req, Receive(th, req)
      PROVE  Room'
    BY <1>1, QuietKeepsRoom DEF Receive, balancer, history, Stored
<1>2. ASSUME NEW th \in Threads, Lock(th) \/ EraseTable(th)
      PROVE  Room'
    BY <1>2, QuietKeepsRoom DEF Lock, EraseTable, balancer, history, Stored
<1>3. ASSUME NEW th \in Threads, GetPartition(th) \/ InsertFails(th)
      PROVE  Room'
    <2>1. UNCHANGED <<freePositions, partitions, reports>> /\ Done(th)
        BY <1>3 DEF GetPartition, InsertFails, balancer, history
    <2>2. \A other \in Threads : chunks'[other] \in {chunks[other], <<>>}
        BY <2>1 DEF Done, RInv, BInv, TypeOK
    <2> QED
        BY <2>1, <2>2, QuietKeepsRoom DEF Stored
<1>4. CASE KillAndRestart
    <2>1. /\ \A th \in Threads : chunks'[th] = <<>>
          /\ freePositions' = {} /\ reports' = reports
        BY <1>4 DEF KillAndRestart, history
    <2>2. /\ Stored' \subseteq Stored
          /\ \A t \in Stored' : partitions'[t] = partitions[t]
        BY <1>4 DEF KillAndRestart, Stored
    <2> QED
        BY <2>1, <2>2, QuietKeepsRoom
<1>5. CASE UNCHANGED vars
    BY <1>5, QuietKeepsRoom DEF vars, balancer, history, Stored
<1> QED
    BY <1>1, <1>2, <1>3, <1>4, <1>5, OnUpdateKeepsRoom, PlacePartKeepsRoom,
       StorePartitionKeepsRoom
       DEF Next, Work, ReceiveHeartbeat, ReceiveQuery, ReceiveRemove,
           ReceiveInsert

LEMMA InitRoom == Init => Room
<1> SUFFICES ASSUME Init PROVE Room
    OBVIOUS
<1>1. Stored = {} /\ IsFiniteSet(Stored)
    BY FS_EmptySet DEF Init, Stored
<1>2. ASSUME NEW c \in Chunks
      PROVE  BytesStored(c) + BytesBeingPlaced(c) + BytesFree(c)
               <= Capacity[c] * reports[c]
    <2>1. BytesStored(c) = 0
        <3>1. DOMAIN PartsOn(partitions, {}, c) = {}
            BY DEF PartsOn
        <3>2. SumFunction(PartsOn(partitions, {}, c)) = 0
            BY <3>1, SumOfNone DEF SumFunction, Total
        <3> QED
            BY <1>1, <3>2, RoomIs
    <2>2. BytesFree(c) = 0
        <3>1. DOMAIN FreeOn({}, c) = {}
            BY DEF FreeOn, FreeOf
        <3>2. SumFunction(FreeOn({}, c)) = 0
            BY <3>1, SumOfNone DEF SumFunction, Total
        <3> QED
            BY <3>2, RoomIs DEF Init
    <2>3. BytesBeingPlaced(c) = 0
        <3> DEFINE P == PartsOn(chunks, Threads, c)
        <3>1. DOMAIN P = Threads /\ \A th \in Threads : P[th] = 0
            BY BytesOfNothing DEF Init, PartsOn
        <3> HIDE DEF P
        <3>2. SumFunction(P) = 0
            BY <3>1, SumOfZeros DEF SumFunction, Total
        <3> QED
            BY <3>2, RoomIs DEF P
    <2>4. Capacity[c] * reports[c] = 0
        BY DEF Init
    <2> QED
        BY <2>1, <2>2, <2>3, <2>4
<1> QED
    BY <1>1, <1>2 DEF Room, PlacedWithinReports

\* A chunk is never given more than its capacity for every report it sent,
\* stored, being placed and free together: what InsertTable takes off a free
\* entry becomes a part, what a report puts back is counted.
THEOREM GivenWithinReports == Spec => []PlacedWithinReports
<1>1. RInv /\ RInv' /\ Room /\ [Next]_vars => Room'
    BY NextKeepsRoom
<1>2. Room => PlacedWithinReports
    BY DEF Room
<1> QED
    BY <1>1, <1>2, InitRoom, LoopInvariance, PTL DEF Spec
=============================================================================
