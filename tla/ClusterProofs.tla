---------------------------- MODULE ClusterProofs -----------------------------
(***************************************************************************)
(* What clients, master and chunks guarantee together, for every set of    *)
(* clients, programs, chunks and tables and any number of faults: a table  *)
(* that was created stays on every part its creator was told of, no two    *)
(* creations of it are acknowledged by the same chunk, and an acknowledged *)
(* row was added once per part.                                            *)
(***************************************************************************)
EXTENDS Cluster, Iteration, FiniteSetTheorems, SequenceTheorems, TLAPS

USE ChunksAssumption, CapacityAssumption, SizesAssumption

Part == [chunk : Chunks, bytes : Nat]
Entry == Nat \X Chunks
FreeLists == {S \in SUBSET Entry : IsFiniteSet(S)}

-----------------------------------------------------------------------------
(* The rounds of InsertTable in module Master                              *)

\* The order of the free list, and that it has a last entry.
NotAfter(x, e) == x[1] < e[1] \/ (x[1] = e[1] /\ x[2] <= e[2])

LEMMA EntryNumbers ==
    ASSUME NEW e \in Entry
    PROVE  e[1] \in Nat /\ e[2] \in Chunks /\ e[2] \in Nat /\ e = <<e[1], e[2]>>
<1>1. e[1] \in Nat /\ e[2] \in Chunks /\ e = <<e[1], e[2]>>
    BY DEF Entry
<1>2. e[2] \in Nat
    BY <1>1
<1> QED
    BY <1>1, <1>2

LEMMA LastEntryExists ==
    ASSUME NEW free \in SUBSET Entry, IsFiniteSet(free), free # {}
    PROVE  \E e \in free : \A x \in free : NotAfter(x, e)
<1> DEFINE S == {n \in Nat : \A T \in SUBSET Entry :
                    IsFiniteSet(T) /\ Cardinality(T) = n /\ T # {}
                        => \E e \in T : \A x \in T : NotAfter(x, e)}
<1>1. 0 \in S
    BY FS_EmptySet
<1>2. ASSUME NEW n \in Nat, n \in S PROVE n + 1 \in S
    <2> SUFFICES ASSUME NEW T \in SUBSET Entry, IsFiniteSet(T),
                        Cardinality(T) = n + 1, T # {}
                 PROVE  \E e \in T : \A x \in T : NotAfter(x, e)
        OBVIOUS
    <2>1. PICK y : y \in T
        BY <1>2
    <2>2. IsFiniteSet(T \ {y}) /\ Cardinality(T \ {y}) = n
        <3>1. n \in Nat /\ Cardinality(T) = n + 1
            BY <1>2
        <3>2. /\ IsFiniteSet(T \ {y})
              /\ Cardinality(T \ {y}) = Cardinality(T) - 1
            BY <2>1, FS_RemoveElement
        <3> QED
            BY <3>1, <3>2
    <2>3. \A x \in T : x[1] \in Int /\ x[2] \in Int
        BY EntryNumbers
    <2>4. CASE T \ {y} = {}
        <3>1. \A x \in T : NotAfter(x, y)
            BY <2>3, <2>4 DEF NotAfter
        <3> QED
            BY <2>1, <3>1
    <2>5. CASE T \ {y} # {}
        <3>1. PICK e \in T \ {y} : \A x \in T \ {y} : NotAfter(x, e)
            BY <1>2, <2>2, <2>5
        <3>2. CASE NotAfter(y, e)
            <4>1. \A x \in T : NotAfter(x, e)
                BY <3>1, <3>2
            <4> QED
                BY <4>1
        <3>3. CASE ~NotAfter(y, e)
            <4>1. \A x \in T : NotAfter(x, y)
                BY <2>1, <2>3, <3>1, <3>3 DEF NotAfter
            <4> QED
                BY <2>1, <4>1
        <3> QED
            BY <3>2, <3>3
    <2> QED
        BY <2>4, <2>5
<1> HIDE DEF S
<1>3. \A n \in Nat : n \in S
    BY <1>1, <1>2, SetInduction
<1>4. Cardinality(free) \in S
    BY <1>3, FS_CardinalityType
<1> QED
    BY <1>4 DEF S

LEMMA LastOfIsLast ==
    ASSUME NEW free \in SUBSET Entry, IsFiniteSet(free), free # {}
    PROVE  /\ LastOf(free) \in free
           /\ \A e \in free :
                (\A x \in free : NotAfter(x, e)) => LastOf(free) = e
<1> DEFINE last == LastOf(free)
<1>1. last = CHOOSE e \in free : \A x \in free : NotAfter(x, e)
    BY DEF LastOf, NotAfter
<1>2. last \in free /\ \A x \in free : NotAfter(x, last)
    BY <1>1, LastEntryExists
<1> HIDE DEF last
<1>3. ASSUME NEW e \in free, \A x \in free : NotAfter(x, e)
      PROVE  last = e
    <2>1. NotAfter(last, e) /\ NotAfter(e, last)
        BY <1>2, <1>3
    <2>2. last \in Entry /\ e \in Entry
        BY <1>2
    <2>3. /\ last[1] \in Int /\ last[2] \in Int
          /\ e[1] \in Int /\ e[2] \in Int
        BY <2>2, EntryNumbers
    <2>4. last[1] = e[1] /\ last[2] = e[2]
        BY <2>1, <2>3 DEF NotAfter
    <2> QED
        BY <2>2, <2>4, EntryNumbers
<1> QED
    BY <1>2, <1>3 DEF last

\* Where the loop may be.
Places == [free : FreeLists, left : Nat, parts : Seq(Part)]

LEMMA RoundInPlaces ==
    ASSUME NEW place \in Places, place.free # {}
    PROVE  Round(place) \in Places
<1> DEFINE last == LastOf(place.free)
           fits == place.left < last[1]
           given == IF fits THEN place.left ELSE last[1]
           rest == IF fits THEN {<<last[1] - given, last[2]>>} ELSE {}
           part == [chunk |-> last[2], bytes |-> given]
<1>1. /\ place.free \in SUBSET Entry
      /\ IsFiniteSet(place.free)
      /\ place.left \in Nat
      /\ place.parts \in Seq(Part)
    BY DEF Places, FreeLists
<1>2. last \in place.free
    BY <1>1, LastOfIsLast
<1>3. last[1] \in Nat /\ last[2] \in Chunks
    BY <1>1, <1>2 DEF Entry
<1> HIDE DEF last
<1>4. given \in Nat /\ place.left - given \in Nat
    BY <1>1, <1>3
<1>5. (place.free \ {last}) \cup rest \in FreeLists
    <2>1. IsFiniteSet(place.free \ {last})
        BY <1>1, FS_RemoveElement
    <2>2. CASE fits
        <3>1. <<last[1] - given, last[2]>> \in Entry
            BY <1>1, <1>3, <2>2 DEF Entry
        <3>2. IsFiniteSet((place.free \ {last}) \cup rest)
            BY <2>1, <2>2, FS_AddElement
        <3> QED
            BY <1>1, <2>2, <3>1, <3>2 DEF FreeLists
    <2>3. CASE ~fits
        BY <1>1, <2>1, <2>3 DEF FreeLists
    <2> QED
        BY <2>2, <2>3
<1>6. Append(place.parts, part) \in Seq(Part)
    <2>1. part \in Part
        BY <1>3, <1>4 DEF Part
    <2> HIDE DEF part
    <2> QED
        BY <1>1, <2>1
<1>7. Round(place) = [free |-> (place.free \ {last}) \cup rest,
                              left |-> place.left - given,
                              parts |-> Append(place.parts, part)]
    BY DEF Round, last
<1> QED
    BY <1>4, <1>5, <1>6, <1>7 DEF Places

Over(place) == place.left = 0 \/ place.free = {}

LEMMA RoundsGoOn ==
    ASSUME NEW free \in FreeLists, NEW amount \in Nat
    PROVE  LET N == Cardinality(free)
               after == Rounds(free, amount)
           IN  /\ N \in Nat
               /\ after[0] = [free |-> free, left |-> amount, parts |-> <<>>]
               /\ \A n \in 1 .. N :
                    after[n] = IF Over(after[n - 1]) THEN after[n - 1]
                               ELSE Round(after[n - 1])
<1> DEFINE N == Cardinality(free)
           a == [free |-> free, left |-> amount, parts |-> <<>>]
           F == [z \in Nat \X Places |->
                    IF Over(z[2]) THEN z[2] ELSE Round(z[2])]
           IsRounds(f) ==
             f = [n \in 0 .. N |->
                    IF n = 0 THEN a
                    ELSE LET place == f[n - 1]
                         IN  IF Over(place) THEN place ELSE Round(place)]
<1>1. N \in Nat
    BY FS_CardinalityType DEF FreeLists
<1>2. a \in Places
    BY DEF Places
<1>3. F \in [Nat \X Places -> Places]
    BY RoundInPlaces DEF Over
<1>4. \A n \in Nat, x \in Places :
         F[<<n, x>>] = IF Over(x) THEN x ELSE Round(x)
    OBVIOUS
<1> HIDE DEF F, N, a
<1>5. PICK f \in [0 .. N -> Places] : Iterates(f, a, F, N)
    BY <1>1, <1>2, <1>3, IterationExists
<1>6. \A n \in 0 .. N : f[n] = IF n = 0 THEN a ELSE F[<<n, f[n - 1]>>]
    BY <1>5 DEF Iterates
<1>7. ASSUME NEW n \in 0 .. N
      PROVE  f[n] = IF n = 0 THEN a
                    ELSE LET place == f[n - 1]
                         IN  IF Over(place) THEN place ELSE Round(place)
    <2>1. CASE n = 0
        BY <1>6, <2>1
    <2>2. CASE n # 0
        <3>1. n - 1 \in 0 .. N /\ n \in Nat
            BY <1>1, <2>2
        <3>2. f[n] = F[<<n, f[n - 1]>>] /\ f[n - 1] \in Places
            BY <1>6, <2>2, <3>1
        <3> QED
            BY <1>4, <2>2, <3>1, <3>2
    <2> QED
        BY <2>1, <2>2
<1>8. IsRounds(f)
    BY <1>7
<1>9. Rounds(free, amount) = CHOOSE g : IsRounds(g)
    BY DEF Rounds, Over, N, a
<1>10. IsRounds(Rounds(free, amount))
    BY <1>8, <1>9
<1> DEFINE after == Rounds(free, amount)
<1> HIDE DEF after
<1>11. after[0] = a
    BY <1>1, <1>10 DEF after
<1>12. ASSUME NEW n \in 1 .. N
       PROVE  after[n] = IF Over(after[n - 1]) THEN after[n - 1]
                         ELSE Round(after[n - 1])
    <2>1. n \in 0 .. N /\ n # 0
        BY <1>1
    <2> QED
        BY <1>10, <2>1 DEF after
<1> QED
    BY <1>1, <1>11, <1>12 DEF after, N, a

LEMMA RoundsInPlaces ==
    ASSUME NEW free \in FreeLists, NEW amount \in Nat
    PROVE  \A n \in 0 .. Cardinality(free) : Rounds(free, amount)[n] \in Places
<1> DEFINE N == Cardinality(free)
           after == Rounds(free, amount)
           S == {n \in Nat : after[n] \in Places}
<1>1. /\ N \in Nat
      /\ after[0] = [free |-> free, left |-> amount, parts |-> <<>>]
      /\ \A n \in 1 .. N : after[n] = IF Over(after[n - 1]) THEN after[n - 1]
                                      ELSE Round(after[n - 1])
    BY RoundsGoOn
<1>2. [free |-> free, left |-> amount, parts |-> <<>>] \in Places
    BY DEF Places
<1> HIDE DEF N, after
<1>3. 0 \in S
    BY <1>1, <1>2
<1>4. ASSUME NEW n \in 0 .. N - 1, n \in S PROVE n + 1 \in S
    <2>1. n + 1 \in 1 .. N /\ n + 1 - 1 = n /\ n + 1 \in Nat
        BY <1>1
    <2>2. after[n + 1] = IF Over(after[n]) THEN after[n] ELSE Round(after[n])
        BY <1>1, <2>1
    <2>3. after[n] \in Places
        BY <1>4
    <2>4. ~Over(after[n]) => Round(after[n]) \in Places
        BY <2>3, RoundInPlaces DEF Over
    <2> QED
        BY <2>1, <2>2, <2>3, <2>4
<1> HIDE DEF S
<1>5. \A n \in 0 .. N : n \in S
    BY <1>1, <1>3, <1>4, BoundedInduction
<1> QED
    BY <1>5 DEF S, N, after

\* What a table is placed on are parts of chunks, and what is left is free.
LEMMA PlacementTyped ==
    ASSUME NEW free \in FreeLists, NEW amount \in Nat
    PROVE  /\ Placement(free, amount).free \in FreeLists
           /\ Placement(free, amount).left \in Nat
           /\ Placement(free, amount).parts \in Seq(Part)
<1>1. Cardinality(free) \in Nat
    BY FS_CardinalityType DEF FreeLists
<1>2. Placement(free, amount) \in Places
    BY <1>1, RoundsInPlaces DEF Placement
<1> QED
    BY <1>2 DEF Places

USE ProgramsAssumption, BoundsAssumption, NoTableAssumption

-----------------------------------------------------------------------------
(* The inductive invariant: types                                          *)

Types == ToMaster \cup {"create_table", "table_content", "schema", "add_row"}
Statuses == {"asks", "late", "hung", "ended", "died"}
Existing == {"none", "scheme", "both"}

\* A request to chunks follows a question for the parts, and this question is
\* followed by one.
WellFormed(s) ==
    /\ s # <<>>
    /\ \A i \in 1 .. Len(s) :
        /\ s[i] \notin ToMaster => i > 1 /\ s[i - 1] = "chunks_by_query"
        /\ s[i] = "chunks_by_query" => i < Len(s) /\ s[i + 1] \notin ToMaster

MasterTyped ==
    /\ chunk2Free \in [Chunks -> Nat]
    /\ freePositions \in FreeLists
    /\ partitions \in [Tables -> Seq(Part) \cup {NoTable}]
    /\ up \in BOOLEAN
    /\ frozen \in BOOLEAN
    /\ replaced \subseteq Tables
    /\ faults \in 0 .. MaxFaults

ChunksTyped ==
    /\ alive \subseteq Chunks
    /\ files \in [Chunks -> [Tables -> Existing]]
    /\ paged \in [Chunks -> SUBSET Tables]
    /\ added \in [Chunks -> Seq(Clients \X Nat)]

ProgramTyped ==
    /\ script \in [Clients -> Seq(Types)]
    /\ table \in [Clients -> Tables]
    /\ size \in [Clients -> Sizes]
    /\ \A cl \in Clients : WellFormed(script[cl])

ClientsTyped ==
    /\ pc \in [Clients -> Nat]
    /\ todo \in [Clients -> Seq(Chunks)]
    /\ status \in [Clients -> Statuses]
    /\ used \in [Clients -> Seq(Seq(Chunks))]
    /\ \A cl \in Clients : Len(used[cl]) = Len(script[cl])

\* What is left to do at a request to chunks is the end of the list its client
\* was told, and not nothing.
ClientFits(cl) ==
    /\ pc[cl] \in 1 .. Len(script[cl]) + 1
    /\ status[cl] # "ended" => pc[cl] <= Len(script[cl])
    /\ pc[cl] <= Len(script[cl]) /\ Request(cl) \notin ToMaster =>
         LET list == used[cl][pc[cl]] IN
         /\ Len(todo[cl]) \in 1 .. Len(list)
         /\ todo[cl] = SubSeq(list, Len(list) - Len(todo[cl]) + 1, Len(list))

ClientsFit ==
    /\ ProgramTyped
    /\ ClientsTyped
    /\ \A cl \in Clients : ClientFits(cl)

-----------------------------------------------------------------------------
(* The inductive invariant: what was answered                              *)

\* How many of the chunks of a request have answered it.
Passed ==
    [cl \in Clients |-> [i \in 1 .. Len(script[cl]) |->
        IF i < pc[cl] THEN Len(used[cl][i])
        ELSE IF i = pc[cl] THEN Len(used[cl][i]) - Len(todo[cl])
        ELSE 0]]

\* The creations that were acknowledged, each by the chunk and of the table.
Made ==
    {m \in Clients \X Nat \X Nat :
        /\ m[2] \in 1 .. Len(script[m[1]])
        /\ script[m[1]][m[2]] = "create_table"
        /\ m[3] \in 1 .. Passed[m[1]][m[2]]}
Where == [m \in Made |-> <<used[m[1]][m[2]][m[3]], table[m[1]]>>]

CreatesFit ==
    /\ \A m \in Made : files[Where[m][1]][Where[m][2]] = "both"
    /\ \A m, o \in Made : Where[m] = Where[o] => m = o

\* How often an element is among the first n of s.
Positions(s, n, e) == {k \in 1 .. n : s[k] = e}
Count(s, n, e) == Cardinality(Positions(s, n, e))

\* How often a chunk performed a request to add a row, is on the list its
\* client was told, and is on the part of the list that answered.
Performed == [c \in Chunks |-> [r \in Clients \X Nat |-> Times(added[c], r)]]
Told ==
    [cl \in Clients |-> [i \in 1 .. Len(script[cl]) |->
        [c \in Chunks |-> Times(used[cl][i], c)]]]
Answered ==
    [cl \in Clients |-> [i \in 1 .. Len(script[cl]) |->
        [c \in Chunks |-> Count(used[cl][i], Passed[cl][i], c)]]]

\* Whether a client still is, or was, told what its request i did: one that
\* died may have had its row added without knowing.
Hears(cl, i) == i < pc[cl] \/ status[cl] # "died"

RowsFit ==
    \A cl \in Clients, i \in Nat, c \in Chunks :
        IF i \in 1 .. Len(script[cl]) /\ script[cl][i] = "add_row"
        THEN /\ Performed[c][<<cl, i>>] <= Told[cl][i][c]
             /\ Hears(cl, i) => Performed[c][<<cl, i>>] = Answered[cl][i][c]
        ELSE Performed[c][<<cl, i>>] = 0

ChunksOf(parts) == [i \in 1 .. Len(parts) |-> parts[i].chunk]

\* Who asked for the parts of a table that was placed once got these parts.
PlacesFit ==
    \A cl \in Clients, i \in Nat :
        /\ table[cl] \notin replaced
        /\ i \in 1 .. Len(script[cl])
        => \/ used[cl][i] = <<>>
           \/ /\ partitions[table[cl]] \in Seq(Part)
              /\ used[cl][i] = ChunksOf(partitions[table[cl]])

CInv ==
    /\ MasterTyped
    /\ ChunksTyped
    /\ ClientsFit
    /\ CreatesFit
    /\ RowsFit
    /\ PlacesFit

-----------------------------------------------------------------------------
(* What steps do to clients                                                *)

\* No request is answered.
Stands ==
    /\ UNCHANGED <<script, table, size, pc, todo, used>>
    /\ status' \in [Clients -> Statuses]
    /\ \A cl \in Clients :
        status'[cl] # status[cl] =>
            /\ status[cl] \notin {"ended", "died"}
            /\ status'[cl] \in {"late", "hung", "died"}

MasterAnswered(cl, list) ==
    /\ status[cl] = "asks"
    /\ Request(cl) \in ToMaster
    /\ Request(cl) = "chunks_by_query" \/ list = <<>>
    /\ MasterAnswers(cl, list)
    /\ UNCHANGED <<script, table, size>>

ChunkAnswered(cl) ==
    /\ status[cl] = "asks"
    /\ Request(cl) \notin ToMaster
    /\ ChunkAnswers(cl)
    /\ UNCHANGED <<script, table, size>>

LEMMA StandsKeeps ==
    ASSUME ClientsFit, Stands
    PROVE  ClientsFit'
<1>1. ProgramTyped' /\ ClientsTyped'
    BY DEF ClientsFit, Stands, ProgramTyped, ClientsTyped
<1>2. ASSUME NEW cl \in Clients PROVE ClientFits(cl)'
    BY DEF ClientsFit, Stands, ClientFits, Request
<1> QED
    BY <1>1, <1>2 DEF ClientsFit

\* The chunks a client was told of, and the others of its requests.
Tells(cl, list) ==
    /\ used' \in [Clients -> Seq(Seq(Chunks))]
    /\ \A o \in Clients \ {cl} : used'[o] = used[o]
    /\ Len(used'[cl]) = Len(used[cl])
    /\ used'[cl][pc[cl] + 1] = list
    /\ \A i \in 1 .. Len(used[cl]) : i # pc[cl] + 1 => used'[cl][i] = used[cl][i]

GoesTo(cl, next, list) ==
    /\ pc' \in [Clients -> Nat]
    /\ todo' \in [Clients -> Seq(Chunks)]
    /\ status' \in [Clients -> Statuses]
    /\ \A o \in Clients \ {cl} :
        pc'[o] = pc[o] /\ todo'[o] = todo[o] /\ status'[o] = status[o]
    /\ pc'[cl] = next
    /\ todo'[cl] = list
    /\ status'[cl] = IF next > Len(script[cl]) THEN "ended" ELSE "asks"

DiesAt(cl) ==
    /\ UNCHANGED <<pc, todo>>
    /\ status' = [status EXCEPT ![cl] = "died"]

LEMMA GoesEffect ==
    ASSUME ClientsTyped, NEW cl \in Clients, NEW next \in Nat,
           NEW list \in Seq(Chunks), Goes(cl, next, list)
    PROVE  GoesTo(cl, next, list)
BY DEF ClientsTyped, Goes, GoesTo, Statuses

LEMMA TellsEffect ==
    ASSUME ClientsTyped, NEW cl \in Clients, NEW list \in Seq(Chunks),
           pc[cl] + 1 \in 1 .. Len(used[cl]),
           used' = [used EXCEPT ![cl][pc[cl] + 1] = list]
    PROVE  Tells(cl, list)
<1> DEFINE s == [used[cl] EXCEPT ![pc[cl] + 1] = list]
<1>1. used[cl] \in Seq(Seq(Chunks))
    BY DEF ClientsTyped
<1>2. /\ s \in Seq(Seq(Chunks))
      /\ Len(s) = Len(used[cl])
      /\ \A i \in 1 .. Len(used[cl]) :
            s[i] = IF i = pc[cl] + 1 THEN list ELSE used[cl][i]
    BY <1>1
<1>3. used' = [used EXCEPT ![cl] = s]
    OBVIOUS
<1> HIDE DEF s
<1>4. /\ used' \in [Clients -> Seq(Seq(Chunks))]
      /\ used'[cl] = s
      /\ \A o \in Clients \ {cl} : used'[o] = used[o]
    BY <1>2, <1>3 DEF ClientsTyped
<1> QED
    BY <1>2, <1>4 DEF Tells

\* The three ways an answer of the master is taken.
LEMMA MasterAnsweredEffect ==
    ASSUME ClientsFit, NEW cl \in Clients, NEW list \in Seq(Chunks),
           MasterAnswered(cl, list)
    PROVE  LET p == pc[cl] IN
           /\ p \in 1 .. Len(script[cl])
           /\ script[cl][p] \in ToMaster
           /\ \/ /\ script[cl][p] # "chunks_by_query"
                 /\ UNCHANGED used
                 /\ GoesTo(cl, p + 1, <<>>)
              \/ /\ script[cl][p] = "chunks_by_query"
                 /\ p + 1 \in 1 .. Len(script[cl])
                 /\ script[cl][p + 1] \notin ToMaster
                 /\ Tells(cl, list)
                 /\ \/ list # <<>> /\ GoesTo(cl, p + 1, list)
                    \/ list = <<>> /\ GoesTo(cl, p + 2, <<>>)
                    \/ list = <<>> /\ DiesAt(cl)
<1>1. /\ pc[cl] \in 1 .. Len(script[cl]) + 1
      /\ pc[cl] <= Len(script[cl])
      /\ Len(script[cl]) \in Nat
      /\ status[cl] = "asks"
      /\ script[cl][pc[cl]] \in ToMaster
      /\ Len(used[cl]) = Len(script[cl])
      /\ WellFormed(script[cl])
    <2>1. script[cl] \in Seq(Types)
        BY DEF ClientsFit, ProgramTyped
    <2>2. status[cl] # "ended" /\ ClientFits(cl)
        BY DEF ClientsFit, MasterAnswered
    <2>3. pc[cl] \in 1 .. Len(script[cl]) + 1 /\ pc[cl] <= Len(script[cl])
        BY <2>2 DEF ClientFits
    <2> QED
        BY <2>1, <2>3
        DEF ClientsFit, MasterAnswered, ProgramTyped, ClientsTyped, Request
<1>2. pc[cl] \in 1 .. Len(script[cl])
    BY <1>1
<1>3. ClientsTyped /\ <<>> \in Seq(Chunks) /\ pc[cl] + 1 \in Nat /\ pc[cl] + 2 \in Nat
    BY <1>1 DEF ClientsFit
<1>4. CASE script[cl][pc[cl]] # "chunks_by_query"
    <2>1. Goes(cl, pc[cl] + 1, <<>>) /\ UNCHANGED used
        BY <1>1, <1>4 DEF MasterAnswered, MasterAnswers, Request
    <2>2. GoesTo(cl, pc[cl] + 1, <<>>)
        BY <1>3, <2>1, GoesEffect
    <2> QED
        BY <1>1, <1>2, <1>4, <2>1, <2>2
<1>5. CASE script[cl][pc[cl]] = "chunks_by_query"
    <2>1. /\ used' = [used EXCEPT ![cl][pc[cl] + 1] = list]
          /\ IF list # <<>> THEN Goes(cl, pc[cl] + 1, list)
             ELSE IF script[cl][pc[cl] + 1] # "schema"
             THEN Goes(cl, pc[cl] + 2, <<>>)
             ELSE DiesAt(cl)
        BY <1>1, <1>5 DEF MasterAnswered, MasterAnswers, Request, DiesAt
    <2>2. pc[cl] + 1 \in 1 .. Len(script[cl]) /\ script[cl][pc[cl] + 1] \notin ToMaster
        BY <1>1, <1>2, <1>5 DEF WellFormed
    <2>3. Tells(cl, list)
        BY <1>1, <1>3, <2>1, <2>2, TellsEffect
    <2>4. CASE list # <<>>
        BY <1>1, <1>2, <1>3, <1>5, <2>1, <2>2, <2>3, <2>4, GoesEffect
    <2>5. CASE list = <<>> /\ script[cl][pc[cl] + 1] # "schema"
        BY <1>1, <1>2, <1>3, <1>5, <2>1, <2>2, <2>3, <2>5, GoesEffect
    <2>6. CASE list = <<>> /\ script[cl][pc[cl] + 1] = "schema"
        BY <1>1, <1>2, <1>3, <1>5, <2>1, <2>2, <2>3, <2>6
    <2> QED
        BY <2>4, <2>5, <2>6
<1> QED
    BY <1>4, <1>5

LEMMA MasterAnsweredKeeps ==
    ASSUME ClientsFit, NEW cl \in Clients, NEW list \in Seq(Chunks),
           MasterAnswered(cl, list)
    PROVE  ClientsFit'
<1> DEFINE p == pc[cl]
           n == Len(script[cl])
<1>1. /\ p \in 1 .. n
      /\ script[cl][p] \in ToMaster
      /\ \/ /\ script[cl][p] # "chunks_by_query"
            /\ UNCHANGED used
            /\ GoesTo(cl, p + 1, <<>>)
         \/ /\ script[cl][p] = "chunks_by_query"
            /\ p + 1 \in 1 .. n
            /\ script[cl][p + 1] \notin ToMaster
            /\ Tells(cl, list)
            /\ \/ list # <<>> /\ GoesTo(cl, p + 1, list)
               \/ list = <<>> /\ GoesTo(cl, p + 2, <<>>)
               \/ list = <<>> /\ DiesAt(cl)
    BY MasterAnsweredEffect
<1>2. UNCHANGED <<script, table, size>>
    BY DEF MasterAnswered
<1>3. /\ n \in Nat
      /\ Len(used[cl]) = n
      /\ WellFormed(script[cl])
      /\ ClientsTyped
    BY DEF ClientsFit, ProgramTyped, ClientsTyped
<1>4. ProgramTyped'
    BY <1>2 DEF ClientsFit, ProgramTyped
<1>5. \A i \in 1 .. n :
        /\ script[cl][i] \notin ToMaster =>
             i > 1 /\ script[cl][i - 1] = "chunks_by_query"
        /\ script[cl][i] = "chunks_by_query" =>
             i < n /\ script[cl][i + 1] \notin ToMaster
    BY <1>3 DEF WellFormed
<1> HIDE DEF p, n
<1>6. CASE UNCHANGED used /\ GoesTo(cl, p + 1, <<>>)
           /\ script[cl][p] # "chunks_by_query"
    <2>1. ClientsTyped'
        BY <1>2, <1>3, <1>6 DEF ClientsTyped, GoesTo
    <2>2. ASSUME NEW o \in Clients \ {cl} PROVE ClientFits(o)'
        BY <1>2, <1>6 DEF ClientsFit, ClientFits, GoesTo, Request
    <2>3. ClientFits(cl)'
        <3>1. /\ pc'[cl] = p + 1
              /\ status'[cl] = IF p + 1 > n THEN "ended" ELSE "asks"
              /\ script' = script
            BY <1>2, <1>6 DEF GoesTo, n
        <3>2. p + 1 \in 1 .. n + 1
            BY <1>1, <1>3
        <3>3. p + 1 <= n => script[cl][p + 1] \in ToMaster
            <4> SUFFICES ASSUME p + 1 <= n, script[cl][p + 1] \notin ToMaster
                         PROVE  FALSE
                OBVIOUS
            <4>1. p + 1 \in 1 .. n /\ p + 1 - 1 = p
                BY <1>1, <1>3
            <4>2. PICK i \in 1 .. n : i = p + 1
                BY <4>1
            <4>3. script[cl][i - 1] = "chunks_by_query" /\ i - 1 = p
                <5>1. script[cl][i] \notin ToMaster
                    BY <4>2
                <5>2. i - 1 = p
                    BY <1>1, <1>3, <4>2
                <5> QED
                    BY <1>5, <5>1, <5>2
            <4> QED
                BY <1>6, <4>3
        <3>4. status'[cl] # "ended" => p + 1 <= n
            BY <1>1, <1>3, <3>1
        <3> QED
            BY <3>1, <3>2, <3>3, <3>4 DEF ClientFits, Request, n
    <2> QED
        BY <1>4, <2>1, <2>2, <2>3 DEF ClientsFit
<1>7. CASE list # <<>> /\ Tells(cl, list) /\ GoesTo(cl, p + 1, list)
           /\ p + 1 \in 1 .. n
    <2>1. ClientsTyped'
        BY <1>2, <1>3, <1>7 DEF ClientsTyped, GoesTo, Tells
    <2>2. ASSUME NEW o \in Clients \ {cl} PROVE ClientFits(o)'
        BY <1>2, <1>7 DEF ClientsFit, ClientFits, GoesTo, Tells, Request
    <2>3. ClientFits(cl)'
        <3>1. /\ pc'[cl] = p + 1
              /\ todo'[cl] = list
              /\ used'[cl][p + 1] = list
              /\ script' = script
            BY <1>2, <1>7 DEF GoesTo, Tells, p
        <3>2. Len(list) \in 1 .. Len(list)
            BY <1>7
        <3>3. list = SubSeq(list, Len(list) - Len(list) + 1, Len(list))
            BY <3>2
        <3> QED
            BY <1>1, <1>3, <1>7, <3>1, <3>2, <3>3 DEF ClientFits, Request, n
    <2> QED
        BY <1>4, <2>1, <2>2, <2>3 DEF ClientsFit
<1>8. CASE Tells(cl, list) /\ GoesTo(cl, p + 2, <<>>) /\ p + 1 \in 1 .. n
           /\ script[cl][p + 1] \notin ToMaster
    <2>1. ClientsTyped'
        BY <1>2, <1>3, <1>8 DEF ClientsTyped, GoesTo, Tells
    <2>2. ASSUME NEW o \in Clients \ {cl} PROVE ClientFits(o)'
        BY <1>2, <1>8 DEF ClientsFit, ClientFits, GoesTo, Tells, Request
    <2>3. ClientFits(cl)'
        <3>1. /\ pc'[cl] = p + 2
              /\ status'[cl] = IF p + 2 > n THEN "ended" ELSE "asks"
              /\ script' = script
            BY <1>2, <1>8 DEF GoesTo, n
        <3>2. p + 2 \in 1 .. n + 1
            BY <1>1, <1>3, <1>8
        <3>3. p + 2 <= n => script[cl][p + 2] \in ToMaster
            <4> SUFFICES ASSUME p + 2 <= n, script[cl][p + 2] \notin ToMaster
                         PROVE  FALSE
                OBVIOUS
            <4>1. p + 2 \in 1 .. n /\ p + 2 - 1 = p + 1
                BY <1>1, <1>3
            <4>2. PICK i \in 1 .. n : i = p + 2
                BY <4>1
            <4>3. script[cl][i - 1] = "chunks_by_query" /\ i - 1 = p + 1
                BY <1>5, <1>1, <1>3, <4>2
            <4> QED
                BY <1>8, <4>3 DEF ToMaster
        <3>4. status'[cl] # "ended" => p + 2 <= n
            BY <1>1, <1>3, <3>1
        <3> QED
            BY <3>1, <3>2, <3>3, <3>4 DEF ClientFits, Request, n
    <2> QED
        BY <1>4, <2>1, <2>2, <2>3 DEF ClientsFit
<1>9. CASE Tells(cl, list) /\ DiesAt(cl)
    <2>1. ClientsTyped'
        BY <1>2, <1>3, <1>9 DEF ClientsTyped, DiesAt, Tells, Statuses
    <2>2. ASSUME NEW o \in Clients \ {cl} PROVE ClientFits(o)'
        BY <1>2, <1>3, <1>9
        DEF ClientsFit, ClientFits, DiesAt, Tells, Request, ClientsTyped
    <2>3. ClientFits(cl)'
        <3>1. /\ pc' = pc
              /\ todo' = todo
              /\ script' = script
              /\ status'[cl] = "died"
            BY <1>2, <1>3, <1>9 DEF DiesAt, ClientsTyped
        <3>2. p \in 1 .. n + 1 /\ p <= n
            BY <1>1, <1>3
        <3> QED
            BY <1>1, <3>1, <3>2 DEF ClientFits, Request, p, n
    <2> QED
        BY <1>4, <2>1, <2>2, <2>3 DEF ClientsFit
<1> QED
    BY <1>1, <1>6, <1>7, <1>8, <1>9

\* The two ways an answer of a chunk is taken.
LEMMA ChunkAnsweredEffect ==
    ASSUME ClientsFit, NEW cl \in Clients, ChunkAnswered(cl)
    PROVE  LET p == pc[cl]
               list == used[cl][p]
               k == Len(list) - Len(todo[cl]) + 1
           IN
           /\ p \in 1 .. Len(script[cl])
           /\ script[cl][p] \notin ToMaster
           /\ UNCHANGED used
           /\ list \in Seq(Chunks)
           /\ k \in 1 .. Len(list)
           /\ Head(todo[cl]) = list[k]
           /\ \/ /\ script[cl][p] = "schema" \/ k = Len(list)
                 /\ GoesTo(cl, p + 1, <<>>)
              \/ /\ k < Len(list)
                 /\ GoesTo(cl, p, SubSeq(list, k + 1, Len(list)))
                 /\ Len(SubSeq(list, k + 1, Len(list))) = Len(list) - k
<1> DEFINE p == pc[cl]
           n == Len(script[cl])
           list == used[cl][p]
           m == Len(todo[cl])
           k == Len(list) - m + 1
<1>1. /\ p \in 1 .. n + 1
      /\ p <= n
      /\ n \in Nat
      /\ Len(used[cl]) = n
      /\ used[cl] \in Seq(Seq(Chunks))
      /\ todo[cl] \in Seq(Chunks)
      /\ script[cl][p] \notin ToMaster
      /\ ClientsTyped
    <2>1. script[cl] \in Seq(Types)
        BY DEF ClientsFit, ProgramTyped
    <2>2. status[cl] # "ended" /\ ClientFits(cl)
        BY DEF ClientsFit, ChunkAnswered
    <2>3. p \in 1 .. n + 1 /\ p <= n
        BY <2>2 DEF ClientFits
    <2> QED
        BY <2>1, <2>3
        DEF ClientsFit, ChunkAnswered, ProgramTyped, ClientsTyped, Request
<1>2. m \in 1 .. Len(list) /\ todo[cl] = SubSeq(list, k, Len(list))
    BY <1>1 DEF ClientsFit, ClientFits, Request
<1>3. p \in 1 .. n
    BY <1>1
<1>4. list \in Seq(Chunks)
    BY <1>1, <1>3
<1>5. Len(list) \in Nat
    BY <1>4
<1>6. UNCHANGED used
    BY DEF ChunkAnswered, ChunkAnswers
<1>7. IF script[cl][p] = "schema" \/ m = 1 THEN Goes(cl, p + 1, <<>>)
      ELSE Goes(cl, p, Tail(todo[cl]))
    BY DEF ChunkAnswered, ChunkAnswers, Request
<1> HIDE DEF p, n, list, m
<1>8. k \in 1 .. Len(list)
    BY <1>2, <1>5
<1>9. Head(todo[cl]) = list[k]
    <2>1. SubSeq(list, k, Len(list))[1] = list[k] /\ Len(SubSeq(list, k, Len(list))) # 0
        BY <1>4, <1>5, <1>8
    <2> QED
        BY <1>1, <1>2, <2>1
<1>10. CASE script[cl][p] = "schema" \/ m = 1
    <2>1. GoesTo(cl, p + 1, <<>>)
        <3>1. Goes(cl, p + 1, <<>>)
            BY <1>7, <1>10
        <3>2. p + 1 \in Nat /\ <<>> \in Seq(Chunks) /\ ClientsTyped
            BY <1>1
        <3> QED
            BY <3>1, <3>2, GoesEffect
    <2>2. m = 1 => k = Len(list)
        BY <1>5
    <2> QED
        BY <1>3, <1>1, <1>4, <1>6, <1>8, <1>9, <1>10, <2>1, <2>2
        DEF p, n, list, m
<1>11. CASE ~(script[cl][p] = "schema" \/ m = 1)
    <2>1. k < Len(list)
        BY <1>2, <1>5, <1>11
    <2>2. Tail(todo[cl]) = SubSeq(list, k + 1, Len(list))
        BY <1>1, <1>2, <1>4, <1>5, <1>8, <2>1
    <2>3. /\ SubSeq(list, k + 1, Len(list)) \in Seq(Chunks)
          /\ Len(SubSeq(list, k + 1, Len(list))) = Len(list) - k
        BY <1>4, <1>5, <1>8, <2>1
    <2>4. GoesTo(cl, p, SubSeq(list, k + 1, Len(list)))
        <3>1. Goes(cl, p, SubSeq(list, k + 1, Len(list)))
            BY <1>7, <1>11, <2>2
        <3>2. p \in Nat /\ ClientsTyped
            BY <1>1
        <3> QED
            BY <2>3, <3>1, <3>2, GoesEffect
    <2> QED
        BY <1>3, <1>1, <1>4, <1>6, <1>8, <1>9, <2>1, <2>3, <2>4
        DEF p, n, list, m
<1> QED
    BY <1>10, <1>11

LEMMA ChunkAnsweredKeeps ==
    ASSUME ClientsFit, NEW cl \in Clients, ChunkAnswered(cl)
    PROVE  ClientsFit'
<1> DEFINE p == pc[cl]
           n == Len(script[cl])
           list == used[cl][p]
           k == Len(list) - Len(todo[cl]) + 1
           rest == SubSeq(list, k + 1, Len(list))
<1>1. /\ p \in 1 .. n
      /\ script[cl][p] \notin ToMaster
      /\ UNCHANGED used
      /\ list \in Seq(Chunks)
      /\ k \in 1 .. Len(list)
      /\ \/ GoesTo(cl, p + 1, <<>>)
         \/ k < Len(list) /\ GoesTo(cl, p, rest) /\ Len(rest) = Len(list) - k
    BY ChunkAnsweredEffect
<1>2. UNCHANGED <<script, table, size>>
    BY DEF ChunkAnswered
<1>3. /\ n \in Nat
      /\ Len(used[cl]) = n
      /\ WellFormed(script[cl])
      /\ ClientsTyped
    BY DEF ClientsFit, ProgramTyped, ClientsTyped
<1>4. ProgramTyped'
    BY <1>2 DEF ClientsFit, ProgramTyped
<1> HIDE DEF p, n, list, k, rest
<1>5. Len(list) \in Nat
    BY <1>1
<1>6. CASE GoesTo(cl, p + 1, <<>>)
    <2>1. ClientsTyped'
        BY <1>1, <1>2, <1>3, <1>6 DEF ClientsTyped, GoesTo
    <2>2. ASSUME NEW o \in Clients \ {cl} PROVE ClientFits(o)'
        BY <1>1, <1>2, <1>6 DEF ClientsFit, ClientFits, GoesTo, Request
    <2>3. ClientFits(cl)'
        <3>1. /\ pc'[cl] = p + 1
              /\ status'[cl] = IF p + 1 > n THEN "ended" ELSE "asks"
              /\ script' = script
            BY <1>2, <1>6 DEF GoesTo, n
        <3>2. p + 1 \in 1 .. n + 1
            BY <1>1, <1>3
        <3>3. p + 1 <= n => script[cl][p + 1] \in ToMaster
            <4> SUFFICES ASSUME p + 1 <= n, script[cl][p + 1] \notin ToMaster
                         PROVE  FALSE
                OBVIOUS
            <4>1. p + 1 \in 1 .. n
                BY <1>1, <1>3
            <4>2. PICK i \in 1 .. n : i = p + 1
                BY <4>1
            <4>3. script[cl][i] \notin ToMaster /\ i - 1 = p
                BY <1>1, <1>3, <4>2
            <4>4. script[cl][i - 1] = "chunks_by_query"
                BY <1>3, <4>3 DEF WellFormed, n
            <4> QED
                BY <1>1, <4>3, <4>4 DEF ToMaster
        <3>4. status'[cl] # "ended" => p + 1 <= n
            BY <1>1, <1>3, <3>1
        <3> QED
            BY <3>1, <3>2, <3>3, <3>4 DEF ClientFits, Request, n
    <2> QED
        BY <1>4, <2>1, <2>2, <2>3 DEF ClientsFit
<1>7. CASE k < Len(list) /\ GoesTo(cl, p, rest) /\ Len(rest) = Len(list) - k
    <2>1. ClientsTyped'
        BY <1>1, <1>2, <1>3, <1>7 DEF ClientsTyped, GoesTo
    <2>2. ASSUME NEW o \in Clients \ {cl} PROVE ClientFits(o)'
        BY <1>1, <1>2, <1>7 DEF ClientsFit, ClientFits, GoesTo, Request
    <2>3. ClientFits(cl)'
        <3>1. /\ pc'[cl] = p
              /\ todo'[cl] = rest
              /\ used' = used
              /\ script' = script
            BY <1>1, <1>2, <1>7 DEF GoesTo
        <3>2. /\ Len(rest) \in 1 .. Len(list)
              /\ Len(list) - Len(rest) + 1 = k + 1
            BY <1>1, <1>5, <1>7
        <3>3. rest = SubSeq(list, Len(list) - Len(rest) + 1, Len(list))
            BY <3>2 DEF rest
        <3>4. p \in 1 .. n + 1 /\ p <= n
            BY <1>1, <1>3
        <3> QED
            BY <3>1, <3>2, <3>3, <3>4 DEF ClientFits, list, n
    <2> QED
        BY <1>4, <2>1, <2>2, <2>3 DEF ClientsFit
<1> QED
    BY <1>1, <1>6, <1>7

-----------------------------------------------------------------------------
(* What steps do to the answers                                            *)

\* The requests that change something on a chunk.
Changes == {"create_table", "add_row"}

KeepsAnswers ==
    /\ UNCHANGED <<script, table>>
    /\ \A o \in Clients : \A i \in 1 .. Len(script[o]) :
        script[o][i] \in Changes =>
            /\ Passed'[o][i] = Passed[o][i]
            /\ \/ used'[o][i] = used[o][i]
               \/ Passed[o][i] = 0 /\ status[o] # "died"
            /\ Hears(o, i)' => Hears(o, i)

OneMoreAnswer(cl) ==
    LET p == pc[cl]
        k == Passed[cl][p] + 1
    IN
    /\ UNCHANGED <<script, table, used>>
    /\ status[cl] = "asks"
    /\ Passed'[cl][p] = k
    /\ \A o \in Clients : \A i \in 1 .. Len(script[o]) :
        script[o][i] \in Changes /\ (o # cl \/ i # p) =>
            /\ Passed'[o][i] = Passed[o][i]
            /\ Hears(o, i)' => Hears(o, i)

\* The chunk whose answer a client waits for.
Awaits(cl) ==
    LET p == pc[cl]
        k == Passed[cl][p] + 1
    IN
    /\ p \in 1 .. Len(script[cl])
    /\ script[cl][p] \notin ToMaster
    /\ Passed[cl][p] \in Nat
    /\ used[cl][p] \in Seq(Chunks)
    /\ k \in 1 .. Len(used[cl][p])
    /\ used[cl][p][k] = Head(todo[cl])

LEMMA PassedIs ==
    ASSUME NEW cl \in Clients, NEW i \in 1 .. Len(script[cl])
    PROVE  /\ i < pc[cl] => Passed[cl][i] = Len(used[cl][i])
           /\ ~(i < pc[cl]) /\ i = pc[cl] =>
                Passed[cl][i] = Len(used[cl][i]) - Len(todo[cl])
           /\ ~(i < pc[cl]) /\ i # pc[cl] => Passed[cl][i] = 0
BY DEF Passed

LEMMA PassedIsNext ==
    ASSUME script' = script, NEW cl \in Clients, NEW i \in 1 .. Len(script[cl])
    PROVE  /\ i < pc'[cl] => Passed'[cl][i] = Len(used'[cl][i])
           /\ ~(i < pc'[cl]) /\ i = pc'[cl] =>
                Passed'[cl][i] = Len(used'[cl][i]) - Len(todo'[cl])
           /\ ~(i < pc'[cl]) /\ i # pc'[cl] => Passed'[cl][i] = 0
BY DEF Passed

\* At most all the chunks of a request have answered it.
LEMMA PassedBounds ==
    ASSUME ClientsFit, NEW cl \in Clients, NEW i \in 1 .. Len(script[cl]),
           script[cl][i] \notin ToMaster
    PROVE  /\ used[cl][i] \in Seq(Chunks)
           /\ Len(used[cl][i]) \in Nat
           /\ Passed[cl][i] \in 0 .. Len(used[cl][i])
<1>1. /\ used[cl] \in Seq(Seq(Chunks))
      /\ Len(used[cl]) = Len(script[cl])
      /\ script[cl] \in Seq(Types)
      /\ pc[cl] \in Nat
      /\ todo[cl] \in Seq(Chunks)
    BY DEF ClientsFit, ProgramTyped, ClientsTyped
<1>2. used[cl][i] \in Seq(Chunks)
    BY <1>1
<1>3. /\ Len(used[cl][i]) \in Nat
      /\ Len(todo[cl]) \in Nat
      /\ i \in Nat
      /\ i <= Len(script[cl])
    BY <1>1, <1>2
<1>4. i = pc[cl] => Len(todo[cl]) \in 1 .. Len(used[cl][i])
    BY <1>1, <1>3 DEF ClientsFit, ClientFits, Request
<1>5. /\ i < pc[cl] => Passed[cl][i] = Len(used[cl][i])
      /\ ~(i < pc[cl]) /\ i = pc[cl] =>
            Passed[cl][i] = Len(used[cl][i]) - Len(todo[cl])
      /\ ~(i < pc[cl]) /\ i # pc[cl] => Passed[cl][i] = 0
    BY PassedIs
<1>6. Passed[cl][i] \in 0 .. Len(used[cl][i])
    <2>1. CASE i < pc[cl]
        BY <1>3, <1>5, <2>1
    <2>2. CASE i = pc[cl]
        <3>1. ~(i < pc[cl])
            BY <1>1, <2>2
        <3>2. Passed[cl][i] = Len(used[cl][i]) - Len(todo[cl])
            BY <1>5, <2>2, <3>1
        <3>3. Len(todo[cl]) \in 1 .. Len(used[cl][i])
            BY <1>4, <2>2
        <3>4. Len(used[cl][i]) - Len(todo[cl]) \in 0 .. Len(used[cl][i])
            <4>1. \A a, b \in Nat : b \in 1 .. a => a - b \in 0 .. a
                OBVIOUS
            <4> QED
                BY <1>3, <3>3, <4>1
        <3> QED
            BY <3>2, <3>4
    <2>3. CASE ~(i < pc[cl]) /\ i # pc[cl]
        BY <1>3, <1>5, <2>3
    <2> QED
        BY <2>1, <2>2, <2>3
<1> QED
    BY <1>2, <1>3, <1>6

LEMMA WaitingAwaits ==
    ASSUME ClientsFit, NEW cl \in Clients, Request(cl) \notin ToMaster,
           status[cl] # "ended"
    PROVE  Awaits(cl)
<1> DEFINE p == pc[cl]
           list == used[cl][p]
           k == Len(list) - Len(todo[cl]) + 1
<1>1. /\ script[cl] \in Seq(Types)
      /\ p \in 1 .. Len(script[cl]) + 1
      /\ p <= Len(script[cl])
      /\ script[cl][p] \notin ToMaster
      /\ todo[cl] \in Seq(Chunks)
    BY DEF ClientsFit, ProgramTyped, ClientsTyped, ClientFits, Request
<1>2. p \in 1 .. Len(script[cl])
    BY <1>1
<1>3. /\ list \in Seq(Chunks)
      /\ Len(list) \in Nat
      /\ Passed[cl][p] \in 0 .. Len(list)
    BY <1>1, <1>2, PassedBounds
<1>4. /\ Len(todo[cl]) \in 1 .. Len(list)
      /\ todo[cl] = SubSeq(list, k, Len(list))
    BY <1>1 DEF ClientsFit, ClientFits, Request
<1>5. Passed[cl][p] = Len(list) - Len(todo[cl])
    <2>1. ~(p < pc[cl]) /\ p = pc[cl] =>
            Passed[cl][p] = Len(list) - Len(todo[cl])
        BY <1>2, PassedIs
    <2>2. ~(p < pc[cl])
        BY <1>1
    <2> QED
        BY <2>1, <2>2
<1> HIDE DEF p, list
<1>6. Passed[cl][p] + 1 = k /\ k \in 1 .. Len(list)
    BY <1>3, <1>4, <1>5
<1> HIDE DEF k
<1>7. Head(todo[cl]) = list[k]
    <2>1. SubSeq(list, k, Len(list))[1] = list[k]
        BY <1>3, <1>6
    <2> QED
        BY <1>1, <1>3, <1>4, <1>6, <2>1
<1>8. Passed[cl][p] \in Nat
    BY <1>3
<1> QED
    BY <1>1, <1>2, <1>3, <1>6, <1>7, <1>8 DEF Awaits, p, list

LEMMA StandsAnswers ==
    ASSUME ClientsFit, Stands
    PROVE  KeepsAnswers
<1>1. Passed' = Passed
    BY DEF Stands, Passed
<1>2. ASSUME NEW o \in Clients, NEW i \in 1 .. Len(script[o])
      PROVE  Hears(o, i)' => Hears(o, i)
    BY DEF Stands, Hears
<1> QED
    BY <1>1, <1>2 DEF Stands, KeepsAnswers

LEMMA MasterAnswersNothing ==
    ASSUME ClientsFit, NEW cl \in Clients, NEW list \in Seq(Chunks),
           MasterAnswered(cl, list)
    PROVE  KeepsAnswers
<1> DEFINE p == pc[cl]
           n == Len(script[cl])
<1>1. /\ p \in 1 .. n
      /\ script[cl][p] \in ToMaster
      /\ \/ /\ script[cl][p] # "chunks_by_query"
            /\ UNCHANGED used
            /\ GoesTo(cl, p + 1, <<>>)
         \/ /\ script[cl][p] = "chunks_by_query"
            /\ p + 1 \in 1 .. n
            /\ script[cl][p + 1] \notin ToMaster
            /\ Tells(cl, list)
            /\ \/ list # <<>> /\ GoesTo(cl, p + 1, list)
               \/ list = <<>> /\ GoesTo(cl, p + 2, <<>>)
               \/ list = <<>> /\ DiesAt(cl)
    BY MasterAnsweredEffect
<1>2. UNCHANGED <<script, table, size>> /\ status[cl] = "asks"
    BY DEF MasterAnswered
<1>3. /\ n \in Nat
      /\ Len(used[cl]) = n
      /\ WellFormed(script[cl])
      /\ status \in [Clients -> Statuses]
    BY DEF ClientsFit, ProgramTyped, ClientsTyped
<1> HIDE DEF p, n
<1>4. ASSUME NEW o \in Clients \ {cl}, NEW i \in 1 .. Len(script[o])
      PROVE  /\ Passed'[o][i] = Passed[o][i]
             /\ used'[o][i] = used[o][i]
             /\ Hears(o, i)' => Hears(o, i)
    <2>1. /\ used'[o] = used[o] /\ pc'[o] = pc[o] /\ todo'[o] = todo[o]
          /\ status'[o] = status[o]
        BY <1>1, <1>3 DEF GoesTo, Tells, DiesAt
    <2>2. /\ i < pc[o] => Passed[o][i] = Len(used[o][i])
          /\ ~(i < pc[o]) /\ i = pc[o] =>
                Passed[o][i] = Len(used[o][i]) - Len(todo[o])
          /\ ~(i < pc[o]) /\ i # pc[o] => Passed[o][i] = 0
        BY PassedIs
    <2>3. /\ i < pc'[o] => Passed'[o][i] = Len(used'[o][i])
          /\ ~(i < pc'[o]) /\ i = pc'[o] =>
                Passed'[o][i] = Len(used'[o][i]) - Len(todo'[o])
          /\ ~(i < pc'[o]) /\ i # pc'[o] => Passed'[o][i] = 0
        BY <1>2, PassedIsNext
    <2> QED
        BY <2>1, <2>2, <2>3 DEF Hears
<1>5. ASSUME NEW i \in 1 .. n, script[cl][i] \in Changes
      PROVE  /\ Passed'[cl][i] = Passed[cl][i]
             /\ used'[cl][i] = used[cl][i] \/ Passed[cl][i] = 0
    <2>1. i # p /\ script[cl][i] \notin ToMaster
        BY <1>1, <1>5 DEF Changes, ToMaster
    <2>2. i = p + 1 => script[cl][p] = "chunks_by_query"
        <3>1. i = p + 1 => i - 1 = p
            BY <1>1, <1>3
        <3>2. script[cl][i - 1] = "chunks_by_query"
            BY <1>3, <2>1 DEF WellFormed, n
        <3> QED
            BY <3>1, <3>2
    <2>3. i = p + 2 => script[cl][p + 1] \in ToMaster
        <3>1. i = p + 2 => i - 1 = p + 1
            BY <1>1, <1>3
        <3>2. script[cl][i - 1] = "chunks_by_query"
            BY <1>3, <2>1 DEF WellFormed, n
        <3> QED
            BY <3>1, <3>2 DEF ToMaster
    <2>4. /\ p \in Nat /\ i \in Nat
          /\ i < p => Passed[cl][i] = Len(used[cl][i])
          /\ ~(i < p) => Passed[cl][i] = 0
        <3>1. /\ i < p => Passed[cl][i] = Len(used[cl][i])
              /\ ~(i < p) /\ i # p => Passed[cl][i] = 0
            BY PassedIs DEF p, n
        <3> QED
            BY <1>1, <1>3, <2>1, <3>1
    <2>5. /\ i < pc'[cl] => Passed'[cl][i] = Len(used'[cl][i])
          /\ ~(i < pc'[cl]) /\ i = pc'[cl] =>
                Passed'[cl][i] = Len(used'[cl][i]) - Len(todo'[cl])
          /\ ~(i < pc'[cl]) /\ i # pc'[cl] => Passed'[cl][i] = 0
        BY <1>2, <1>5, PassedIsNext DEF n
    <2>6. CASE script[cl][p] # "chunks_by_query"
        BY <1>1, <2>1, <2>2, <2>4, <2>5, <2>6 DEF GoesTo
    <2>7. CASE script[cl][p] = "chunks_by_query" /\ i # p + 1
        <3>1. used'[cl][i] = used[cl][i]
            BY <1>1, <1>3, <1>5, <2>7 DEF Tells, p
        <3>2. pc'[cl] \in {p, p + 1, p + 2}
            BY <1>1, <2>7 DEF GoesTo, DiesAt, p
        <3> QED
            BY <1>1, <2>1, <2>3, <2>4, <2>5, <2>7, <3>1, <3>2
    <2>8. CASE script[cl][p] = "chunks_by_query" /\ i = p + 1
        <3>1. used'[cl][i] = list /\ Len(list) \in Nat /\ Passed[cl][i] = 0
            BY <1>1, <2>4, <2>8 DEF Tells, p
        <3>2. \/ pc'[cl] = p + 1 /\ todo'[cl] = list
              \/ pc'[cl] = p + 2 /\ list = <<>>
              \/ pc'[cl] = p
            BY <1>1, <2>8 DEF GoesTo, DiesAt, p
        <3> QED
            BY <2>4, <2>5, <2>8, <3>1, <3>2
    <2> QED
        BY <2>6, <2>7, <2>8
<1> QED
    BY <1>2, <1>4, <1>5 DEF KeepsAnswers, Hears, n

LEMMA KeptIs ==
    ASSUME UNCHANGED <<script, table, used>>, NEW cl \in Clients,
           \A o \in Clients \ {cl} : \A i \in 1 .. Len(script[o]) :
             /\ Passed'[o][i] = Passed[o][i]
             /\ Hears(o, i)' => Hears(o, i),
           \A i \in 1 .. Len(script[cl]) : Hears(cl, i),
           \A i \in 1 .. Len(script[cl]) :
             script[cl][i] \in Changes => Passed'[cl][i] = Passed[cl][i]
    PROVE  KeepsAnswers
BY DEF KeepsAnswers

LEMMA OneMoreIs ==
    ASSUME UNCHANGED <<script, table, used>>, NEW cl \in Clients,
           status[cl] = "asks",
           \A o \in Clients \ {cl} : \A i \in 1 .. Len(script[o]) :
             /\ Passed'[o][i] = Passed[o][i]
             /\ Hears(o, i)' => Hears(o, i),
           \A i \in 1 .. Len(script[cl]) : Hears(cl, i),
           \A i \in 1 .. Len(script[cl]) :
             script[cl][i] \in Changes /\ i # pc[cl] =>
               Passed'[cl][i] = Passed[cl][i],
           Passed'[cl][pc[cl]] = Passed[cl][pc[cl]] + 1
    PROVE  OneMoreAnswer(cl)
BY DEF OneMoreAnswer

LEMMA ChunkAnswersMore ==
    ASSUME ClientsFit, NEW cl \in Clients, ChunkAnswered(cl)
    PROVE  /\ script[cl][pc[cl]] \in Changes => OneMoreAnswer(cl)
           /\ script[cl][pc[cl]] \notin Changes => KeepsAnswers
<1> DEFINE p == pc[cl]
           n == Len(script[cl])
           list == used[cl][p]
           k == Len(list) - Len(todo[cl]) + 1
           rest == SubSeq(list, k + 1, Len(list))
<1>1. /\ p \in 1 .. n
      /\ script[cl][p] \notin ToMaster
      /\ UNCHANGED used
      /\ list \in Seq(Chunks)
      /\ k \in 1 .. Len(list)
      /\ \/ /\ script[cl][p] = "schema" \/ k = Len(list)
            /\ GoesTo(cl, p + 1, <<>>)
         \/ k < Len(list) /\ GoesTo(cl, p, rest) /\ Len(rest) = Len(list) - k
    BY ChunkAnsweredEffect
<1>2. UNCHANGED <<script, table, size>> /\ status[cl] = "asks"
    BY DEF ChunkAnswered
<1>3. /\ n \in Nat
      /\ p \in Nat
      /\ Len(list) \in Nat
      /\ Len(todo[cl]) \in Nat
      /\ status \in [Clients -> Statuses]
      /\ WellFormed(script[cl])
    BY <1>1 DEF ClientsFit, ProgramTyped, ClientsTyped
<1>4. ASSUME NEW o \in Clients \ {cl}, NEW i \in 1 .. Len(script[o])
      PROVE  /\ Passed'[o][i] = Passed[o][i]
             /\ Hears(o, i)' => Hears(o, i)
    <2>1. /\ used'[o] = used[o] /\ pc'[o] = pc[o] /\ todo'[o] = todo[o]
          /\ status'[o] = status[o]
        BY <1>1 DEF GoesTo
    <2>2. /\ i < pc[o] => Passed[o][i] = Len(used[o][i])
          /\ ~(i < pc[o]) /\ i = pc[o] =>
                Passed[o][i] = Len(used[o][i]) - Len(todo[o])
          /\ ~(i < pc[o]) /\ i # pc[o] => Passed[o][i] = 0
        BY PassedIs
    <2>3. /\ i < pc'[o] => Passed'[o][i] = Len(used'[o][i])
          /\ ~(i < pc'[o]) /\ i = pc'[o] =>
                Passed'[o][i] = Len(used'[o][i]) - Len(todo'[o])
          /\ ~(i < pc'[o]) /\ i # pc'[o] => Passed'[o][i] = 0
        BY <1>2, PassedIsNext
    <2> QED
        BY <2>1, <2>2, <2>3 DEF Hears
<1>5. Passed[cl][p] = Len(list) - Len(todo[cl])
    <2>1. ~(p < pc[cl]) /\ p = pc[cl] =>
            Passed[cl][p] = Len(list) - Len(todo[cl])
        BY <1>1, PassedIs
    <2>2. ~(p < pc[cl])
        BY <1>3
    <2> QED
        BY <2>1, <2>2
<1>6. \A i \in 1 .. n :
        /\ i < pc'[cl] => Passed'[cl][i] = Len(used'[cl][i])
        /\ ~(i < pc'[cl]) /\ i = pc'[cl] =>
                Passed'[cl][i] = Len(used'[cl][i]) - Len(todo'[cl])
        /\ ~(i < pc'[cl]) /\ i # pc'[cl] => Passed'[cl][i] = 0
    BY <1>2, PassedIsNext
<1>7. \A i \in 1 .. n :
        /\ i < p => Passed[cl][i] = Len(used[cl][i])
        /\ ~(i < p) /\ i # p => Passed[cl][i] = 0
    BY PassedIs
<1>8. UNCHANGED used
    BY <1>1
<1> HIDE DEF p, n, list, rest
<1>9. Hears(cl, p) /\ \A i \in 1 .. n : Hears(cl, i)
    BY <1>2 DEF Hears
<1>10. CASE GoesTo(cl, p + 1, <<>>)
            /\ (script[cl][p] = "schema" \/ k = Len(list))
    <2>1. pc'[cl] = p + 1
        BY <1>10 DEF GoesTo
    <2>2. ASSUME NEW i \in 1 .. n, i # p, i # p + 1
          PROVE  Passed'[cl][i] = Passed[cl][i]
        <3>1. CASE i < p
            <4>1. i < p + 1
                BY <1>3, <3>1
            <4> QED
                BY <1>6, <1>7, <1>8, <2>1, <3>1, <4>1
        <3>2. CASE ~(i < p)
            <4>1. ~(i < p + 1)
                BY <1>3, <2>2, <3>2
            <4> QED
                BY <1>6, <1>7, <2>1, <2>2, <3>2, <4>1
        <3> QED
            BY <3>1, <3>2
    <2>3. ASSUME NEW i \in 1 .. n, i = p + 1 PROVE script[cl][i] \in ToMaster
        <3>1. i - 1 = p
            BY <1>3, <2>3
        <3> SUFFICES ASSUME script[cl][i] \notin ToMaster PROVE FALSE
            OBVIOUS
        <3>2. script[cl][i - 1] = "chunks_by_query"
            BY <1>3 DEF WellFormed, n
        <3> QED
            BY <1>1, <3>1, <3>2 DEF ToMaster
    <2>4. Passed'[cl][p] = Len(list)
        <3>1. p < p + 1
            BY <1>3
        <3> QED
            BY <1>1, <1>6, <1>8, <2>1, <3>1 DEF list
    <2>5. \A i \in 1 .. n : script[cl][i] \in Changes /\ i # p =>
            Passed'[cl][i] = Passed[cl][i]
        BY <2>2, <2>3 DEF Changes, ToMaster
    <2>6. script[cl][p] \in Changes => Passed'[cl][p] = Passed[cl][p] + 1
        BY <1>3, <1>5, <1>10, <2>4 DEF Changes
    <2> QED
        BY <1>1, <1>2, <1>4, <1>8, <1>9, <2>5, <2>6, OneMoreIs, KeptIs DEF p, n
<1>11. CASE k < Len(list) /\ GoesTo(cl, p, rest) /\ Len(rest) = Len(list) - k
    <2>1. pc'[cl] = p /\ todo'[cl] = rest
        BY <1>11 DEF GoesTo
    <2>2. ASSUME NEW i \in 1 .. n, i # p
          PROVE  Passed'[cl][i] = Passed[cl][i]
        <3>1. CASE i < p
            BY <1>6, <1>7, <1>8, <2>1, <3>1
        <3>2. CASE ~(i < p)
            BY <1>6, <1>7, <2>1, <2>2, <3>2
        <3> QED
            BY <3>1, <3>2
    <2>3. Passed'[cl][p] = Len(list) - Len(rest)
        <3>1. ~(p < p)
            BY <1>3
        <3> QED
            BY <1>1, <1>6, <1>8, <2>1, <3>1 DEF list
    <2>4. Passed'[cl][p] = Passed[cl][p] + 1
        BY <1>3, <1>5, <1>11, <2>3
    <2> QED
        BY <1>1, <1>2, <1>4, <1>8, <1>9, <2>2, <2>4, OneMoreIs, KeptIs DEF p, n
<1> QED
    BY <1>1, <1>10, <1>11

-----------------------------------------------------------------------------
(* Creations                                                               *)

LEMMA MadeTyped ==
    ASSUME ClientsFit, NEW m \in Made
    PROVE  /\ m[1] \in Clients
           /\ m[2] \in 1 .. Len(script[m[1]])
           /\ script[m[1]][m[2]] = "create_table"
           /\ m[3] \in 1 .. Len(used[m[1]][m[2]])
           /\ Passed[m[1]][m[2]] # 0
           /\ Where[m] = <<used[m[1]][m[2]][m[3]], table[m[1]]>>
           /\ Where[m][1] \in Chunks
           /\ Where[m][2] \in Tables
<1>1. /\ m[1] \in Clients
      /\ m[2] \in 1 .. Len(script[m[1]])
      /\ script[m[1]][m[2]] = "create_table"
      /\ m[3] \in 1 .. Passed[m[1]][m[2]]
      /\ m[3] \in Nat
    BY DEF Made
<1>2. /\ used[m[1]][m[2]] \in Seq(Chunks)
      /\ Len(used[m[1]][m[2]]) \in Nat
      /\ Passed[m[1]][m[2]] \in 0 .. Len(used[m[1]][m[2]])
    <2>1. script[m[1]][m[2]] \notin ToMaster
        BY <1>1 DEF ToMaster
    <2> QED
        BY <1>1, <2>1, PassedBounds
<1>3. m[3] \in 1 .. Len(used[m[1]][m[2]]) /\ Passed[m[1]][m[2]] # 0
    BY <1>1, <1>2
<1>4. Where[m] = <<used[m[1]][m[2]][m[3]], table[m[1]]>>
    BY DEF Where
<1>5. used[m[1]][m[2]][m[3]] \in Chunks
    BY <1>2, <1>3
<1>6. table[m[1]] \in Tables
    BY <1>1 DEF ClientsFit, ProgramTyped
<1> QED
    BY <1>1, <1>3, <1>4, <1>5, <1>6

LEMMA MadeKept ==
    ASSUME ClientsFit, KeepsAnswers
    PROVE  Made' = Made /\ \A m \in Made : Where'[m] = Where[m]
<1>1. ASSUME NEW m \in Clients \X Nat \X Nat,
             m[2] \in 1 .. Len(script[m[1]]),
             script[m[1]][m[2]] = "create_table"
      PROVE  Passed'[m[1]][m[2]] = Passed[m[1]][m[2]]
    BY <1>1 DEF KeepsAnswers, Changes
<1>2. Made' = Made
    BY <1>1 DEF Made, KeepsAnswers
<1>3. ASSUME NEW m \in Made PROVE Where'[m] = Where[m]
    <2>1. /\ m[1] \in Clients
          /\ m[2] \in 1 .. Len(script[m[1]])
          /\ script[m[1]][m[2]] = "create_table"
          /\ Passed[m[1]][m[2]] # 0
          /\ Where[m] = <<used[m[1]][m[2]][m[3]], table[m[1]]>>
        BY MadeTyped
    <2>2. used'[m[1]][m[2]] = used[m[1]][m[2]] /\ table' = table
        BY <2>1 DEF KeepsAnswers, Changes
    <2>3. Where'[m] = <<used'[m[1]][m[2]][m[3]], table'[m[1]]>>
        BY <1>2 DEF Where
    <2> QED
        BY <2>1, <2>2, <2>3
<1> QED
    BY <1>2, <1>3

\* No file of a table is lost that is there as a whole.
FilesKept ==
    \A c \in Chunks, t \in Tables : files[c][t] = "both" => files'[c][t] = "both"

LEMMA CreatesKept ==
    ASSUME ClientsFit, CreatesFit, FilesKept,
           Made' = Made, \A m \in Made : Where'[m] = Where[m]
    PROVE  CreatesFit'
<1>1. ASSUME NEW m \in Made PROVE files'[Where'[m][1]][Where'[m][2]] = "both"
    <2>1. PICK c \in Chunks, t \in Tables : c = Where[m][1] /\ t = Where[m][2]
        BY MadeTyped
    <2>2. files[c][t] = "both"
        BY <2>1 DEF CreatesFit
    <2>3. files'[c][t] = "both"
        BY <2>2 DEF FilesKept
    <2> QED
        BY <2>1, <2>3
<1>2. ASSUME NEW m \in Made, NEW o \in Made, Where'[m] = Where'[o]
      PROVE  m = o
    BY <1>2 DEF CreatesFit
<1> QED
    BY <1>1, <1>2 DEF CreatesFit

\* An answer to another request than a creation.
LEMMA MadeByOthers ==
    ASSUME ClientsFit, NEW cl \in Clients, OneMoreAnswer(cl),
           script[cl][pc[cl]] # "create_table"
    PROVE  Made' = Made /\ \A m \in Made : Where'[m] = Where[m]
<1>1. ASSUME NEW m \in Clients \X Nat \X Nat,
             m[2] \in 1 .. Len(script[m[1]]),
             script[m[1]][m[2]] = "create_table"
      PROVE  Passed'[m[1]][m[2]] = Passed[m[1]][m[2]]
    BY <1>1 DEF OneMoreAnswer, Changes
<1>2. Made' = Made
    BY <1>1 DEF Made, OneMoreAnswer
<1>3. ASSUME NEW m \in Made PROVE Where'[m] = Where[m]
    BY <1>2 DEF Where, OneMoreAnswer
<1> QED
    BY <1>2, <1>3

\* A chunk acknowledges a creation only if it did not have the table.
LEMMA CreationKeeps ==
    ASSUME ClientsFit, CreatesFit, FilesKept,
           NEW cl \in Clients, OneMoreAnswer(cl), Awaits(cl),
           script[cl][pc[cl]] = "create_table",
           files[Head(todo[cl])][table[cl]] # "both",
           files'[Head(todo[cl])][table[cl]] = "both"
    PROVE  CreatesFit'
<1> DEFINE p == pc[cl]
           k == Passed[cl][p] + 1
           new == <<cl, p, k>>
           place == <<Head(todo[cl]), table[cl]>>
<1>1. /\ p \in 1 .. Len(script[cl])
      /\ Passed[cl][p] \in Nat
      /\ used[cl][p][k] = Head(todo[cl])
      /\ p \in Nat
      /\ k \in Nat
    BY DEF Awaits
<1>2. /\ UNCHANGED <<script, table, used>>
      /\ Passed'[cl][p] = k
    BY DEF OneMoreAnswer
<1>3. \A o \in Clients : \A i \in 1 .. Len(script[o]) :
        script[o][i] = "create_table" /\ (o # cl \/ i # p) =>
            Passed'[o][i] = Passed[o][i]
    BY DEF OneMoreAnswer, Changes
<1>4. new \in Clients \X Nat \X Nat /\ new[1] = cl /\ new[2] = p /\ new[3] = k
    BY <1>1
<1>5. new \in Made'
    <2>1. k \in 1 .. Passed'[cl][p]
        BY <1>1, <1>2
    <2> QED
        BY <1>1, <1>2, <1>4, <2>1 DEF Made
<1> HIDE DEF new
<1>6. ASSUME NEW m \in Made PROVE m \in Made'
    <2>1. /\ m \in Clients \X Nat \X Nat
          /\ m[2] \in 1 .. Len(script[m[1]])
          /\ script[m[1]][m[2]] = "create_table"
          /\ m[3] \in 1 .. Passed[m[1]][m[2]]
        BY DEF Made
    <2>2. m[3] \in 1 .. Passed'[m[1]][m[2]]
        <3>1. CASE m[1] = cl /\ m[2] = p
            <4>1. m[3] \in 1 .. Passed[cl][p]
                BY <2>1, <3>1
            <4>2. m[3] \in 1 .. Passed'[cl][p]
                BY <1>1, <1>2, <4>1
            <4> QED
                BY <3>1, <4>2
        <3>2. CASE m[1] # cl \/ m[2] # p
            BY <1>3, <2>1, <3>2
        <3> QED
            BY <3>1, <3>2
    <2> QED
        BY <1>2, <2>1, <2>2 DEF Made
<1>7. ASSUME NEW m \in Made', m # new PROVE m \in Made
    <2>1. /\ m \in Clients \X Nat \X Nat
          /\ m[2] \in 1 .. Len(script[m[1]])
          /\ script[m[1]][m[2]] = "create_table"
          /\ m[3] \in 1 .. Passed'[m[1]][m[2]]
        BY <1>2 DEF Made
    <2>2. m[3] \in 1 .. Passed[m[1]][m[2]]
        <3>1. CASE m[1] = cl /\ m[2] = p
            <4>1. m[3] \in 1 .. k
                BY <1>2, <2>1, <3>1
            <4>2. m[3] # k
                BY <1>7, <2>1, <3>1 DEF new
            <4>3. m[3] \in 1 .. Passed[cl][p]
                BY <1>1, <4>1, <4>2
            <4> QED
                BY <3>1, <4>3
        <3>2. CASE m[1] # cl \/ m[2] # p
            BY <1>3, <2>1, <3>2
        <3> QED
            BY <3>1, <3>2
    <2> QED
        BY <2>1, <2>2 DEF Made
<1>8. ASSUME NEW m \in Made PROVE Where'[m] = Where[m]
    BY <1>2, <1>6 DEF Where
<1>9. Where'[new] = place
    <2>1. Where'[new] = <<used'[new[1]][new[2]][new[3]], table'[new[1]]>>
        BY <1>5 DEF Where
    <2> QED
        BY <1>1, <1>2, <1>4, <2>1
<1>10. ASSUME NEW m \in Made
       PROVE  /\ files'[Where[m][1]][Where[m][2]] = "both"
              /\ Where[m] # place
    <2>1. PICK c \in Chunks, t \in Tables : c = Where[m][1] /\ t = Where[m][2]
        BY MadeTyped
    <2>2. files[c][t] = "both"
        BY <2>1 DEF CreatesFit
    <2>3. files'[c][t] = "both"
        BY <2>2 DEF FilesKept
    <2>4. place[1] # c \/ place[2] # t
        BY <2>2
    <2> QED
        BY <2>1, <2>3, <2>4
<1>11. place[1] = Head(todo[cl]) /\ place[2] = table[cl]
    OBVIOUS
<1> HIDE DEF place
<1>12. ASSUME NEW m \in Made'
       PROVE  files'[Where'[m][1]][Where'[m][2]] = "both"
    <2>1. CASE m = new
        BY <1>9, <1>11, <2>1
    <2>2. CASE m # new
        BY <1>7, <1>8, <1>10, <2>2
    <2> QED
        BY <2>1, <2>2
<1>13. ASSUME NEW m \in Made', NEW o \in Made', Where'[m] = Where'[o]
       PROVE  m = o
    <2>1. CASE m # new /\ o # new
        BY <1>7, <1>8, <1>13, <2>1 DEF CreatesFit
    <2>2. CASE m = new /\ o # new
        BY <1>7, <1>8, <1>9, <1>10, <1>13, <2>2
    <2>3. CASE m # new /\ o = new
        BY <1>7, <1>8, <1>9, <1>10, <1>13, <2>3
    <2> QED
        BY <2>1, <2>2, <2>3
<1> QED
    BY <1>12, <1>13 DEF CreatesFit

-----------------------------------------------------------------------------
(* Counting                                                                *)

LEMMA CountTyped ==
    ASSUME NEW s, NEW n \in Nat, NEW e
    PROVE  /\ IsFiniteSet(Positions(s, n, e))
           /\ Count(s, n, e) \in Nat
<1>1. IsFiniteSet(1 .. n)
    BY FS_Interval
<1>2. Positions(s, n, e) \in SUBSET (1 .. n)
    BY DEF Positions
<1>3. IsFiniteSet(Positions(s, n, e))
    BY <1>1, <1>2, FS_Subset
<1> QED
    BY <1>3, FS_CardinalityType DEF Count

LEMMA CountNothing ==
    ASSUME NEW s, NEW e
    PROVE  Count(s, 0, e) = 0
<1>1. Positions(s, 0, e) = {}
    BY DEF Positions
<1> QED
    BY <1>1, FS_EmptySet DEF Count

LEMMA CountStep ==
    ASSUME NEW s, NEW n \in Nat, NEW e
    PROVE  /\ s[n + 1] = e => Count(s, n + 1, e) = Count(s, n, e) + 1
           /\ s[n + 1] # e => Count(s, n + 1, e) = Count(s, n, e)
<1> DEFINE S == Positions(s, n, e)
           T == Positions(s, n + 1, e)
<1>1. IsFiniteSet(S)
    BY CountTyped
<1>2. n + 1 \notin S
    BY DEF Positions
<1>3. \A k : k \in 1 .. n + 1 <=> k \in 1 .. n \/ k = n + 1
    OBVIOUS
<1>4. CASE s[n + 1] = e
    <2>1. T = S \cup {n + 1}
        BY <1>3, <1>4 DEF Positions
    <2>2. Cardinality(S \cup {n + 1}) = Cardinality(S) + 1
        BY <1>1, <1>2, FS_AddElement
    <2> QED
        BY <1>4, <2>1, <2>2 DEF Count
<1>5. CASE s[n + 1] # e
    <2>1. T = S
        BY <1>3, <1>5 DEF Positions
    <2> QED
        BY <1>5, <2>1 DEF Count
<1> QED
    BY <1>4, <1>5

LEMMA CountGrows ==
    ASSUME NEW s, NEW m \in Nat, NEW n \in Nat, m <= n, NEW e
    PROVE  Count(s, m, e) <= Count(s, n, e)
<1>1. IsFiniteSet(Positions(s, n, e))
    BY CountTyped
<1>2. Positions(s, m, e) \in SUBSET Positions(s, n, e)
    BY DEF Positions
<1> QED
    BY <1>1, <1>2, FS_Subset DEF Count

LEMMA TimesIsCount ==
    ASSUME NEW S, NEW s \in Seq(S), NEW e
    PROVE  Times(s, e) = Count(s, Len(s), e) /\ Times(s, e) \in Nat
<1>1. DOMAIN s = 1 .. Len(s) /\ Len(s) \in Nat
    OBVIOUS
<1>2. Times(s, e) = Count(s, Len(s), e)
    BY <1>1 DEF Times, Count, Positions
<1>3. Count(s, Len(s), e) \in Nat
    BY <1>1, CountTyped
<1> QED
    BY <1>2, <1>3

LEMMA TimesAppend ==
    ASSUME NEW S, NEW s \in Seq(S), NEW x \in S, NEW e
    PROVE  /\ x = e => Times(Append(s, x), e) = Times(s, e) + 1
           /\ x # e => Times(Append(s, x), e) = Times(s, e)
<1> DEFINE t == Append(s, x)
           n == Len(s)
<1>1. /\ t \in Seq(S)
      /\ n \in Nat
      /\ Len(t) = n + 1
      /\ t[n + 1] = x
      /\ \A k \in 1 .. n : t[k] = s[k]
    OBVIOUS
<1> HIDE DEF t, n
<1>2. Times(t, e) = Count(t, n + 1, e)
    BY <1>1, TimesIsCount
<1>3. Count(t, n, e) = Count(s, n, e)
    <2>1. Positions(t, n, e) = Positions(s, n, e)
        BY <1>1 DEF Positions
    <2> QED
        BY <2>1 DEF Count
<1>4. Times(s, e) = Count(s, n, e)
    BY TimesIsCount DEF n
<1>5. /\ t[n + 1] = e => Count(t, n + 1, e) = Count(t, n, e) + 1
      /\ t[n + 1] # e => Count(t, n + 1, e) = Count(t, n, e)
    BY <1>1, CountStep
<1> QED
    BY <1>1, <1>2, <1>3, <1>4, <1>5 DEF t

\* An element that occurs twice is at two places.
LEMMA TimesOfInjective ==
    ASSUME NEW S, NEW s \in Seq(S), IsInjective(s), NEW e
    PROVE  Times(s, e) <= 1
<1> DEFINE T == {k \in DOMAIN s : s[k] = e}
<1>0. Times(s, e) = Cardinality(T)
    BY DEF Times
<1>1. CASE T = {}
    <2>1. Cardinality(T) = 0
        BY <1>1, FS_EmptySet
    <2> QED
        BY <1>0, <2>1
<1>2. CASE T # {}
    <2>1. PICK k : k \in T
        BY <1>2
    <2>2. T = {k}
        BY <2>1 DEF IsInjective
    <2>3. Cardinality({k}) = 1
        BY FS_Singleton
    <2> HIDE DEF T
    <2> QED
        BY <1>0, <2>2, <2>3
<1> QED
    BY <1>1, <1>2

-----------------------------------------------------------------------------
(* Rows                                                                    *)

LEMMA RowsAre ==
    ASSUME NEW cl \in Clients, NEW i \in 1 .. Len(script[cl]), NEW c \in Chunks
    PROVE  /\ Told[cl][i][c] = Times(used[cl][i], c)
           /\ Answered[cl][i][c] = Count(used[cl][i], Passed[cl][i], c)
BY DEF Told, Answered

LEMMA RowsAreNext ==
    ASSUME script' = script,
           NEW cl \in Clients, NEW i \in 1 .. Len(script[cl]), NEW c \in Chunks
    PROVE  /\ Told'[cl][i][c] = Times(used'[cl][i], c)
           /\ Answered'[cl][i][c] = Count(used'[cl][i], Passed'[cl][i], c)
BY DEF Told, Answered

LEMMA PerformedIs ==
    ASSUME ChunksTyped, NEW c \in Chunks, NEW r \in Clients \X Nat
    PROVE  Performed[c][r] = Times(added[c], r) /\ Performed[c][r] \in Nat
<1>1. added[c] \in Seq(Clients \X Nat)
    BY DEF ChunksTyped
<1>2. Performed[c][r] = Times(added[c], r)
    BY DEF Performed
<1> QED
    BY <1>1, <1>2, TimesIsCount

\* How often the chunks of a request were told and answered, after a step that
\* answers none of those that change something.
LEMMA AnswersKept ==
    ASSUME ClientsFit, ClientsFit', KeepsAnswers,
           NEW cl \in Clients, NEW i \in 1 .. Len(script[cl]), NEW c \in Chunks,
           script[cl][i] = "add_row"
    PROVE  /\ Answered'[cl][i][c] = Answered[cl][i][c]
           /\ \/ Told'[cl][i][c] = Told[cl][i][c]
              \/ /\ Told'[cl][i][c] \in Nat
                 /\ Answered[cl][i][c] = 0
                 /\ Hears(cl, i)
           /\ Hears(cl, i)' => Hears(cl, i)
<1>1. /\ script' = script
      /\ Passed'[cl][i] = Passed[cl][i]
      /\ \/ used'[cl][i] = used[cl][i]
         \/ Passed[cl][i] = 0 /\ status[cl] # "died"
      /\ Hears(cl, i)' => Hears(cl, i)
    BY DEF KeepsAnswers, Changes
<1>2. /\ Told[cl][i][c] = Times(used[cl][i], c)
      /\ Answered[cl][i][c] = Count(used[cl][i], Passed[cl][i], c)
    BY RowsAre
<1>3. /\ Told'[cl][i][c] = Times(used'[cl][i], c)
      /\ Answered'[cl][i][c] = Count(used'[cl][i], Passed'[cl][i], c)
    BY <1>1, RowsAreNext
<1>4. CASE used'[cl][i] = used[cl][i]
    BY <1>1, <1>2, <1>3, <1>4
<1>5. CASE Passed[cl][i] = 0 /\ status[cl] # "died"
    <2>1. Answered'[cl][i][c] = 0 /\ Answered[cl][i][c] = 0
        BY <1>1, <1>2, <1>3, <1>5, CountNothing
    <2>2. Told'[cl][i][c] \in Nat
        <3>1. /\ used'[cl] \in Seq(Seq(Chunks))
              /\ Len(used'[cl]) = Len(script[cl])
            BY <1>1 DEF ClientsFit, ClientsTyped
        <3>2. used'[cl][i] \in Seq(Chunks)
            BY <3>1
        <3> QED
            BY <1>3, <3>2, TimesIsCount
    <2> QED
        BY <1>1, <1>5, <2>1, <2>2 DEF Hears
<1> QED
    BY <1>1, <1>4, <1>5

LEMMA RowsKept ==
    ASSUME ClientsFit, ClientsFit', RowsFit, KeepsAnswers, added' = added
    PROVE  RowsFit'
<1>1. Performed' = Performed /\ script' = script
    BY DEF Performed, KeepsAnswers
<1>2. ASSUME NEW cl \in Clients, NEW i \in Nat, NEW c \in Chunks
      PROVE  IF i \in 1 .. Len(script[cl]) /\ script[cl][i] = "add_row"
             THEN /\ Performed'[c][<<cl, i>>] <= Told'[cl][i][c]
                  /\ Hears(cl, i)' =>
                        Performed'[c][<<cl, i>>] = Answered'[cl][i][c]
             ELSE Performed'[c][<<cl, i>>] = 0
    <2>1. CASE i \in 1 .. Len(script[cl]) /\ script[cl][i] = "add_row"
        <3>1. /\ Performed[c][<<cl, i>>] <= Told[cl][i][c]
              /\ Hears(cl, i) => Performed[c][<<cl, i>>] = Answered[cl][i][c]
            BY <2>1 DEF RowsFit
        <3>2. /\ Answered'[cl][i][c] = Answered[cl][i][c]
              /\ \/ Told'[cl][i][c] = Told[cl][i][c]
                 \/ /\ Told'[cl][i][c] \in Nat
                    /\ Answered[cl][i][c] = 0
                    /\ Hears(cl, i)
              /\ Hears(cl, i)' => Hears(cl, i)
            BY <2>1, AnswersKept
        <3> QED
            BY <1>1, <2>1, <3>1, <3>2
    <2>2. CASE ~(i \in 1 .. Len(script[cl]) /\ script[cl][i] = "add_row")
        <3>1. Performed[c][<<cl, i>>] = 0
            BY <2>2 DEF RowsFit
        <3> QED
            BY <1>1, <2>2, <3>1
    <2> QED
        BY <2>1, <2>2
<1> QED
    BY <1>1, <1>2 DEF RowsFit

\* An answer to another request than one to add a row.
LEMMA RowsByOthers ==
    ASSUME ClientsFit, RowsFit, NEW cl \in Clients, OneMoreAnswer(cl),
           script[cl][pc[cl]] # "add_row", added' = added
    PROVE  RowsFit'
<1>1. Performed' = Performed /\ script' = script /\ used' = used
    BY DEF Performed, OneMoreAnswer
<1>2. ASSUME NEW o \in Clients, NEW i \in Nat, NEW c \in Chunks
      PROVE  IF i \in 1 .. Len(script[o]) /\ script[o][i] = "add_row"
             THEN /\ Performed'[c][<<o, i>>] <= Told'[o][i][c]
                  /\ Hears(o, i)' =>
                        Performed'[c][<<o, i>>] = Answered'[o][i][c]
             ELSE Performed'[c][<<o, i>>] = 0
    <2>1. CASE i \in 1 .. Len(script[o]) /\ script[o][i] = "add_row"
        <3>1. /\ Performed[c][<<o, i>>] <= Told[o][i][c]
              /\ Hears(o, i) => Performed[c][<<o, i>>] = Answered[o][i][c]
            BY <2>1 DEF RowsFit
        <3>2. Passed'[o][i] = Passed[o][i] /\ (Hears(o, i)' => Hears(o, i))
            BY <2>1 DEF OneMoreAnswer, Changes
        <3>3. /\ Told[o][i][c] = Times(used[o][i], c)
              /\ Answered[o][i][c] = Count(used[o][i], Passed[o][i], c)
            BY <2>1, RowsAre
        <3>4. /\ Told'[o][i][c] = Times(used'[o][i], c)
              /\ Answered'[o][i][c] = Count(used'[o][i], Passed'[o][i], c)
            BY <1>1, <2>1, RowsAreNext
        <3> QED
            BY <1>1, <2>1, <3>1, <3>2, <3>3, <3>4
    <2>2. CASE ~(i \in 1 .. Len(script[o]) /\ script[o][i] = "add_row")
        <3>1. Performed[c][<<o, i>>] = 0
            BY <2>2 DEF RowsFit
        <3> QED
            BY <1>1, <2>2, <3>1
    <2> QED
        BY <2>1, <2>2
<1> QED
    BY <1>1, <1>2 DEF RowsFit

LEMMA PerformedMore ==
    ASSUME ChunksTyped, NEW c \in Chunks, NEW r \in Clients \X Nat,
           added' = [added EXCEPT ![c] = Append(@, r)]
    PROVE  /\ Performed'[c][r] = Performed[c][r] + 1
           /\ \A d \in Chunks, q \in Clients \X Nat :
                d # c \/ q # r => Performed'[d][q] = Performed[d][q]
<1> DEFINE Rows == Clients \X Nat
<1>1. /\ added[c] \in Seq(Rows)
      /\ added'[c] = Append(added[c], r)
      /\ \A d \in Chunks : d # c => added'[d] = added[d]
    BY DEF ChunksTyped
<1>0. r \in Rows
    OBVIOUS
<1>2. \A d \in Chunks, q \in Rows :
        /\ Performed[d][q] = Times(added[d], q)
        /\ Performed'[d][q] = Times(added'[d], q)
    BY DEF Performed
<1> HIDE DEF Rows
<1>3. Times(Append(added[c], r), r) = Times(added[c], r) + 1
    BY <1>1, <1>0, TimesAppend
<1>4. ASSUME NEW q \in Rows, q # r
      PROVE  Times(Append(added[c], r), q) = Times(added[c], q)
    <2>1. r # q
        BY <1>4
    <2> QED
        BY <1>1, <2>1, <1>0, TimesAppend
<1>5. Performed'[c][r] = Performed[c][r] + 1
    <2>1. Performed'[c][r] = Times(Append(added[c], r), r)
        BY <1>0, <1>1, <1>2
    <2> QED
        BY <1>0, <1>2, <1>3, <2>1
<1>6. ASSUME NEW d \in Chunks, NEW q \in Rows, d # c \/ q # r
      PROVE  Performed'[d][q] = Performed[d][q]
    <2>1. CASE d # c
        BY <1>1, <1>2, <2>1
    <2>2. CASE d = c /\ q # r
        <3>1. Performed'[c][q] = Times(Append(added[c], r), q)
            BY <1>1, <1>2, <1>6
        <3> QED
            BY <1>2, <1>4, <1>6, <2>2, <3>1
    <2> QED
        BY <1>6, <2>1, <2>2
<1> QED
    BY <1>5, <1>6 DEF Rows

\* A chunk adds a row that it was not asked for before; its client is told so,
\* or it died and never asks again.
LEMMA RowAddedKeeps ==
    ASSUME ClientsFit, ClientsFit', ChunksTyped, RowsFit,
           NEW cl \in Clients, NEW c \in Chunks,
           status[cl] # "died", Awaits(cl), c = Head(todo[cl]),
           NEW p \in Nat, p = pc[cl], script[cl][p] = "add_row",
           added' = [added EXCEPT ![c] = Append(@, <<cl, p>>)],
           \/ OneMoreAnswer(cl)
           \/ KeepsAnswers /\ used' = used /\ ~Hears(cl, p)'
    PROVE  RowsFit'
<1> DEFINE r == <<cl, p>>
           list == used[cl][p]
           k == Passed[cl][p] + 1
<1>1. /\ p \in 1 .. Len(script[cl])
      /\ p \in Nat
      /\ list \in Seq(Chunks)
      /\ Len(list) \in Nat
      /\ k \in 1 .. Len(list)
      /\ list[k] = c
      /\ Passed[cl][p] \in Nat
    BY DEF Awaits
<1>2. script' = script /\ used' = used
    BY DEF OneMoreAnswer, KeepsAnswers
<1>3. r \in Clients \X Nat
    BY <1>1
<1>4. /\ Performed'[c][r] = Performed[c][r] + 1
      /\ \A d \in Chunks, q \in Clients \X Nat :
            d # c \/ q # r => Performed'[d][q] = Performed[d][q]
    BY <1>3, PerformedMore
<1>5. ASSUME NEW o \in Clients, NEW i \in 1 .. Len(script[o]),
             script[o][i] = "add_row", o # cl \/ i # p
      PROVE  Passed'[o][i] = Passed[o][i] /\ (Hears(o, i)' => Hears(o, i))
    BY <1>5 DEF OneMoreAnswer, KeepsAnswers, Changes
<1>6. \/ Passed'[cl][p] = k
      \/ ~Hears(cl, p)'
    BY DEF OneMoreAnswer
<1>7. Hears(cl, p)
    BY DEF Hears
<1>8. \A o \in Clients : \A i \in 1 .. Len(script[o]) : \A d \in Chunks :
        /\ Told[o][i][d] = Times(used[o][i], d)
        /\ Answered[o][i][d] = Count(used[o][i], Passed[o][i], d)
        /\ Told'[o][i][d] = Times(used'[o][i], d)
        /\ Answered'[o][i][d] = Count(used'[o][i], Passed'[o][i], d)
    BY <1>2, RowsAre, RowsAreNext
<1> HIDE DEF list, k
<1>9. \A i \in Nat : <<cl, i>> # r => i # p
    OBVIOUS
<1>10. Performed[c][r] = Count(list, Passed[cl][p], c)
    <2>1. Performed[c][<<cl, p>>] = Answered[cl][p][c]
        BY <1>1, <1>7 DEF RowsFit
    <2> QED
        BY <1>1, <1>8, <2>1 DEF list
<1>11. Performed'[c][r] = Count(list, k, c)
    <2>1. Count(list, Passed[cl][p] + 1, c) = Count(list, Passed[cl][p], c) + 1
        BY <1>1, CountStep DEF k
    <2> QED
        BY <1>4, <1>10, <2>1 DEF k
<1>12. Count(list, k, c) <= Told'[cl][p][c]
    <2>1. Count(list, k, c) <= Count(list, Len(list), c)
        BY <1>1, CountGrows
    <2>2. Times(list, c) = Count(list, Len(list), c)
        BY <1>1, TimesIsCount
    <2> QED
        BY <1>1, <1>2, <1>8, <2>1, <2>2 DEF list
<1>13. Hears(cl, p)' => Performed'[c][r] = Answered'[cl][p][c]
    <2>1. Answered'[cl][p][c] = Count(used'[cl][p], Passed'[cl][p], c)
        BY <1>1, <1>8
    <2>2. Hears(cl, p)' => Passed'[cl][p] = k
        BY <1>6
    <2>3. used'[cl][p] = list
        BY <1>2 DEF list
    <2> QED
        BY <1>11, <2>1, <2>2, <2>3
\* On other chunks the request is where it was.
<1>14. ASSUME NEW d \in Chunks, d # c
       PROVE  /\ Performed'[d][r] <= Told'[cl][p][d]
              /\ Hears(cl, p)' => Performed'[d][r] = Answered'[cl][p][d]
    <2>1. /\ Performed[d][<<cl, p>>] <= Told[cl][p][d]
          /\ Performed[d][<<cl, p>>] = Answered[cl][p][d]
        BY <1>1, <1>7 DEF RowsFit
    <2>2. Performed'[d][r] = Performed[d][r]
        BY <1>3, <1>4, <1>14
    <2>3. Told'[cl][p][d] = Told[cl][p][d]
        BY <1>1, <1>2, <1>8
    <2>4. Count(list, k, d) = Count(list, Passed[cl][p], d)
        BY <1>1, <1>14, CountStep DEF k
    <2>5. Hears(cl, p)' => Answered'[cl][p][d] = Answered[cl][p][d]
        BY <1>1, <1>2, <1>6, <1>8, <2>4 DEF list
    <2> QED
        BY <2>1, <2>2, <2>3, <2>5
<1>15. ASSUME NEW o \in Clients, NEW i \in Nat, NEW d \in Chunks
       PROVE  IF i \in 1 .. Len(script[o]) /\ script[o][i] = "add_row"
              THEN /\ Performed'[d][<<o, i>>] <= Told'[o][i][d]
                   /\ Hears(o, i)' =>
                        Performed'[d][<<o, i>>] = Answered'[o][i][d]
              ELSE Performed'[d][<<o, i>>] = 0
    <2>1. CASE o = cl /\ i = p
        <3>1. i \in 1 .. Len(script[o]) /\ script[o][i] = "add_row"
            BY <1>1, <2>1
        <3>2. /\ Performed'[d][r] <= Told'[cl][p][d]
              /\ Hears(cl, p)' => Performed'[d][r] = Answered'[cl][p][d]
            BY <1>11, <1>12, <1>13, <1>14
        <3>3. Performed'[d][<<o, i>>] <= Told'[o][i][d]
            BY <2>1, <3>2
        <3>4. Hears(o, i)' => Performed'[d][<<o, i>>] = Answered'[o][i][d]
            BY <2>1, <3>2
        <3> QED
            BY <3>1, <3>3, <3>4
    <2>2. CASE o # cl \/ i # p
        <3>1. Performed'[d][<<o, i>>] = Performed[d][<<o, i>>]
            BY <1>4, <2>2
        <3>2. CASE i \in 1 .. Len(script[o]) /\ script[o][i] = "add_row"
            <4>1. /\ Performed[d][<<o, i>>] <= Told[o][i][d]
                  /\ Hears(o, i) => Performed[d][<<o, i>>] = Answered[o][i][d]
                BY <3>2 DEF RowsFit
            <4>2. Passed'[o][i] = Passed[o][i] /\ (Hears(o, i)' => Hears(o, i))
                BY <1>5, <2>2, <3>2
            <4>3. /\ Told'[o][i][d] = Told[o][i][d]
                  /\ Answered'[o][i][d] = Answered[o][i][d]
                <5>1. /\ Told[o][i][d] = Times(used[o][i], d)
                      /\ Answered[o][i][d] = Count(used[o][i], Passed[o][i], d)
                      /\ Told'[o][i][d] = Times(used'[o][i], d)
                      /\ Answered'[o][i][d] = Count(used'[o][i], Passed'[o][i], d)
                    BY <1>8, <3>2
                <5> QED
                    BY <1>2, <4>2, <5>1
            <4> QED
                BY <3>1, <3>2, <4>1, <4>2, <4>3
        <3>3. CASE ~(i \in 1 .. Len(script[o]) /\ script[o][i] = "add_row")
            <4>1. Performed[d][<<o, i>>] = 0
                BY <3>3 DEF RowsFit
            <4> QED
                BY <3>1, <3>3, <4>1
        <3> QED
            BY <3>2, <3>3
    <2> QED
        BY <2>1, <2>2
<1> QED
    BY <1>2, <1>15 DEF RowsFit

-----------------------------------------------------------------------------
(* Where tables are placed                                                 *)

\* A table keeps its parts, unless it is placed anew or had none.
PartsKept ==
    /\ replaced \subseteq replaced'
    /\ \A t \in Tables \ replaced' :
        \/ partitions'[t] = partitions[t]
        \/ partitions[t] \in {NoTable, <<>>}

LEMMA PartsKeepList ==
    ASSUME PartsKept, NEW t \in Tables \ replaced', NEW list,
           list # <<>>, partitions[t] \in Seq(Part), list = ChunksOf(partitions[t])
    PROVE  partitions'[t] = partitions[t]
<1>1. partitions[t] # NoTable
    BY DEF Part
<1>2. ChunksOf(<<>>) = <<>>
    BY DEF ChunksOf
<1>3. partitions[t] # <<>>
    BY <1>2
<1> QED
    BY <1>1, <1>3 DEF PartsKept

\* The lists that clients were told stay right, and so does the one a client
\* is told now.
Informs(cl, list) ==
    \A o \in Clients : \A i \in 1 .. Len(script[o]) :
        \/ used'[o][i] = used[o][i]
        \/ /\ o = cl
           /\ used'[o][i] = list
           /\ partitions'[table[o]] = partitions[table[o]]
           /\ partitions[table[o]] \in Seq(Part)
           /\ list = ChunksOf(partitions[table[o]])

LEMMA PlacesKept ==
    ASSUME ClientsFit, PlacesFit, PartsKept, NEW cl, NEW list,
           UNCHANGED <<script, table>>,
           Informs(cl, list)
    PROVE  PlacesFit'
<1>1. ASSUME NEW o \in Clients, NEW i \in Nat,
             table[o] \notin replaced', i \in 1 .. Len(script[o])
      PROVE  \/ used'[o][i] = <<>>
             \/ /\ partitions'[table[o]] \in Seq(Part)
                /\ used'[o][i] = ChunksOf(partitions'[table[o]])
    <2>1. table[o] \in Tables \ replaced' /\ table[o] \notin replaced
        BY <1>1 DEF ClientsFit, ProgramTyped, PartsKept
    <2>2. CASE used'[o][i] = used[o][i]
        <3>1. \/ used[o][i] = <<>>
              \/ /\ partitions[table[o]] \in Seq(Part)
                 /\ used[o][i] = ChunksOf(partitions[table[o]])
            BY <1>1, <2>1 DEF PlacesFit
        <3>2. CASE used[o][i] = <<>>
            BY <2>2, <3>2
        <3>3. CASE used[o][i] # <<>>
            <4>1. partitions'[table[o]] = partitions[table[o]]
                BY <2>1, <3>1, <3>3, PartsKeepList
            <4> QED
                BY <2>2, <3>1, <3>3, <4>1
        <3> QED
            BY <3>2, <3>3
    <2>3. CASE used'[o][i] # used[o][i]
        BY <1>1, <2>3 DEF Informs
    <2> QED
        BY <2>2, <2>3
<1> QED
    BY <1>1 DEF PlacesFit

LEMMA AnswersTell ==
    ASSUME ClientsFit, NEW cl \in Clients, NEW list \in Seq(Chunks),
           MasterAnswered(cl, list)
    PROVE  \A o \in Clients : \A i \in 1 .. Len(script[o]) :
             \/ used'[o][i] = used[o][i]
             \/ /\ o = cl
                /\ used'[o][i] = list
                /\ Request(cl) = "chunks_by_query"
<1>1. CASE UNCHANGED used
    BY <1>1
<1>2. CASE Tells(cl, list) /\ Request(cl) = "chunks_by_query"
    <2>1. Len(used[cl]) = Len(script[cl])
        BY DEF ClientsFit, ClientsTyped
    <2> QED
        BY <1>2, <2>1 DEF Tells
<1>3. \/ UNCHANGED used
      \/ Tells(cl, list) /\ Request(cl) = "chunks_by_query"
    BY MasterAnsweredEffect DEF Request
<1> QED
    BY <1>1, <1>2, <1>3

-----------------------------------------------------------------------------
(* Every step keeps the invariant                                          *)

\* Steps that answer nobody.
LEMMA QuietKeeps ==
    ASSUME CInv, Stands, MasterTyped', ChunksTyped', FilesKept, added' = added,
           PartsKept
    PROVE  CInv'
<1>1. ClientsFit' /\ KeepsAnswers
    BY StandsKeeps, StandsAnswers DEF CInv
<1>2. CreatesFit'
    BY <1>1, MadeKept, CreatesKept DEF CInv
<1>3. RowsFit'
    BY <1>1, RowsKept DEF CInv
<1>4. PlacesFit'
    <2>1. UNCHANGED <<script, table, used>>
        BY DEF Stands
    <2>2. ClientsFit /\ PlacesFit
        BY DEF CInv
    <2>3. Informs({}, <<>>)
        BY <2>1 DEF Informs
    <2> QED
        BY <2>1, <2>2, <2>3, PlacesKept
<1> QED
    BY <1>1, <1>2, <1>3, <1>4 DEF CInv

\* Steps by which the master answers.
LEMMA MasterAnswerKeeps ==
    ASSUME CInv, NEW cl \in Clients, NEW list \in Seq(Chunks),
           MasterAnswered(cl, list), MasterTyped', UNCHANGED chunk, PartsKept,
           \/ Request(cl) # "chunks_by_query"
           \/ /\ UNCHANGED partitions
              /\ partitions[table[cl]] \in Seq(Part)
              /\ list = ChunksOf(partitions[table[cl]])
    PROVE  CInv'
<1>1. ClientsFit' /\ KeepsAnswers
    BY MasterAnsweredKeeps, MasterAnswersNothing DEF CInv
<1>2. ChunksTyped' /\ FilesKept /\ added' = added
    BY DEF CInv, ChunksTyped, chunk, FilesKept
<1>3. CreatesFit'
    BY <1>1, <1>2, MadeKept, CreatesKept DEF CInv
<1>4. RowsFit'
    BY <1>1, <1>2, RowsKept DEF CInv
<1>5. PlacesFit'
    <2>1. UNCHANGED <<script, table>>
        BY DEF MasterAnswered
    <2>2. ClientsFit /\ PlacesFit
        BY DEF CInv
    <2>3. \A o \in Clients : \A i \in 1 .. Len(script[o]) :
            \/ used'[o][i] = used[o][i]
            \/ /\ o = cl
               /\ used'[o][i] = list
               /\ Request(cl) = "chunks_by_query"
        BY <2>2, AnswersTell
    <2>4. Informs(cl, list)
        BY <2>3 DEF Informs
    <2> QED
        BY <2>1, <2>2, <2>4, PlacesKept
<1> QED
    BY <1>1, <1>2, <1>3, <1>4, <1>5 DEF CInv

\* Steps by which a chunk answers a question.
LEMMA ChunkAnswerKeeps ==
    ASSUME CInv, NEW cl \in Clients, ChunkAnswered(cl),
           script[cl][pc[cl]] \notin Changes,
           UNCHANGED <<master, up, chunk, replaced, faults>>
    PROVE  CInv'
<1>1. ClientsFit' /\ KeepsAnswers
    BY ChunkAnsweredKeeps, ChunkAnswersMore DEF CInv
<1>2. ChunksTyped' /\ FilesKept /\ added' = added
    BY DEF CInv, ChunksTyped, chunk, FilesKept
<1>3. MasterTyped' /\ PartsKept
    BY DEF CInv, MasterTyped, master, PartsKept
<1>4. CreatesFit'
    BY <1>1, <1>2, MadeKept, CreatesKept DEF CInv
<1>5. RowsFit'
    BY <1>1, <1>2, RowsKept DEF CInv
<1>6. PlacesFit'
    <2>1. UNCHANGED <<script, table, used>>
        BY DEF ChunkAnswered, ChunkAnswers
    <2>2. ClientsFit /\ PlacesFit
        BY DEF CInv
    <2>3. Informs(cl, <<>>)
        BY <2>1 DEF Informs
    <2> QED
        BY <1>3, <2>1, <2>2, <2>3, PlacesKept
<1> QED
    BY <1>1, <1>2, <1>3, <1>4, <1>5, <1>6 DEF CInv

LEMMA ServersQuiet ==
    ASSUME CInv, UNCHANGED <<master, up, replaced>>, faults' \in 0 .. MaxFaults
    PROVE  MasterTyped' /\ PartsKept
BY DEF CInv, MasterTyped, master, PartsKept

LEMMA ChunksQuiet ==
    ASSUME CInv, UNCHANGED chunk
    PROVE  ChunksTyped' /\ FilesKept /\ added' = added
BY DEF CInv, ChunksTyped, chunk, FilesKept

LEMMA StatusStands ==
    ASSUME CInv, UNCHANGED <<program, pc, todo, used>>,
           NEW cl \in Clients, status[cl] \notin {"ended", "died"},
           NEW s \in {"late", "hung", "died"},
           status' = [status EXCEPT ![cl] = s]
    PROVE  Stands
BY DEF CInv, ClientsFit, ClientsTyped, Statuses, Stands, program

LEMMA ForgetStands ==
    ASSUME CInv, UNCHANGED <<program, pc, todo, used>>,
           NEW S \in SUBSET Clients, Forget(S),
           \A cl \in S : status[cl] \notin {"ended", "died"}
    PROVE  Stands
BY DEF CInv, ClientsFit, ClientsTyped, Statuses, Stands, program, Forget

LEMMA RefusedKeeps ==
    ASSUME CInv, NEW cl \in Clients, Refused(cl)
    PROVE  CInv'
<1>1. Stands
    BY StatusStands DEF Refused
<1>2. MasterTyped' /\ PartsKept
    BY ServersQuiet DEF Refused, CInv, MasterTyped
<1>3. ChunksTyped' /\ FilesKept /\ added' = added
    BY ChunksQuiet DEF Refused
<1> QED
    BY <1>1, <1>2, <1>3, QuietKeeps

LEMMA GivesUpKeeps ==
    ASSUME CInv, NEW cl \in Clients, GivesUp(cl)
    PROVE  CInv'
<1>1. Stands
    BY StatusStands DEF GivesUp
<1>2. MasterTyped' /\ PartsKept
    BY ServersQuiet DEF GivesUp, CInv, MasterTyped
<1>3. ChunksTyped' /\ FilesKept /\ added' = added
    BY ChunksQuiet DEF GivesUp
<1> QED
    BY <1>1, <1>2, <1>3, QuietKeeps

LEMMA TimesOutKeeps ==
    ASSUME CInv, NEW cl \in Clients, TimesOut(cl)
    PROVE  CInv'
<1>1. Stands
    BY StatusStands DEF TimesOut
<1>2. MasterTyped' /\ PartsKept
    <2>1. faults' \in 0 .. MaxFaults
        BY DEF TimesOut, CInv, MasterTyped
    <2> QED
        BY <2>1, ServersQuiet DEF TimesOut
<1>3. ChunksTyped' /\ FilesKept /\ added' = added
    BY ChunksQuiet DEF TimesOut
<1> QED
    BY <1>1, <1>2, <1>3, QuietKeeps

LEMMA EndChunkEffect ==
    ASSUME CInv, NEW c, NEW S \in SUBSET Clients, EndChunk(c, S),
           \A cl \in S : status[cl] \notin {"ended", "died"}
    PROVE  Stands /\ alive' \subseteq Chunks /\ UNCHANGED <<paged, added>>
<1> DEFINE T == S \cup {cl \in Waiting : At(cl, c)}
<1>1. T \in SUBSET Clients /\ \A cl \in T : status[cl] \notin {"ended", "died"}
    BY DEF Waiting
<1>2. Forget(T) /\ UNCHANGED <<program, pc, todo, used>>
    BY DEF EndChunk
<1> HIDE DEF T
<1>3. Stands
    BY <1>1, <1>2, ForgetStands
<1> QED
    BY <1>3 DEF EndChunk, CInv, ChunksTyped

LEMMA KillChunkKeeps ==
    ASSUME CInv, NEW c \in Chunks, KillChunk(c)
    PROVE  CInv'
<1>1. Stands /\ alive' \subseteq Chunks /\ UNCHANGED <<paged, added>>
    <2>1. EndChunk(c, {})
        BY DEF KillChunk
    <2> QED
        BY <2>1, EndChunkEffect
<1>2. MasterTyped' /\ PartsKept
    <2>1. faults' \in 0 .. MaxFaults
        BY DEF KillChunk, CInv, MasterTyped
    <2> QED
        BY <2>1, ServersQuiet DEF KillChunk
<1>3. PICK left \in [Tables -> Existing] :
        /\ \A t \in Tables : left[t] \in CutCreate(c, t)
        /\ files' = [files EXCEPT ![c] = left]
    BY DEF KillChunk, Existing
<1>4. files \in [Chunks -> [Tables -> Existing]]
    BY DEF CInv, ChunksTyped
<1>5. ChunksTyped' /\ added' = added
    BY <1>1, <1>3, <1>4 DEF CInv, ChunksTyped
<1>6. FilesKept
    <2> SUFFICES ASSUME NEW d \in Chunks, NEW t \in Tables, files[d][t] = "both"
                 PROVE  files'[d][t] = "both"
        BY DEF FilesKept
    <2>1. CASE d = c
        <3>1. left[t] = "both"
            BY <1>3, <2>1 DEF CutCreate
        <3> QED
            BY <1>3, <1>4, <2>1, <3>1
    <2>2. CASE d # c
        BY <1>3, <1>4, <2>2
    <2> QED
        BY <2>1, <2>2
<1> QED
    BY <1>1, <1>2, <1>5, <1>6, QuietKeeps

LEMMA StartChunkKeeps ==
    ASSUME CInv, NEW c \in Chunks, StartChunk(c)
    PROVE  CInv'
<1>1. Stands
    BY DEF StartChunk, Stands, client, program, CInv, ClientsFit, ClientsTyped
<1>2. MasterTyped' /\ PartsKept
    BY ServersQuiet DEF StartChunk, CInv, MasterTyped
<1>3. ChunksTyped' /\ FilesKept /\ added' = added
    BY DEF StartChunk, CInv, ChunksTyped, FilesKept
<1> QED
    BY <1>1, <1>2, <1>3, QuietKeeps

LEMMA KillMasterKeeps ==
    ASSUME CInv, KillMaster
    PROVE  CInv'
<1>1. Stands
    <2> DEFINE S == {cl \in Waiting : Request(cl) \in ToMaster}
    <2>1. S \in SUBSET Clients /\ \A cl \in S : status[cl] \notin {"ended", "died"}
        BY DEF Waiting
    <2>2. Forget(S) /\ UNCHANGED <<program, pc, todo, used>>
        BY DEF KillMaster
    <2> HIDE DEF S
    <2> QED
        BY <2>1, <2>2, ForgetStands
<1>2. MasterTyped' /\ PartsKept
    <2>1. faults' \in 0 .. MaxFaults
        BY DEF KillMaster, CInv, MasterTyped
    <2>2. UNCHANGED <<master, replaced>> /\ up' = FALSE
        BY DEF KillMaster
    <2> QED
        BY <2>1, <2>2 DEF CInv, MasterTyped, master, PartsKept
<1>3. ChunksTyped' /\ FilesKept /\ added' = added
    BY ChunksQuiet DEF KillMaster
<1> QED
    BY <1>1, <1>2, <1>3, QuietKeeps

LEMMA StartMasterKeeps ==
    ASSUME CInv, StartMaster
    PROVE  CInv'
<1>1. Stands
    BY DEF StartMaster, Stands, client, program, CInv, ClientsFit, ClientsTyped
<1>2. MasterTyped'
    <2>1. {} \in FreeLists
        BY FS_EmptySet DEF FreeLists
    <2>2. /\ chunk2Free' \in [Chunks -> Nat]
          /\ partitions' \in [Tables -> Seq(Part) \cup {NoTable}]
        BY DEF StartMaster, Restart, CInv, MasterTyped
    <2> QED
        BY <2>1, <2>2 DEF StartMaster, Restart, CInv, MasterTyped
<1>3. PartsKept
    BY DEF StartMaster, Restart, PartsKept
<1>4. ChunksTyped' /\ FilesKept /\ added' = added
    BY ChunksQuiet DEF StartMaster
<1> QED
    BY <1>1, <1>2, <1>3, <1>4, QuietKeeps

LEMMA OnUpdateKeeps ==
    ASSUME CInv, NEW c \in Chunks, OnUpdate(c)
    PROVE  CInv'
<1>1. Stands
    BY DEF OnUpdate, Stands, client, program, CInv, ClientsFit, ClientsTyped
<1>2. MasterTyped'
    <2>1. /\ freePositions \in SUBSET Entry
          /\ IsFiniteSet(freePositions)
          /\ chunk2Free \in [Chunks -> Nat]
        BY DEF CInv, MasterTyped, FreeLists
    <2>2. /\ freePositions' = (freePositions \ {<<chunk2Free[c], c>>})
                                \cup {<<Capacity[c], c>>}
          /\ chunk2Free' = [chunk2Free EXCEPT ![c] = Capacity[c]]
          /\ UNCHANGED <<partitions, frozen, up, replaced, faults>>
        BY DEF OnUpdate, Report
    <2>3. <<Capacity[c], c>> \in Entry /\ Capacity[c] \in Nat
        BY DEF Entry
    <2>4. IsFiniteSet(freePositions')
        <3>1. IsFiniteSet(freePositions \ {<<chunk2Free[c], c>>})
            BY <2>1, FS_RemoveElement
        <3> QED
            BY <2>2, <3>1, FS_AddElement
    <2>5. freePositions' \in FreeLists
        BY <2>1, <2>2, <2>3, <2>4 DEF FreeLists
    <2>6. chunk2Free' \in [Chunks -> Nat]
        BY <2>1, <2>2, <2>3
    <2> QED
        BY <2>2, <2>5, <2>6 DEF CInv, MasterTyped
<1>3. PartsKept
    BY DEF OnUpdate, Report, PartsKept
<1>4. ChunksTyped' /\ FilesKept /\ added' = added
    BY ChunksQuiet DEF OnUpdate
<1> QED
    BY <1>1, <1>2, <1>3, <1>4, QuietKeeps

LEMMA HeartbeatFailsKeeps ==
    ASSUME CInv, NEW c \in Chunks, HeartbeatFails(c)
    PROVE  CInv'
<1>1. Stands /\ alive' \subseteq Chunks /\ UNCHANGED <<paged, added>>
    <2>1. EndChunk(c, {})
        BY DEF HeartbeatFails
    <2> QED
        BY <2>1, EndChunkEffect
<1>2. MasterTyped' /\ PartsKept
    BY ServersQuiet DEF HeartbeatFails, CInv, MasterTyped
<1>3. ChunksTyped' /\ FilesKept /\ added' = added
    BY <1>1 DEF HeartbeatFails, CInv, ChunksTyped, FilesKept
<1> QED
    BY <1>1, <1>2, <1>3, QuietKeeps

\* A request that is closed, or whose answer comes too late.
LEMMA ClosedStands ==
    ASSUME CInv, NEW cl \in Clients, status[cl] \notin {"ended", "died"},
           UNCHANGED program, Closed(cl)
    PROVE  Stands
<1>1. UNCHANGED <<program, pc, todo, used>>
    BY DEF Closed
<1>2. status' = [status EXCEPT ![cl] = "died"]
    BY DEF Closed
<1> QED
    BY <1>1, <1>2, StatusStands

LEMMA InsertTableTyped ==
    ASSUME CInv, NEW t \in Tables, NEW n \in Sizes, InsertTable(t, n)
    PROVE  /\ freePositions' \in FreeLists
           /\ partitions' \in [Tables -> Seq(Part) \cup {NoTable}]
           /\ \A u \in Tables : u # t => partitions'[u] = partitions[u]
           /\ ~Enough(n) => partitions' = partitions
           /\ UNCHANGED <<chunk2Free, frozen>>
<1>1. /\ Placement(freePositions, n).free \in FreeLists
      /\ Placement(freePositions, n).parts \in Seq(Part)
    BY PlacementTyped DEF CInv, MasterTyped
<1>2. partitions \in [Tables -> Seq(Part) \cup {NoTable}]
    BY DEF CInv, MasterTyped
<1> QED
    BY <1>1, <1>2 DEF InsertTable

LEMMA InsertTableOnMasterKeeps ==
    ASSUME CInv, NEW cl \in Clients, InsertTableOnMaster(cl)
    PROVE  CInv'
<1> DEFINE t == table[cl]
           n == size[cl]
<1>1. t \in Tables /\ n \in Sizes
    BY DEF CInv, ClientsFit, ProgramTyped
<1>2. /\ status[cl] \in {"asks", "late"}
      /\ Request(cl) = "insert_table"
      /\ InsertTable(t, n)
      /\ IF Enough(n) THEN MasterAnswers(cl, <<>>) ELSE Closed(cl)
      /\ replaced' = IF Enough(n) /\ partitions[t] # NoTable
                     THEN replaced \cup {t} ELSE replaced
      /\ UNCHANGED <<up, chunk, program, faults>>
    BY DEF InsertTableOnMaster, Asked, InFlight
<1> HIDE DEF t, n
<1>3. /\ freePositions' \in FreeLists
      /\ partitions' \in [Tables -> Seq(Part) \cup {NoTable}]
      /\ \A u \in Tables : u # t => partitions'[u] = partitions[u]
      /\ ~Enough(n) => partitions' = partitions
      /\ UNCHANGED <<chunk2Free, frozen>>
    BY <1>1, <1>2, InsertTableTyped
<1>4. replaced' \subseteq Tables
    BY <1>1, <1>2 DEF CInv, MasterTyped
<1>5. MasterTyped'
    BY <1>2, <1>3, <1>4 DEF CInv, MasterTyped
<1>6. PartsKept
    BY <1>2, <1>3 DEF PartsKept
<1>7. ChunksTyped' /\ FilesKept /\ added' = added
    BY <1>2, ChunksQuiet
<1>8. CASE Closed(cl)
    <2>1. Stands
        BY <1>2, <1>8, ClosedStands
    <2> QED
        BY <1>5, <1>6, <1>7, <2>1, QuietKeeps
<1>9. CASE MasterAnswers(cl, <<>>) /\ status[cl] = "asks"
    <2>1. MasterAnswered(cl, <<>>)
        BY <1>2, <1>9 DEF MasterAnswered, program, ToMaster
    <2>2. Request(cl) # "chunks_by_query" /\ <<>> \in Seq(Chunks)
        BY <1>2
    <2> QED
        BY <1>2, <1>5, <1>6, <2>1, <2>2, MasterAnswerKeeps
<1> QED
    BY <1>2, <1>8, <1>9 DEF MasterAnswers

LEMMA ChunksOfTyped ==
    ASSUME NEW parts \in Seq(Part)
    PROVE  /\ ChunksOf(parts) \in Seq(Chunks)
           /\ [i \in DOMAIN parts |-> parts[i].chunk] = ChunksOf(parts)
<1>1. Len(parts) \in Nat /\ DOMAIN parts = 1 .. Len(parts)
    OBVIOUS
<1>2. \A i \in 1 .. Len(parts) : parts[i].chunk \in Chunks
    <2>1. \A i \in 1 .. Len(parts) : parts[i] \in Part
        OBVIOUS
    <2> QED
        BY <2>1 DEF Part
<1>3. ChunksOf(parts) \in [1 .. Len(parts) -> Chunks]
    BY <1>2 DEF ChunksOf
<1>4. ChunksOf(parts) \in Seq(Chunks)
    BY <1>1, <1>3
<1> QED
    BY <1>1, <1>4 DEF ChunksOf

LEMMA GetPartitionKeeps ==
    ASSUME CInv, NEW cl \in Clients, GetPartition(cl)
    PROVE  CInv'
<1> DEFINE parts == partitions[table[cl]]
           list == ChunksOf(parts)
<1>1. /\ status[cl] \in {"asks", "late"}
      /\ Request(cl) = "chunks_by_query"
      /\ IF parts = NoTable THEN Closed(cl)
         ELSE MasterAnswers(cl, [i \in DOMAIN parts |-> parts[i].chunk])
      /\ UNCHANGED <<master, up, chunk, program, replaced, faults>>
    BY DEF GetPartition, Asked, InFlight
<1>2. MasterTyped' /\ PartsKept
    BY <1>1, ServersQuiet DEF CInv, MasterTyped
<1>3. ChunksTyped' /\ FilesKept /\ added' = added
    BY <1>1, ChunksQuiet
<1>4. parts \in Seq(Part) \cup {NoTable}
    BY DEF CInv, MasterTyped, ClientsFit, ProgramTyped
<1>5. CASE Closed(cl)
    <2>1. Stands
        BY <1>1, <1>5, ClosedStands
    <2> QED
        BY <1>2, <1>3, <2>1, QuietKeeps
<1>6. CASE parts # NoTable /\ status[cl] = "asks"
    <2>1. parts \in Seq(Part)
        BY <1>4, <1>6
    <2>2. list \in Seq(Chunks) /\ MasterAnswers(cl, list)
        BY <1>1, <1>6, <2>1, ChunksOfTyped
    <2>3. UNCHANGED partitions
        BY <1>1 DEF master
    <2>4. MasterAnswered(cl, list)
        BY <1>1, <1>6, <2>2 DEF MasterAnswered, program, ToMaster
    <2> QED
        BY <1>1, <1>2, <2>1, <2>2, <2>3, <2>4, MasterAnswerKeeps
<1> QED
    BY <1>1, <1>5, <1>6 DEF MasterAnswers

LEMMA RemoveTableOnMasterKeeps ==
    ASSUME CInv, NEW cl \in Clients, RemoveTableOnMaster(cl)
    PROVE  CInv'
<1>1. Stands
    <2>1. /\ status[cl] \in {"asks", "late"}
          /\ status' = [status EXCEPT ![cl] =
                            IF status[cl] = "late" THEN "died" ELSE "hung"]
          /\ UNCHANGED <<program, pc, todo, used>>
        BY DEF RemoveTableOnMaster, Asked, InFlight
    <2>2. (IF status[cl] = "late" THEN "died" ELSE "hung") \in {"late", "hung", "died"}
        OBVIOUS
    <2> QED
        BY <2>1, <2>2, StatusStands
<1>2. MasterTyped' /\ PartsKept
    BY DEF RemoveTableOnMaster, EraseTable, CInv, MasterTyped, PartsKept
<1>3. ChunksTyped' /\ FilesKept /\ added' = added
    BY ChunksQuiet DEF RemoveTableOnMaster
<1> QED
    BY <1>1, <1>2, <1>3, QuietKeeps

LEMMA CrashesKeeps ==
    ASSUME CInv, NEW cl \in Clients, NEW c \in Chunks, InFlight(cl),
           Crashes(cl, c)
    PROVE  CInv'
<1>1. Stands /\ alive' \subseteq Chunks /\ UNCHANGED <<paged, added>>
    <2>1. EndChunk(c, {cl})
        BY DEF Crashes
    <2>2. \A o \in {cl} : status[o] \notin {"ended", "died"}
        BY DEF InFlight
    <2> QED
        BY <2>1, <2>2, EndChunkEffect
<1>2. MasterTyped' /\ PartsKept
    BY ServersQuiet DEF Crashes, CInv, MasterTyped
<1>3. ChunksTyped' /\ FilesKept /\ added' = added
    BY <1>1 DEF Crashes, CInv, ChunksTyped, FilesKept
<1> QED
    BY <1>1, <1>2, <1>3, QuietKeeps

LEMMA AnswersKeeps ==
    ASSUME CInv, NEW cl \in Clients, NEW c \in Chunks, NEW outcomes,
           InFlight(cl), Request(cl) \notin ToMaster,
           "answered" \in outcomes => Request(cl) \notin Changes,
           Answers(cl, c, outcomes)
    PROVE  CInv'
<1>1. status[cl] \in {"asks", "late"}
    BY DEF InFlight
<1>2. UNCHANGED <<master, up, chunk, program, replaced, faults>>
    BY DEF Answers
<1>3. MasterTyped' /\ PartsKept
    BY <1>2, ServersQuiet DEF CInv, MasterTyped
<1>4. ChunksTyped' /\ FilesKept /\ added' = added
    BY <1>2, ChunksQuiet
<1>5. CASE Closed(cl)
    <2>1. Stands
        BY <1>1, <1>2, <1>5, ClosedStands
    <2> QED
        BY <1>3, <1>4, <2>1, QuietKeeps
<1>6. CASE ChunkAnswers(cl) /\ status[cl] = "asks" /\ Request(cl) \notin Changes
    <2>1. ChunkAnswered(cl)
        BY <1>2, <1>6 DEF ChunkAnswered, program
    <2>2. script[cl][pc[cl]] \notin Changes
        BY <1>6 DEF Request
    <2> QED
        BY <1>2, <2>1, <2>2, ChunkAnswerKeeps
<1>7. CASE /\ status' = [status EXCEPT ![cl] =
                            IF @ = "late" THEN "died" ELSE "hung"]
           /\ UNCHANGED <<pc, todo, used>>
    <2>1. status' = [status EXCEPT ![cl] =
                        IF status[cl] = "late" THEN "died" ELSE "hung"]
        BY <1>7
    <2>2. (IF status[cl] = "late" THEN "died" ELSE "hung") \in {"late", "hung", "died"}
        OBVIOUS
    <2>3. Stands
        BY <1>1, <1>2, <1>7, <2>1, <2>2, StatusStands
    <2> QED
        BY <1>3, <1>4, <2>3, QuietKeeps
<1>8. ChunkAnswers(cl) => Closed(cl) \/ status[cl] = "asks"
    BY <1>1 DEF ChunkAnswers
<1> QED
    BY <1>5, <1>6, <1>7, <1>8 DEF Answers

LEMMA CreateTableKeeps ==
    ASSUME CInv, NEW cl \in Clients, NEW c \in Chunks, At(cl, c),
           CreateTable(cl, c)
    PROVE  CInv'
<1> DEFINE t == table[cl]
<1>1. /\ status[cl] \in {"asks", "late"}
      /\ Request(cl) = "create_table"
      /\ files' = [files EXCEPT ![c][t] = "both"]
      /\ IF files[c][t] = "both" THEN Closed(cl) ELSE ChunkAnswers(cl)
      /\ UNCHANGED <<master, up, alive, paged, added, program, replaced, faults>>
    BY DEF CreateTable, Asked, InFlight
<1>2. Request(cl) \notin ToMaster /\ Head(todo[cl]) = c
    BY DEF At
<1>3. t \in Tables
    BY DEF CInv, ClientsFit, ProgramTyped
<1>4. files \in [Chunks -> [Tables -> Existing]]
    BY DEF CInv, ChunksTyped
<1> HIDE DEF t
<1>5. /\ files' \in [Chunks -> [Tables -> Existing]]
      /\ files'[c][t] = "both"
      /\ FilesKept
    BY <1>1, <1>3, <1>4 DEF FilesKept, Existing
<1>6. MasterTyped' /\ PartsKept
    BY <1>1, ServersQuiet DEF CInv, MasterTyped
<1>7. ChunksTyped' /\ added' = added
    BY <1>1, <1>5 DEF CInv, ChunksTyped
<1>8. CASE Closed(cl)
    <2>1. Stands
        BY <1>1, <1>8, ClosedStands
    <2> QED
        BY <1>5, <1>6, <1>7, <2>1, QuietKeeps
<1>9. CASE ChunkAnswers(cl) /\ status[cl] = "asks" /\ files[c][t] # "both"
    <2>1. ChunkAnswered(cl)
        BY <1>1, <1>2, <1>9 DEF ChunkAnswered, program
    <2>2. script[cl][pc[cl]] = "create_table"
        BY <1>1 DEF Request
    <2>3. /\ ClientsFit /\ CreatesFit /\ RowsFit /\ PlacesFit
        BY DEF CInv
    <2>4. ClientsFit' /\ OneMoreAnswer(cl)
        BY <2>1, <2>2, <2>3, ChunkAnsweredKeeps, ChunkAnswersMore DEF Changes
    <2>5. Awaits(cl)
        BY <1>2, <1>9, <2>3, WaitingAwaits
    <2>6. CreatesFit'
        BY <1>2, <1>5, <1>9, <2>2, <2>3, <2>4, <2>5, CreationKeeps DEF t
    <2>7. RowsFit'
        BY <1>7, <2>2, <2>3, <2>4, RowsByOthers
    <2>8. PlacesFit'
        <3>1. UNCHANGED <<script, table, used>>
            BY <2>4 DEF OneMoreAnswer
        <3>2. Informs(cl, <<>>)
            BY <3>1 DEF Informs
        <3> QED
            BY <1>6, <2>3, <3>1, <3>2, PlacesKept
    <2> QED
        BY <1>6, <1>7, <2>4, <2>6, <2>7, <2>8 DEF CInv
<1> QED
    BY <1>1, <1>8, <1>9 DEF ChunkAnswers

LEMMA AddSerializedRowKeeps ==
    ASSUME CInv, NEW cl \in Clients, NEW c \in Chunks, InFlight(cl), At(cl, c),
           AddSerializedRow(cl, c)
    PROVE  CInv'
<1> DEFINE t == table[cl]
           p == pc[cl]
<1>1. /\ status[cl] \in {"asks", "late"}
      /\ Request(cl) = "add_row"
      /\ Request(cl) \notin ToMaster
      /\ Head(todo[cl]) = c
    BY DEF AddSerializedRow, Asked, InFlight, At
<1>2. CASE Crashes(cl, c)
    BY <1>2, CrashesKeeps
<1>3. CASE Answers(cl, c, {"closed", "hung"})
    BY <1>1, <1>3, AnswersKeeps
<1>4. CASE /\ added' = [added EXCEPT ![c] = Append(@, <<cl, p>>)]
           /\ paged' = [paged EXCEPT ![c] = @ \cup {t}]
           /\ ChunkAnswers(cl)
           /\ UNCHANGED <<master, up, alive, files, program, replaced, faults>>
    <2>1. ClientsFit /\ CreatesFit /\ RowsFit /\ PlacesFit /\ ChunksTyped
        BY DEF CInv
    <2>2. p \in Nat /\ t \in Tables
        BY <2>1 DEF ClientsFit, ClientsTyped, ProgramTyped
    <2>3. MasterTyped' /\ PartsKept /\ FilesKept
        BY <1>4, ServersQuiet DEF CInv, MasterTyped, FilesKept
    <2>4. ChunksTyped'
        <3>1. Append(added[c], <<cl, p>>) \in Seq(Clients \X Nat)
            BY <2>1, <2>2 DEF ChunksTyped
        <3> QED
            BY <1>4, <2>1, <2>2, <3>1 DEF ChunksTyped
    <2>5. Awaits(cl)
        BY <1>1, <2>1, WaitingAwaits
    <2>6. script[cl][p] = "add_row" /\ "add_row" \in Changes
        BY <1>1 DEF Request, Changes
    <2>7. PICK q \in Nat : q = p
        BY <2>2
    <2>8. CASE status[cl] = "late"
        <3>1. Closed(cl)
            BY <1>4, <2>8 DEF ChunkAnswers
        <3>2. Stands
            BY <1>1, <1>4, <3>1, ClosedStands
        <3>3. ClientsFit' /\ KeepsAnswers
            BY <2>1, <3>2, StandsKeeps, StandsAnswers
        <3>4. CreatesFit'
            BY <2>1, <2>3, <3>3, MadeKept, CreatesKept
        <3>5. used' = used /\ ~Hears(cl, q)'
            <4>1. pc' = pc /\ status'[cl] = "died" /\ used' = used
                BY <2>1, <3>1 DEF Closed, ClientsFit, ClientsTyped
            <4>2. ~(q < pc[cl])
                BY <2>7
            <4> QED
                BY <4>1, <4>2 DEF Hears
        <3>6. RowsFit'
            BY <1>1, <1>4, <2>1, <2>5, <2>6, <2>7, <3>3, <3>5, RowAddedKeeps
        <3>7. PlacesFit'
            <4>1. UNCHANGED <<script, table, used>>
                BY <3>2 DEF Stands
            <4>2. Informs(cl, <<>>)
                BY <4>1 DEF Informs
            <4> QED
                BY <2>1, <2>3, <4>1, <4>2, PlacesKept
        <3> QED
            BY <2>3, <2>4, <3>3, <3>4, <3>6, <3>7 DEF CInv
    <2>9. CASE status[cl] = "asks"
        <3>1. ChunkAnswered(cl)
            BY <1>1, <1>4, <2>9 DEF ChunkAnswered, program
        <3>2. ClientsFit' /\ OneMoreAnswer(cl)
            BY <2>1, <2>6, <3>1, ChunkAnsweredKeeps, ChunkAnswersMore
        <3>3. CreatesFit'
            BY <2>1, <2>3, <2>6, <3>2, MadeByOthers, CreatesKept
        <3>4. RowsFit'
            BY <1>1, <1>4, <2>1, <2>5, <2>6, <2>7, <3>2, RowAddedKeeps
        <3>5. PlacesFit'
            <4>1. UNCHANGED <<script, table, used>>
                BY <3>2 DEF OneMoreAnswer
            <4>2. Informs(cl, <<>>)
                BY <4>1 DEF Informs
            <4> QED
                BY <2>1, <2>3, <4>1, <4>2, PlacesKept
        <3> QED
            BY <2>3, <2>4, <3>2, <3>3, <3>4, <3>5 DEF CInv
    <2> QED
        BY <1>1, <2>8, <2>9
<1> QED
    BY <1>2, <1>3, <1>4 DEF AddSerializedRow

LEMMA ServeKeeps ==
    ASSUME CInv, NEW cl \in Clients, NEW c \in Chunks, Serve(cl, c)
    PROVE  CInv'
<1>1. InFlight(cl) /\ At(cl, c) /\ Request(cl) \notin ToMaster
    BY DEF Serve, At
<1>2. CASE CreateTable(cl, c)
    BY <1>1, <1>2, CreateTableKeeps
<1>3. CASE GetSerializedSchema(cl, c)
    <2>1. Request(cl) \notin Changes
        BY <1>3 DEF GetSerializedSchema, Asked, Changes
    <2> QED
        BY <1>1, <1>3, <2>1, CrashesKeeps, AnswersKeeps DEF GetSerializedSchema
<1>4. CASE AddSerializedRow(cl, c)
    BY <1>1, <1>4, AddSerializedRowKeeps
<1>5. CASE GetContent(cl, c)
    <2>1. Request(cl) \notin Changes
        BY <1>5 DEF GetContent, Asked, Changes
    <2> QED
        BY <1>1, <1>5, <2>1, CrashesKeeps, AnswersKeeps DEF GetContent
<1> QED
    BY <1>2, <1>3, <1>4, <1>5 DEF Serve

-----------------------------------------------------------------------------
(* Scripts                                                                 *)

Scripts == {s \in Seq(Types) : WellFormed(s)}

LEMMA RequestsWellFormed ==
    ASSUME NEW operation \in Operations
    PROVE  Requests(operation) \in Scripts
<1>1. CASE operation = "AddTableOnMaster"
    <2>1. Requests(operation) = <<"insert_table">>
        BY <1>1 DEF Requests
    <2> QED
        BY <2>1 DEF Scripts, WellFormed, Types, ToMaster
<1>2. CASE operation = "RemoveTableOnMaster"
    <2>1. Requests(operation) = <<"remove_table">>
        BY <1>2 DEF Requests
    <2> QED
        BY <2>1 DEF Scripts, WellFormed, Types, ToMaster
<1>3. CASE operation = "CreateTable"
    <2>1. Requests(operation) = <<"chunks_by_query", "create_table">>
        BY <1>3 DEF Requests
    <2> QED
        BY <2>1 DEF Scripts, WellFormed, Types, ToMaster
<1>4. CASE operation = "GetTableContent"
    <2>1. Requests(operation) = <<"chunks_by_query", "table_content">>
        BY <1>4 DEF Requests
    <2> QED
        BY <2>1 DEF Scripts, WellFormed, Types, ToMaster
<1>5. CASE operation = "InsertRowOnTable"
    <2> DEFINE s == <<"chunks_by_query", "schema", "chunks_by_query", "add_row">>
    <2>1. Requests(operation) = s
        BY <1>5 DEF Requests
    <2>2. /\ s \in Seq(Types)
          /\ Len(s) = 4
          /\ s[1] = "chunks_by_query"
          /\ s[2] = "schema"
          /\ s[3] = "chunks_by_query"
          /\ s[4] = "add_row"
        BY DEF Types, ToMaster
    <2> HIDE DEF s
    <2>3. WellFormed(s)
        <3>1. s # <<>>
            BY <2>2
        <3>2. ASSUME NEW i \in 1 .. 4
              PROVE  /\ s[i] \notin ToMaster =>
                            i > 1 /\ s[i - 1] = "chunks_by_query"
                     /\ s[i] = "chunks_by_query" =>
                            i < Len(s) /\ s[i + 1] \notin ToMaster
            BY <2>2 DEF ToMaster
        <3> QED
            BY <2>2, <3>1, <3>2 DEF WellFormed
    <2> QED
        BY <2>1, <2>2, <2>3 DEF Scripts
<1> QED
    BY <1>1, <1>2, <1>3, <1>4, <1>5 DEF Operations

LEMMA OneAfterTheOther ==
    ASSUME NEW s \in Scripts, NEW t \in Scripts
    PROVE  s \o t \in Scripts
<1> DEFINE m == Len(s)
           n == Len(t)
           u == s \o t
<1>1. /\ s \in Seq(Types) /\ WellFormed(s)
      /\ t \in Seq(Types) /\ WellFormed(t)
    BY DEF Scripts
<1>2. /\ m \in Nat /\ n \in Nat
      /\ u \in Seq(Types)
      /\ Len(u) = m + n
      /\ \A i \in 1 .. m : u[i] = s[i]
      /\ \A i \in m + 1 .. m + n : u[i] = t[i - m]
    BY <1>1
<1>3. m > 0 /\ n > 0
    BY <1>1 DEF WellFormed
<1>4. \A i \in 1 .. m :
        /\ s[i] \notin ToMaster => i > 1 /\ s[i - 1] = "chunks_by_query"
        /\ s[i] = "chunks_by_query" => i < m /\ s[i + 1] \notin ToMaster
    BY <1>1 DEF WellFormed
<1>5. \A i \in 1 .. n :
        /\ t[i] \notin ToMaster => i > 1 /\ t[i - 1] = "chunks_by_query"
        /\ t[i] = "chunks_by_query" => i < n /\ t[i + 1] \notin ToMaster
    BY <1>1 DEF WellFormed
<1> HIDE DEF m, n, u
<1>6. u # <<>>
    BY <1>2, <1>3
<1>7. ASSUME NEW i \in 1 .. m + n
      PROVE  /\ u[i] \notin ToMaster => i > 1 /\ u[i - 1] = "chunks_by_query"
             /\ u[i] = "chunks_by_query" => i < m + n /\ u[i + 1] \notin ToMaster
    <2>1. CASE i \in 1 .. m
        <3>1. u[i] = s[i]
            BY <1>2, <2>1
        <3>2. u[i] \notin ToMaster => i > 1 /\ u[i - 1] = "chunks_by_query"
            <4>1. i > 1 => i - 1 \in 1 .. m
                BY <1>2, <2>1
            <4> QED
                BY <1>2, <1>4, <2>1, <3>1, <4>1
        <3>3. u[i] = "chunks_by_query" => i < m + n /\ u[i + 1] \notin ToMaster
            <4>1. i < m => i + 1 \in 1 .. m /\ i < m + n
                BY <1>2, <1>3, <2>1
            <4> QED
                BY <1>2, <1>4, <2>1, <3>1, <4>1
        <3> QED
            BY <3>2, <3>3
    <2>2. CASE i \in m + 1 .. m + n
        <3>1. PICK k \in 1 .. n : k = i - m
            BY <1>2, <2>2
        <3>2. u[i] = t[k] /\ i = k + m
            BY <1>2, <2>2, <3>1
        <3>3. u[i] \notin ToMaster => i > 1 /\ u[i - 1] = "chunks_by_query"
            <4>1. k > 1 => i > 1 /\ i - 1 \in m + 1 .. m + n /\ (i - 1) - m = k - 1
                BY <1>2, <3>1, <3>2
            <4>2. k > 1 => u[i - 1] = t[k - 1]
                BY <1>2, <4>1
            <4> QED
                BY <1>5, <3>2, <4>1, <4>2
        <3>4. u[i] = "chunks_by_query" => i < m + n /\ u[i + 1] \notin ToMaster
            <4>1. k < n => i < m + n /\ i + 1 \in m + 1 .. m + n /\ (i + 1) - m = k + 1
                BY <1>2, <3>1, <3>2
            <4>2. k < n => u[i + 1] = t[k + 1]
                BY <1>2, <4>1
            <4> QED
                BY <1>5, <3>2, <4>1, <4>2
        <3> QED
            BY <3>3, <3>4
    <2>3. i \in 1 .. m \/ i \in m + 1 .. m + n
        BY <1>2
    <2> QED
        BY <2>1, <2>2, <2>3
<1>8. WellFormed(u)
    BY <1>2, <1>6, <1>7 DEF WellFormed
<1> QED
    BY <1>2, <1>8 DEF Scripts, u

\* Scripts of operations, one after the other, are a script.
LEMMA FlattenedWellFormed ==
    ASSUME NEW seqs \in Seq(Scripts), seqs # <<>>
    PROVE  FlattenSeq(seqs) \in Scripts
<1> DEFINE N == Len(seqs)
           F == [z \in Nat \X Scripts |->
                    IF z[1] + 1 \in 1 .. N THEN z[2] \o seqs[z[1] + 1] ELSE z[2]]
           IsFlat(g) == g = [i \in 1 .. N |->
                                IF i = 1 THEN seqs[i] ELSE g[i - 1] \o seqs[i]]
<1>1. N \in Nat /\ N > 0 /\ N - 1 \in Nat /\ \A i \in 1 .. N : seqs[i] \in Scripts
    OBVIOUS
<1>2. F \in [Nat \X Scripts -> Scripts]
    BY <1>1, OneAfterTheOther
<1>3. \A n \in Nat, s \in Scripts : n + 1 \in 1 .. N =>
        F[<<n, s>>] = s \o seqs[n + 1]
    OBVIOUS
<1>4. FlattenSeq(seqs) = LET flatten == CHOOSE g : IsFlat(g) IN flatten[N]
    BY <1>1 DEF FlattenSeq
<1>5. seqs[1] \in Scripts
    BY <1>1
<1> HIDE DEF F, N
<1>6. PICK f \in [0 .. N - 1 -> Scripts] : Iterates(f, seqs[1], F, N - 1)
    BY <1>1, <1>2, <1>5, IterationExists
<1> DEFINE g == [i \in 1 .. N |-> f[i - 1]]
<1>7. ASSUME NEW i \in 1 .. N
      PROVE  g[i] = IF i = 1 THEN seqs[i] ELSE g[i - 1] \o seqs[i]
    <2>1. i - 1 \in 0 .. N - 1 /\ g[i] = f[i - 1]
        BY <1>1
    <2>2. CASE i = 1
        <3>1. f[0] = seqs[1]
            BY <1>1, <1>6 DEF Iterates
        <3> QED
            BY <2>1, <2>2, <3>1
    <2>3. CASE i # 1
        <3>1. /\ i - 1 # 0 /\ i - 1 \in Nat
              /\ i - 1 - 1 \in 0 .. N - 1 /\ i - 1 \in 1 .. N
              /\ i - 1 + 1 = i
            BY <1>1, <2>3
        <3>2. PICK k \in 0 .. N - 1 : k = i - 1 /\ k # 0
            BY <2>1, <3>1
        <3>3. f[k] = F[<<k, f[k - 1]>>]
            BY <1>6, <3>2 DEF Iterates
        <3>4. f[k - 1] \in Scripts /\ g[i - 1] = f[k - 1]
            BY <1>1, <1>6, <3>1, <3>2
        <3>5. F[<<k, f[k - 1]>>] = f[k - 1] \o seqs[i]
            BY <1>3, <3>1, <3>2, <3>4
        <3> QED
            BY <2>1, <2>3, <3>2, <3>3, <3>4, <3>5
    <2> QED
        BY <2>2, <2>3
<1>8. IsFlat(g)
    BY <1>7
<1> HIDE DEF g
<1> DEFINE flatten == CHOOSE h : IsFlat(h)
           S == {n \in Nat : flatten[n + 1] \in Scripts}
<1>9. IsFlat(flatten)
    BY <1>8
<1>10. FlattenSeq(seqs) = flatten[N]
    BY <1>4
<1> HIDE DEF flatten
<1>11. \A i \in 1 .. N :
        flatten[i] = IF i = 1 THEN seqs[i] ELSE flatten[i - 1] \o seqs[i]
    BY <1>9
<1>12. 0 \in S
    <2>1. flatten[1] = seqs[1]
        BY <1>1, <1>11
    <2> QED
        BY <1>5, <2>1
<1>13. ASSUME NEW n \in 0 .. (N - 1) - 1, n \in S PROVE n + 1 \in S
    <2>1. PICK i \in 1 .. N : i = n + 1 + 1 /\ i # 1 /\ i - 1 = n + 1
        BY <1>1
    <2>2. flatten[i] = flatten[n + 1] \o seqs[i]
        BY <1>11, <2>1
    <2>3. flatten[n + 1] \in Scripts /\ seqs[i] \in Scripts
        BY <1>1, <1>13
    <2>4. flatten[i] \in Scripts
        BY <2>2, <2>3, OneAfterTheOther
    <2> QED
        BY <2>1, <2>4
<1> HIDE DEF S
<1>14. \A n \in 0 .. N - 1 : n \in S
    BY <1>1, <1>12, <1>13, BoundedInduction
<1>15. N - 1 \in S /\ N - 1 + 1 = N
    BY <1>1, <1>14
<1> QED
    BY <1>10, <1>15 DEF S

LEMMA ScriptWellFormed ==
    ASSUME NEW operations \in Seq(Operations) \ {<<>>}
    PROVE  Script(operations) \in Scripts
<1> DEFINE seqs == [i \in DOMAIN operations |-> Requests(operations[i])]
<1>1. /\ DOMAIN operations = 1 .. Len(operations)
      /\ Len(operations) \in Nat
      /\ \A i \in 1 .. Len(operations) : operations[i] \in Operations
      /\ Len(operations) # 0
    OBVIOUS
<1>2. seqs \in [1 .. Len(operations) -> Scripts]
    BY <1>1, RequestsWellFormed
<1>3. seqs \in Seq(Scripts) /\ seqs # <<>>
    BY <1>1, <1>2
<1> HIDE DEF seqs
<1>4. FlattenSeq(seqs) \in Scripts
    BY <1>3, FlattenedWellFormed
<1> QED
    BY <1>4 DEF Script, seqs

-----------------------------------------------------------------------------
(* The invariant holds                                                     *)

LEMMA InitCInv == Init => CInv
<1> SUFFICES ASSUME Init PROVE CInv
    OBVIOUS
<1>1. MasterTyped
    <2>1. {} \in FreeLists
        BY FS_EmptySet DEF FreeLists
    <2>2. /\ chunk2Free = [c \in Chunks |-> 0]
          /\ freePositions = {}
          /\ partitions = [t \in Tables |-> NoTable]
          /\ frozen = FALSE
          /\ up = TRUE
          /\ replaced = {}
          /\ faults = 0
        BY DEF Init, MasterInit
    <2>3. chunk2Free \in [Chunks -> Nat]
        BY <2>2
    <2>4. partitions \in [Tables -> Seq(Part) \cup {NoTable}]
        BY <2>2
    <2>5. faults \in 0 .. MaxFaults
        BY <2>2
    <2> QED
        BY <2>1, <2>2, <2>3, <2>4, <2>5 DEF MasterTyped
<1>2. ChunksTyped
    BY DEF Init, ChunksTyped, Existing
<1>3. PICK p \in Programs :
        /\ script = [cl \in Clients |-> Script(p[cl].operations)]
        /\ table = [cl \in Clients |-> p[cl].table]
        /\ size = [cl \in Clients |-> p[cl].size]
    BY DEF Init
<1>4. \A cl \in Clients : /\ p[cl].table \in Tables
                          /\ p[cl].size \in Sizes
                          /\ p[cl].operations \in Seq(Operations) \ {<<>>}
    <2>1. p \in [Clients -> [table : Tables, size : Sizes,
                             operations : Seq(Operations) \ {<<>>}]]
        OBVIOUS
    <2> QED
        BY <2>1
<1>5. \A cl \in Clients : script[cl] \in Scripts
    BY <1>3, <1>4, ScriptWellFormed
<1>6. \A cl \in Clients : /\ script[cl] \in Seq(Types)
                          /\ WellFormed(script[cl])
                          /\ Len(script[cl]) \in Nat
                          /\ DOMAIN script[cl] = 1 .. Len(script[cl])
                          /\ Len(script[cl]) > 0
    <2> SUFFICES ASSUME NEW cl \in Clients
                 PROVE  /\ script[cl] \in Seq(Types)
                        /\ WellFormed(script[cl])
                        /\ Len(script[cl]) \in Nat
                        /\ DOMAIN script[cl] = 1 .. Len(script[cl])
                        /\ Len(script[cl]) > 0
        OBVIOUS
    <2>1. script[cl] \in Seq(Types) /\ WellFormed(script[cl])
        BY <1>5 DEF Scripts
    <2>2. script[cl] # <<>>
        BY <2>1 DEF WellFormed
    <2> QED
        BY <2>1, <2>2
<1>7. ProgramTyped
    BY <1>3, <1>4, <1>6 DEF ProgramTyped
<1>8. /\ pc = [cl \in Clients |-> 1]
      /\ todo = [cl \in Clients |-> <<>>]
      /\ status = [cl \in Clients |-> "asks"]
      /\ used = [cl \in Clients |-> [i \in DOMAIN script[cl] |-> <<>>]]
      /\ added = [c \in Chunks |-> <<>>]
    BY DEF Init
<1>9. ASSUME NEW cl \in Clients
      PROVE  /\ used[cl] \in Seq(Seq(Chunks))
             /\ Len(used[cl]) = Len(script[cl])
             /\ \A i \in 1 .. Len(script[cl]) : used[cl][i] = <<>>
    <2>1. used[cl] = [i \in 1 .. Len(script[cl]) |-> <<>>]
        BY <1>6, <1>8
    <2>2. used[cl] \in [1 .. Len(script[cl]) -> Seq(Chunks)]
        BY <2>1
    <2>3. Len(script[cl]) \in Nat
        BY <1>6
    <2> QED
        BY <2>1, <2>2, <2>3
<1>10. ClientsTyped
    <2>1. pc \in [Clients -> Nat] /\ status \in [Clients -> Statuses]
        BY <1>8 DEF Statuses
    <2>2. todo \in [Clients -> Seq(Chunks)]
        <3>1. <<>> \in Seq(Chunks)
            OBVIOUS
        <3> QED
            BY <1>8, <3>1
    <2>3. used \in [Clients -> Seq(Seq(Chunks))]
        <3>1. DOMAIN used = Clients
            BY <1>8
        <3> QED
            BY <1>8, <1>9
    <2> QED
        BY <1>9, <2>1, <2>2, <2>3 DEF ClientsTyped
<1>11. ASSUME NEW cl \in Clients PROVE ClientFits(cl)
    <2>1. pc[cl] = 1 /\ 1 \in 1 .. Len(script[cl])
        BY <1>6, <1>8
    <2>2. script[cl][1] \in ToMaster
        BY <1>6, <2>1 DEF WellFormed
    <2> QED
        <3>1. pc[cl] \in 1 .. Len(script[cl]) + 1 /\ pc[cl] <= Len(script[cl])
            BY <1>6, <2>1
        <3>2. Request(cl) \in ToMaster
            BY <2>1, <2>2 DEF Request
        <3> QED
            BY <3>1, <3>2 DEF ClientFits
<1>12. ClientsFit
    BY <1>7, <1>10, <1>11 DEF ClientsFit
<1>13. ASSUME NEW cl \in Clients, NEW i \in 1 .. Len(script[cl]),
              script[cl][i] \notin ToMaster
       PROVE  Passed[cl][i] = 0
    <2>1. pc[cl] = 1 /\ i \in Nat /\ ~(i < 1)
        BY <1>6, <1>8
    <2>2. i # 1
        BY <1>6, <1>13 DEF WellFormed
    <2> QED
        BY <2>1, <2>2, PassedIs
<1>14. CreatesFit
    <2>1. ASSUME NEW m \in Made PROVE FALSE
        <3>1. /\ m[1] \in Clients
              /\ m[2] \in 1 .. Len(script[m[1]])
              /\ script[m[1]][m[2]] = "create_table"
              /\ Passed[m[1]][m[2]] # 0
            BY <1>12, MadeTyped
        <3> QED
            BY <1>13, <3>1 DEF ToMaster
    <2> QED
        BY <2>1 DEF CreatesFit
<1>15. RowsFit
    <2>1. ASSUME NEW c \in Chunks, NEW r \in Clients \X Nat
          PROVE  Performed[c][r] = 0
        <3>1. Performed[c][r] = Times(<<>>, r)
            BY <1>8 DEF Performed
        <3>2. {k \in DOMAIN <<>> : <<>>[k] = r} = {}
            OBVIOUS
        <3>3. Times(<<>>, r) = 0
            BY <3>2, FS_EmptySet DEF Times
        <3> QED
            BY <3>1, <3>3
    <2>2. ASSUME NEW cl \in Clients, NEW i \in 1 .. Len(script[cl]),
                 NEW c \in Chunks, script[cl][i] = "add_row"
          PROVE  Told[cl][i][c] \in Nat /\ Answered[cl][i][c] = 0
        <3>1. /\ Told[cl][i][c] = Times(used[cl][i], c)
              /\ Answered[cl][i][c] = Count(used[cl][i], Passed[cl][i], c)
            BY RowsAre
        <3>2. used[cl][i] \in Seq(Chunks)
            BY <1>9
        <3>3. Passed[cl][i] = 0
            BY <1>13, <2>2 DEF ToMaster
        <3> QED
            BY <3>1, <3>2, <3>3, TimesIsCount, CountNothing
    <2>3. ASSUME NEW cl \in Clients, NEW i \in Nat, NEW c \in Chunks
          PROVE  Performed[c][<<cl, i>>] = 0
        BY <2>1
    <2>4. ASSUME NEW cl \in Clients, NEW i \in Nat, NEW c \in Chunks
          PROVE  IF i \in 1 .. Len(script[cl]) /\ script[cl][i] = "add_row"
                 THEN /\ Performed[c][<<cl, i>>] <= Told[cl][i][c]
                      /\ Hears(cl, i) =>
                            Performed[c][<<cl, i>>] = Answered[cl][i][c]
                 ELSE Performed[c][<<cl, i>>] = 0
        <3>1. CASE i \in 1 .. Len(script[cl]) /\ script[cl][i] = "add_row"
            <4>1. Told[cl][i][c] \in Nat /\ Answered[cl][i][c] = 0
                BY <2>2, <3>1
            <4>2. Performed[c][<<cl, i>>] = 0
                BY <2>3
            <4> QED
                BY <3>1, <4>1, <4>2
        <3>2. CASE ~(i \in 1 .. Len(script[cl]) /\ script[cl][i] = "add_row")
            BY <2>3, <3>2
        <3> QED
            BY <3>1, <3>2
    <2> QED
        BY <2>4 DEF RowsFit
<1>16. PlacesFit
    BY <1>9 DEF PlacesFit
<1> QED
    BY <1>1, <1>2, <1>12, <1>14, <1>15, <1>16 DEF CInv

LEMMA ClientGoesOnKeeps ==
    ASSUME CInv, NEW cl \in Clients, ClientGoesOn(cl)
    PROVE  CInv'
BY RefusedKeeps, GivesUpKeeps, InsertTableOnMasterKeeps, GetPartitionKeeps,
   RemoveTableOnMasterKeeps, ServeKeeps
DEF ClientGoesOn, ServeMaster

LEMMA UnchangedKeeps ==
    ASSUME CInv, UNCHANGED vars
    PROVE  CInv'
<1>1. Stands
    BY DEF vars, Stands, client, program, CInv, ClientsFit, ClientsTyped
<1>2. MasterTyped' /\ PartsKept
    BY ServersQuiet DEF vars, CInv, MasterTyped
<1>3. ChunksTyped' /\ FilesKept /\ added' = added
    BY ChunksQuiet DEF vars
<1> QED
    BY <1>1, <1>2, <1>3, QuietKeeps

LEMMA NextKeepsCInv == CInv /\ [Next]_vars => CInv'
<1> SUFFICES ASSUME CInv, [Next]_vars PROVE CInv'
    OBVIOUS
<1>1. ASSUME NEW cl \in Clients, ClientGoesOn(cl) \/ TimesOut(cl) PROVE CInv'
    BY <1>1, ClientGoesOnKeeps, TimesOutKeeps
<1>2. ASSUME NEW c \in Chunks, HeartbeatEnds(c) \/ KillChunk(c) \/ StartChunk(c)
      PROVE  CInv'
    BY <1>2, OnUpdateKeeps, HeartbeatFailsKeeps, KillChunkKeeps, StartChunkKeeps
    DEF HeartbeatEnds
<1>3. CASE KillMaster
    BY <1>3, KillMasterKeeps
<1>4. CASE StartMaster
    BY <1>4, StartMasterKeeps
<1>5. CASE UNCHANGED vars
    BY <1>5, UnchangedKeeps
<1> QED
    BY <1>1, <1>2, <1>3, <1>4, <1>5 DEF Next

\* The inductive invariant holds in every reachable state.
THEOREM Invariance == Spec => []CInv
BY InitCInv, NextKeepsCInv, PTL DEF Spec

-----------------------------------------------------------------------------
(* The properties                                                          *)

\* The state has its types, and an open request to chunks names one.
THEOREM TypeCorrect == Spec => []TypeOK
<1>1. ASSUME CInv PROVE TypeOK
    <2>1. /\ chunk2Free \in [Chunks -> Nat]
          /\ freePositions \subseteq Nat \X Chunks
          /\ partitions \in
               [Tables -> Seq([chunk : Chunks, bytes : Nat]) \cup {NoTable}]
          /\ {up, frozen} \subseteq BOOLEAN
          /\ replaced \subseteq Tables
          /\ faults \in 0 .. MaxFaults
        BY <1>1 DEF CInv, MasterTyped, FreeLists, Entry, Part
    <2>2. /\ alive \subseteq Chunks
          /\ files \in [Chunks -> [Tables -> {"none", "scheme", "both"}]]
          /\ paged \in [Chunks -> SUBSET Tables]
          /\ added \in [Chunks -> Seq(Clients \X Nat)]
        BY <1>1 DEF CInv, ChunksTyped, Existing
    <2>3. /\ todo \in [Clients -> Seq(Chunks)]
          /\ status \in [Clients -> {"asks", "late", "hung", "ended", "died"}]
        BY <1>1 DEF CInv, ClientsFit, ClientsTyped, Statuses
    <2>4. ASSUME NEW cl \in Clients
          PROVE  /\ pc[cl] \in 1 .. Len(script[cl])
                                     + (IF status[cl] = "ended" THEN 1 ELSE 0)
                 /\ status[cl] \in {"asks", "late", "hung"}
                       /\ Request(cl) \notin ToMaster => todo[cl] # <<>>
        <3>1. ClientFits(cl) /\ Len(script[cl]) \in Nat
            BY <1>1 DEF CInv, ClientsFit, ProgramTyped
        <3>2. pc[cl] \in 1 .. Len(script[cl])
                                + (IF status[cl] = "ended" THEN 1 ELSE 0)
            <4>1. CASE status[cl] = "ended"
                BY <3>1, <4>1 DEF ClientFits
            <4>2. CASE status[cl] # "ended"
                BY <3>1, <4>2 DEF ClientFits
            <4> QED
                BY <4>1, <4>2
        <3>3. status[cl] \in {"asks", "late", "hung"}
                /\ Request(cl) \notin ToMaster => Len(todo[cl]) # 0
            <4> SUFFICES ASSUME status[cl] \in {"asks", "late", "hung"},
                                Request(cl) \notin ToMaster
                         PROVE  Len(todo[cl]) # 0
                OBVIOUS
            <4>1. pc[cl] <= Len(script[cl])
                BY <3>1 DEF ClientFits
            <4>2. Len(todo[cl]) \in 1 .. Len(used[cl][pc[cl]])
                BY <3>1, <4>1 DEF ClientFits
            <4> QED
                BY <4>2
        <3>4. Len(<<>>) = 0
            OBVIOUS
        <3> QED
            BY <3>2, <3>3, <3>4
    <2> QED
        BY <2>1, <2>2, <2>3, <2>4 DEF TypeOK
<1> QED
    BY <1>1, Invariance, PTL

\* All the chunks of a request that was acknowledged have answered it.
LEMMA AcknowledgedIsPassed ==
    ASSUME CInv, NEW cl \in Clients, NEW i, NEW type, type \notin ToMaster,
           Acknowledged(cl, i, type)
    PROVE  /\ i \in 1 .. Len(script[cl])
           /\ i \in Nat
           /\ script[cl][i] = type
           /\ used[cl][i] \in Seq(Chunks)
           /\ Len(used[cl][i]) \in Nat
           /\ DOMAIN used[cl][i] = 1 .. Len(used[cl][i])
           /\ Passed[cl][i] = Len(used[cl][i])
           /\ Hears(cl, i)
<1>1. /\ i \in DOMAIN script[cl]
      /\ script[cl][i] = type
      /\ i < pc[cl]
    BY DEF Acknowledged
<1>2. script[cl] \in Seq(Types)
    BY DEF CInv, ClientsFit, ProgramTyped
<1>3. i \in 1 .. Len(script[cl]) /\ i \in Nat
    BY <1>1, <1>2
<1>4. used[cl][i] \in Seq(Chunks)
    BY <1>1, <1>3, PassedBounds DEF CInv
<1>5. Passed[cl][i] = Len(used[cl][i])
    BY <1>1, <1>3, PassedIs
<1> QED
    BY <1>1, <1>3, <1>4, <1>5 DEF Hears

\* What was acknowledged as created was made.
LEMMA AcknowledgedIsMade ==
    ASSUME CInv, NEW cl \in Clients, NEW i, Acknowledged(cl, i, "create_table"),
           NEW k \in DOMAIN used[cl][i]
    PROVE  /\ <<cl, i, k>> \in Made
           /\ Where[<<cl, i, k>>] = <<used[cl][i][k], table[cl]>>
<1>1. "create_table" \notin ToMaster
    BY DEF ToMaster
<1>2. /\ i \in 1 .. Len(script[cl])
      /\ i \in Nat
      /\ script[cl][i] = "create_table"
      /\ DOMAIN used[cl][i] = 1 .. Len(used[cl][i])
      /\ Passed[cl][i] = Len(used[cl][i])
    BY <1>1, AcknowledgedIsPassed
<1>3. k \in Nat /\ k \in 1 .. Passed[cl][i]
    BY <1>2
<1>4. <<cl, i, k>> \in Made
    BY <1>2, <1>3 DEF Made
<1> QED
    BY <1>4 DEF Where

\* A table that was created stays on every part its creator was told of,
\* whatever dies, is placed anew or comes late.
THEOREM CreatedStays == Spec => []CreatedOnEveryPart
<1>1. ASSUME CInv PROVE CreatedOnEveryPart
    <2> SUFFICES ASSUME NEW cl \in Clients, NEW i \in Steps,
                        Acknowledged(cl, i, "create_table"),
                        NEW k \in DOMAIN used[cl][i]
                 PROVE  files[used[cl][i][k]][table[cl]] = "both"
        BY DEF CreatedOnEveryPart, ToSet
    <2>1. PICK m \in Made : Where[m] = <<used[cl][i][k], table[cl]>>
        BY <1>1, AcknowledgedIsMade
    <2> QED
        BY <1>1, <2>1 DEF CInv, CreatesFit
<1> QED
    BY <1>1, Invariance, PTL

\* No chunk acknowledges the creation of a table twice.
LEMMA OneCreation ==
    ASSUME CInv PROVE OneCreatorPerTable
<1> SUFFICES ASSUME NEW cl \in Clients, NEW other \in Clients,
                    NEW i \in Steps, NEW j \in Steps,
                    Acknowledged(cl, i, "create_table"),
                    Acknowledged(other, j, "create_table"),
                    table[cl] = table[other]
             PROVE  IF <<cl, i>> = <<other, j>> THEN IsInjective(used[cl][i])
                    ELSE ToSet(used[cl][i]) \cap ToSet(used[other][j]) = {}
    BY DEF OneCreatorPerTable
<1>1. ASSUME NEW k \in DOMAIN used[cl][i], NEW l \in DOMAIN used[other][j],
             used[cl][i][k] = used[other][j][l]
      PROVE  cl = other /\ i = j /\ k = l
    <2>1. /\ <<cl, i, k>> \in Made
          /\ Where[<<cl, i, k>>] = <<used[cl][i][k], table[cl]>>
        BY AcknowledgedIsMade
    <2>2. /\ <<other, j, l>> \in Made
          /\ Where[<<other, j, l>>] = <<used[other][j][l], table[other]>>
        BY AcknowledgedIsMade
    <2>3. <<cl, i, k>> = <<other, j, l>>
        BY <1>1, <2>1, <2>2 DEF CInv, CreatesFit
    <2> QED
        BY <2>3
<1>2. CASE <<cl, i>> = <<other, j>>
    BY <1>1, <1>2 DEF IsInjective
<1>3. CASE <<cl, i>> # <<other, j>>
    BY <1>1, <1>3 DEF ToSet
<1> QED
    BY <1>2, <1>3

\* Two acknowledged creations of a table were made by different chunks, also
\* when both are of one client or of one request.
THEOREM OneCreator == Spec => []OneCreatorPerTable
BY OneCreation, Invariance, PTL

\* An acknowledged row was added once for every part its client was told of,
\* and no chunk adds a row twice to a table that was placed and made once.
THEOREM RowsAddedOnce == Spec => []RowsOncePerPart
<1>1. ASSUME CInv PROVE RowsOncePerPart
    <2> SUFFICES ASSUME NEW cl \in Clients, NEW i \in Steps, NEW c \in Chunks
                 PROVE  LET n == Times(added[c], <<cl, i>>) IN
                        /\ n <= Times(IF i \in DOMAIN used[cl]
                                      THEN used[cl][i] ELSE <<>>, c)
                        /\ Acknowledged(cl, i, "add_row") =>
                                n = Times(used[cl][i], c)
                        /\ (/\ table[cl] \notin replaced
                            /\ \E other \in Clients, j \in Steps :
                                  /\ table[other] = table[cl]
                                  /\ Acknowledged(other, j, "create_table")
                                  /\ used[other][j] # <<>>)
                              => n <= 1
        BY DEF RowsOncePerPart
    <2> DEFINE n == Times(added[c], <<cl, i>>)
    <2>1. i \in Nat
        <3>1. PICK o \in Clients : i \in DOMAIN script[o]
            BY DEF Steps
        <3>2. script[o] \in Seq(Types)
            BY <1>1 DEF CInv, ClientsFit, ProgramTyped
        <3> QED
            BY <3>1, <3>2
    <2>2. n = Performed[c][<<cl, i>>] /\ n \in Nat
        BY <1>1, <2>1, PerformedIs DEF CInv
    <2>3. /\ used[cl] \in Seq(Seq(Chunks))
          /\ Len(used[cl]) = Len(script[cl])
          /\ DOMAIN used[cl] = 1 .. Len(script[cl])
        <3>1. used[cl] \in Seq(Seq(Chunks)) /\ Len(used[cl]) = Len(script[cl])
            BY <1>1 DEF CInv, ClientsFit, ClientsTyped
        <3> QED
            BY <3>1
    <2> HIDE DEF n
    <2>4. CASE i \in 1 .. Len(script[cl]) /\ script[cl][i] = "add_row"
        <3>1. /\ used[cl][i] \in Seq(Chunks)
              /\ Len(used[cl][i]) \in Nat
            BY <2>3, <2>4
        <3>2. /\ n <= Told[cl][i][c]
              /\ Hears(cl, i) => n = Answered[cl][i][c]
            BY <1>1, <2>1, <2>2, <2>4 DEF CInv, RowsFit
        <3>3. /\ Told[cl][i][c] = Times(used[cl][i], c)
              /\ Answered[cl][i][c] = Count(used[cl][i], Passed[cl][i], c)
            BY <2>4, RowsAre
        <3>4. Acknowledged(cl, i, "add_row") => n = Times(used[cl][i], c)
            <4> SUFFICES ASSUME Acknowledged(cl, i, "add_row")
                         PROVE  n = Times(used[cl][i], c)
                OBVIOUS
            <4>1. Passed[cl][i] = Len(used[cl][i]) /\ Hears(cl, i)
                <5>1. "add_row" \notin ToMaster
                    BY DEF ToMaster
                <5> QED
                    BY <1>1, <5>1, AcknowledgedIsPassed
            <4>2. Times(used[cl][i], c) = Count(used[cl][i], Len(used[cl][i]), c)
                BY <3>1, TimesIsCount
            <4> QED
                BY <3>2, <3>3, <4>1, <4>2
        <3>5. ASSUME table[cl] \notin replaced,
                     NEW other \in Clients, NEW j \in Steps,
                     table[other] = table[cl],
                     Acknowledged(other, j, "create_table"),
                     used[other][j] # <<>>
              PROVE  n <= 1
            <4>1. /\ j \in 1 .. Len(script[other])
                  /\ j \in Nat
                  /\ used[other][j] \in Seq(Chunks)
                <5>1. "create_table" \notin ToMaster
                    BY DEF ToMaster
                <5> QED
                    BY <1>1, <3>5, <5>1, AcknowledgedIsPassed
            <4>2. used[other][j] = ChunksOf(partitions[table[cl]])
                BY <1>1, <3>5, <4>1 DEF CInv, PlacesFit
            <4>3. used[cl][i] = <<>> \/ used[cl][i] = used[other][j]
                BY <1>1, <2>1, <2>4, <3>5, <4>2 DEF CInv, PlacesFit
            <4>4. IsInjective(used[other][j])
                <5>1. OneCreatorPerTable
                    BY <1>1, OneCreation
                <5> QED
                    BY <3>5, <5>1 DEF OneCreatorPerTable
            <4>5. IsInjective(used[cl][i])
                <5>1. IsInjective(<<>>)
                    BY DEF IsInjective
                <5> QED
                    BY <4>3, <4>4, <5>1
            <4>6. Times(used[cl][i], c) <= 1
                BY <3>1, <4>5, TimesOfInjective
            <4>7. Times(used[cl][i], c) \in Nat
                BY <3>1, TimesIsCount
            <4> QED
                BY <2>2, <3>2, <3>3, <4>6, <4>7
        <3> QED
            BY <2>3, <2>4, <3>2, <3>3, <3>4, <3>5 DEF n
    <2>5. CASE ~(i \in 1 .. Len(script[cl]) /\ script[cl][i] = "add_row")
        <3>1. n = 0
            BY <1>1, <2>1, <2>2, <2>5 DEF CInv, RowsFit
        <3>2. ~Acknowledged(cl, i, "add_row")
            <4>1. "add_row" \notin ToMaster
                BY DEF ToMaster
            <4> QED
                BY <1>1, <2>5, <4>1, AcknowledgedIsPassed
        <3>3. Times(IF i \in DOMAIN used[cl] THEN used[cl][i] ELSE <<>>, c) \in Nat
            <4>1. (IF i \in DOMAIN used[cl] THEN used[cl][i] ELSE <<>>) \in Seq(Chunks)
                BY <2>3
            <4> QED
                BY <4>1, TimesIsCount
        <3> QED
            BY <3>1, <3>2, <3>3 DEF n
    <2> QED
        BY <2>4, <2>5
<1> QED
    BY <1>1, Invariance, PTL
=============================================================================
