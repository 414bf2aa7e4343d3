------------------------------- MODULE Master -------------------------------
(***************************************************************************)
(* What the master promises to chunks and clients: every operation of the  *)
(* balancer (master/balancer.cpp) as one step.  Module Balancer, with its  *)
(* threads, its mutex and the rounds of InsertTable, implements it; module *)
(* Cluster builds on it.                                                   *)
(***************************************************************************)
EXTENDS Integers, Sequences, FiniteSets, SequencesExt

CONSTANTS
    Chunks,         \* numbers: the order of their host and port
    Tables,
    Capacity,       \* the free bytes a chunk reports: configured, constant
    Sizes,          \* table sizes clients ask for
    NoTable

ASSUME ChunksAssumption == Chunks \subseteq Nat
ASSUME CapacityAssumption == Capacity \in [Chunks -> Nat]
ASSUME SizesAssumption == Sizes \subseteq Nat

VARIABLES
    chunk2Free,     \* chunk -> the free bytes it last reported
    freePositions,  \* {<<free bytes, chunk>>}
    partitions,     \* table -> sequence of [chunk, bytes], or NoTable
    frozen          \* a remove_table was received

master == <<chunk2Free, freePositions, partitions, frozen>>

MasterInit ==
    /\ chunk2Free = [c \in Chunks |-> 0]
    /\ freePositions = {}
    /\ partitions = [t \in Tables |-> NoTable]
    /\ frozen = FALSE

\* OnUpdate replaces the entry of the chunk's previous report only.
Report(c) ==
    /\ ~frozen
    /\ freePositions' = (freePositions \ {<<chunk2Free[c], c>>})
                          \cup {<<Capacity[c], c>>}
    /\ chunk2Free' = [chunk2Free EXCEPT ![c] = Capacity[c]]
    /\ UNCHANGED <<partitions, frozen>>

-----------------------------------------------------------------------------
(* InsertTable                                                             *)

\* *freePositions_.rbegin() of the ordered set of pairs.
LastOf(free) ==
    CHOOSE e \in free :
        \A x \in free : x[1] < e[1] \/ (x[1] = e[1] /\ x[2] <= e[2])

\* One round of the loop: the last entry is used up or made smaller.
Round(place) ==
    LET last == LastOf(place.free)
        fits == place.left < last[1]
        given == IF fits THEN place.left ELSE last[1]
    IN  [free |-> (place.free \ {last})
                    \cup (IF fits THEN {<<last[1] - given, last[2]>>} ELSE {}),
         left |-> place.left - given,
         parts |-> Append(place.parts, [chunk |-> last[2], bytes |-> given])]

\* The loop, which ends when the table or the free list is used up: every round
\* but the last one uses up an entry.
Rounds(free, size) ==
    LET after[n \in 0 .. Cardinality(free)] ==
            IF n = 0 THEN [free |-> free, left |-> size, parts |-> <<>>]
            ELSE LET place == after[n - 1]
                 IN  IF place.left = 0 \/ place.free = {} THEN place
                     ELSE Round(place)
    IN  after
Placement(free, size) == Rounds(free, size)[Cardinality(free)]

Enough(size) == Placement(freePositions, size).left = 0

InsertTable(t, size) ==
    LET place == Placement(freePositions, size) IN
    /\ ~frozen
    /\ freePositions' = place.free
    /\ partitions' = IF Enough(size) THEN [partitions EXCEPT ![t] = place.parts]
                     ELSE partitions
    /\ UNCHANGED <<chunk2Free, frozen>>

-----------------------------------------------------------------------------
\* EraseTable locks the mutex twice: it never returns, nor does any operation
\* after it.
EraseTable ==
    /\ ~frozen
    /\ frozen' = TRUE
    /\ UNCHANGED <<chunk2Free, freePositions, partitions>>

\* A new process on the same store.  A table stored with no parts has an empty
\* value, which the store does not recover.
Restart ==
    /\ frozen' = FALSE
    /\ chunk2Free' = [c \in Chunks |-> 0]
    /\ freePositions' = {}
    /\ partitions' = [t \in Tables |->
                        IF partitions[t] = <<>> THEN NoTable ELSE partitions[t]]

MasterNext ==
    \/ \E c \in Chunks : Report(c)
    \/ \E t \in Tables, n \in Sizes : InsertTable(t, n)
    \/ EraseTable
    \/ Restart

MasterSpec == MasterInit /\ [][MasterNext]_master
=============================================================================
