----------------------------- MODULE BTreeProofs ------------------------------
(***************************************************************************)
(* The B-tree index is a map, for every size of its pages, every set of    *)
(* keys and row ids and any number of inserts and removes: its separators  *)
(* bound the leaves below them, and every operation changes the pairs that *)
(* lookup finds as module Index says.  A scan along the links between the  *)
(* leaves returns pairs of the map only, in the order of their keys, and   *)
(* all of them until a leaf is dropped.                                    *)
(***************************************************************************)
EXTENDS BTree, Iteration, SequenceTheorems

USE KeysAssumption, RidsAssumption, LeafAssumption, InnerAssumption,
    PagesAssumption, SwitchAssumption

-----------------------------------------------------------------------------
(* Sequences                                                               *)

\* t is s with e at position i.
Inserts(s, i, e, t, S) ==
    /\ t \in Seq(S)
    /\ Len(t) = Len(s) + 1
    /\ \A j \in 1 .. Len(s) + 1 :
         /\ j < i => t[j] = s[j]
         /\ j = i => t[j] = e
         /\ j > i => t[j] = s[j - 1]

LEMMA InsertedAt ==
    ASSUME NEW S, NEW s \in Seq(S), NEW i \in 1 .. Len(s) + 1, NEW e \in S
    PROVE  Inserts(s, i, e, InsertAt(s, i, e), S)
<1> DEFINE a == SubSeq(s, 1, i - 1)
           b == SubSeq(s, i, Len(s))
<1>1. /\ a \in Seq(S) /\ Len(a) = i - 1
      /\ \A j \in 1 .. i - 1 : a[j] = s[j]
    OBVIOUS
<1>2. /\ b \in Seq(S) /\ Len(b) = Len(s) - i + 1
      /\ \A j \in 1 .. Len(s) - i + 1 : b[j] = s[i + j - 1]
    OBVIOUS
<1>3. InsertAt(s, i, e) = a \o <<e>> \o b
    BY DEF InsertAt
<1> HIDE DEF a, b
<1>4. Len(s) \in Nat /\ i \in Nat /\ i >= 1
    OBVIOUS
<1>5. /\ a \o <<e>> \in Seq(S)
      /\ Len(a \o <<e>>) = i
      /\ \A j \in 1 .. i : (a \o <<e>>)[j] = IF j < i THEN s[j] ELSE e
    BY <1>1, <1>4
<1> DEFINE c == a \o <<e>>
<1>6. /\ c \in Seq(S)
      /\ Len(c) = i
      /\ \A j \in 1 .. i : c[j] = IF j < i THEN s[j] ELSE e
    BY <1>5
<1> HIDE DEF c
<1>7. InsertAt(s, i, e) = c \o b
    BY <1>3 DEF c
<1>8. /\ c \o b \in Seq(S)
      /\ Len(c \o b) = i + (Len(s) - i + 1)
      /\ \A j \in 1 .. i + (Len(s) - i + 1) :
            (c \o b)[j] = IF j <= i THEN c[j] ELSE b[j - i]
    <2>1. /\ c \o b \in Seq(S)
          /\ Len(c \o b) = Len(c) + Len(b)
          /\ \A j \in 1 .. Len(c) + Len(b) :
                (c \o b)[j] = IF j <= Len(c) THEN c[j] ELSE b[j - Len(c)]
        BY <1>2, <1>6, ConcatProperties
    <2>2. Len(c) = i /\ Len(b) = Len(s) - i + 1
        BY <1>2, <1>6
    <2>3. Len(c) + Len(b) = i + (Len(s) - i + 1)
        BY <2>2
    <2> QED
        BY <2>1, <2>2, <2>3
<1>9. i + (Len(s) - i + 1) = Len(s) + 1
    BY <1>4
<1>10. ASSUME NEW j \in 1 .. Len(s) + 1
       PROVE  /\ j < i => (c \o b)[j] = s[j]
              /\ j = i => (c \o b)[j] = e
              /\ j > i => (c \o b)[j] = s[j - 1]
    <2>1. CASE j <= i
        BY <1>4, <1>6, <1>8, <1>9, <2>1
    <2>2. CASE j > i
        <3>1. j - i \in 1 .. Len(s) - i + 1 /\ i + (j - i) - 1 = j - 1
            BY <1>4, <2>2
        <3>2. b[j - i] = s[j - 1]
            BY <1>2, <3>1
        <3> QED
            BY <1>4, <1>8, <1>9, <2>2, <3>2
    <2>3. j <= i \/ j > i
        BY <1>4
    <2> QED
        BY <1>4, <2>1, <2>2, <2>3
<1> QED
    BY <1>7, <1>8, <1>9, <1>10 DEF Inserts

\* t is s without its element at position i.
Drops(s, i, t, S) ==
    /\ t \in Seq(S)
    /\ Len(t) = Len(s) - 1
    /\ \A j \in 1 .. Len(s) - 1 :
         /\ j < i => t[j] = s[j]
         /\ j >= i => t[j] = s[j + 1]

LEMMA RemovedAt ==
    ASSUME NEW S, NEW s \in Seq(S), NEW i \in 1 .. Len(s)
    PROVE  Drops(s, i, RemoveAt(s, i), S)
<1> DEFINE a == SubSeq(s, 1, i - 1)
           b == SubSeq(s, i + 1, Len(s))
<1>1. /\ a \in Seq(S) /\ Len(a) = i - 1
      /\ \A j \in 1 .. i - 1 : a[j] = s[j]
    OBVIOUS
<1>2. /\ b \in Seq(S) /\ Len(b) = Len(s) - i
      /\ \A j \in 1 .. Len(s) - i : b[j] = s[i + j]
    OBVIOUS
<1>3. RemoveAt(s, i) = a \o b
    BY DEF RemoveAt
<1> HIDE DEF a, b
<1>4. Len(s) \in Nat /\ i \in Nat /\ i >= 1
    OBVIOUS
<1>5. /\ a \o b \in Seq(S)
      /\ Len(a \o b) = Len(s) - 1
      /\ \A j \in 1 .. Len(s) - 1 :
            (a \o b)[j] = IF j <= i - 1 THEN a[j] ELSE b[j - (i - 1)]
    BY <1>1, <1>2, <1>4
<1>6. ASSUME NEW j \in 1 .. Len(s) - 1
      PROVE  /\ j < i => (a \o b)[j] = s[j]
             /\ j >= i => (a \o b)[j] = s[j + 1]
    <2>1. CASE j < i
        BY <1>1, <1>4, <1>5, <2>1
    <2>2. CASE j >= i
        <3>1. j - (i - 1) \in 1 .. Len(s) - i /\ i + (j - (i - 1)) = j + 1
            BY <1>4, <2>2
        <3>2. b[j - (i - 1)] = s[j + 1]
            BY <1>2, <3>1
        <3> QED
            BY <1>4, <1>5, <2>2, <3>2
    <2> QED
        BY <1>4, <2>1, <2>2
<1> QED
    BY <1>3, <1>5, <1>6 DEF Drops

LEMMA LeastNumber ==
    ASSUME NEW T, T \subseteq Nat, T # {}
    PROVE  \E m \in T : \A n \in T : m <= n
<1> DEFINE R == OpToRel(<, Nat)
<1>1. \A m, n \in Nat : m < n => <<m, n>> \in R
    BY DEF OpToRel
<1>2. IsWellFoundedOn(R, Nat)
    BY NatLessThanWellFounded
<1> HIDE DEF R
<1>3. PICK m \in T : \A n \in T : ~ (<<n, m>> \in R)
    BY <1>2, WFMin
<1>4. ASSUME NEW n \in T PROVE m <= n
    <2>1. m \in Nat /\ n \in Nat /\ ~(n < m)
        BY <1>1, <1>3
    <2> QED
        BY <2>1
<1> QED
    BY <1>4

\* The first entry not below k is where the comments say.
LEMMA LowerBoundIs ==
    ASSUME NEW s, Len(s) \in Nat, \A i \in 1 .. Len(s) : s[i].key \in Nat,
           NEW from \in 1 .. Len(s) + 1, NEW k \in Nat
    PROVE  LET i == LowerBound(s, k, from) IN
           /\ i \in from .. Len(s) + 1
           /\ i <= Len(s) => s[i].key >= k
           /\ \A j \in from .. i - 1 : s[j].key < k
<1> DEFINE T == {i \in from .. Len(s) + 1 : i <= Len(s) => s[i].key >= k}
<1>1. T \subseteq Nat /\ Len(s) + 1 \in T
    OBVIOUS
<1>2. PICK i \in T : \A n \in T : i <= n
    BY <1>1, LeastNumber
<1>3. /\ i \in from .. Len(s) + 1
      /\ i <= Len(s) => s[i].key >= k
      /\ \A j \in from .. i - 1 : s[j].key < k
    <2>1. i \in from .. Len(s) + 1 /\ (i <= Len(s) => s[i].key >= k)
        OBVIOUS
    <2>2. ASSUME NEW j \in from .. i - 1 PROVE s[j].key < k
        <3>1. j \in from .. Len(s) + 1 /\ j \in 1 .. Len(s) /\ ~(i <= j)
            BY <2>1
        <3>2. j \notin T
            BY <1>2, <3>1
        <3>3. ~(s[j].key >= k)
            BY <3>1, <3>2
        <3> QED
            BY <3>1, <3>3
    <2> QED
        BY <2>1, <2>2
<1> QED
    BY <1>3 DEF LowerBound

-----------------------------------------------------------------------------
(* The pairs of a leaf                                                     *)

PairOf(k, r) == [key |-> k, rid |-> r]
PairsIn(s) == {s[i] : i \in 1 .. Len(s)}
Ascending(s) ==
    \A i, j \in 1 .. Len(s) : i < j => s[i].key < s[j].key

\* What lookup finds in a leaf.
InLeaf(s, k) ==
    LET i == LowerBound(s, k, 1)
    IN  IF i <= Len(s) /\ s[i].key = k THEN s[i].rid ELSE NoRid

LEMMA LeafBasics ==
    ASSUME NEW s \in Seq(Pair)
    PROVE  /\ Len(s) \in Nat
           /\ \A i \in 1 .. Len(s) :
                /\ s[i] \in Pair
                /\ s[i].key \in Keys /\ s[i].key \in Nat
                /\ s[i].rid \in Rids
                /\ s[i] = PairOf(s[i].key, s[i].rid)
           /\ PairsIn(s) \subseteq Pair
           /\ PairsIn(s) = {} <=> s = <<>>
<1>1. Len(s) \in Nat /\ \A i \in 1 .. Len(s) : s[i] \in Pair
    OBVIOUS
<1>2. \A e \in Pair : /\ e.key \in Keys /\ e.key \in Nat /\ e.rid \in Rids
                      /\ e = PairOf(e.key, e.rid)
    <2>1. \A e \in Pair : e.key \in Keys /\ e.rid \in Rids
                          /\ e = PairOf(e.key, e.rid)
        BY DEF Pair, PairOf
    <2> QED
        BY <2>1
<1>3. s # <<>> => Len(s) >= 1
    BY <1>1
<1>4. Len(<<>>) = 0
    OBVIOUS
<1> QED
    BY <1>1, <1>2, <1>3, <1>4 DEF PairsIn

LEMMA FoundInLeaf ==
    ASSUME NEW s \in Seq(Pair), Ascending(s), NEW k \in Keys
    PROVE  /\ \A r \in Rids : PairOf(k, r) \in PairsIn(s) => InLeaf(s, k) = r
           /\ InLeaf(s, k) # NoRid =>
                InLeaf(s, k) \in Rids /\ PairOf(k, InLeaf(s, k)) \in PairsIn(s)
<1> DEFINE n == LowerBound(s, k, 1)
<1>1. /\ Len(s) \in Nat
      /\ \A i \in 1 .. Len(s) : /\ s[i].key \in Nat /\ s[i].rid \in Rids
                                /\ s[i] = PairOf(s[i].key, s[i].rid)
    BY LeafBasics
<1>2. k \in Nat
    OBVIOUS
<1>3. /\ n \in 1 .. Len(s) + 1
      /\ n <= Len(s) => s[n].key >= k
      /\ \A j \in 1 .. n - 1 : s[j].key < k
    <2>1. 1 \in 1 .. Len(s) + 1
        BY <1>1
    <2> QED
        BY <1>1, <1>2, <2>1, LowerBoundIs
<1>4. InLeaf(s, k) = IF n <= Len(s) /\ s[n].key = k THEN s[n].rid ELSE NoRid
    BY DEF InLeaf
<1> HIDE DEF n
<1>5. ASSUME NEW r \in Rids, PairOf(k, r) \in PairsIn(s) PROVE InLeaf(s, k) = r
    <2>1. PICK i \in 1 .. Len(s) : s[i] = PairOf(k, r)
        BY <1>5 DEF PairsIn
    <2>2. s[i].key = k /\ s[i].rid = r
        BY <2>1 DEF PairOf
    <2>3. ~(i < n)
        BY <1>2, <1>3, <2>2
    <2>4. n \in 1 .. Len(s) /\ s[n].key >= k
        BY <1>1, <1>3, <2>3
    <2>5. ~(n < i)
        BY <1>1, <1>2, <2>2, <2>4 DEF Ascending
    <2>6. n = i
        BY <1>1, <1>3, <2>3, <2>5
    <2> QED
        BY <1>4, <2>2, <2>4, <2>6
<1>6. ASSUME InLeaf(s, k) # NoRid
      PROVE  InLeaf(s, k) \in Rids /\ PairOf(k, InLeaf(s, k)) \in PairsIn(s)
    <2>1. n \in 1 .. Len(s) /\ s[n].key = k /\ InLeaf(s, k) = s[n].rid
        BY <1>1, <1>3, <1>4, <1>6
    <2> QED
        BY <1>1, <2>1 DEF PairsIn
<1> QED
    BY <1>5, <1>6

\* A pair is put where its key belongs.
LEMMA PutInLeaf ==
    ASSUME NEW s \in Seq(Pair), Ascending(s), NEW k \in Keys, NEW r \in Rids,
           \A e \in PairsIn(s) : e.key # k
    PROVE  /\ Put(s, k, r) \in Seq(Pair)
           /\ Ascending(Put(s, k, r))
           /\ Len(Put(s, k, r)) = Len(s) + 1
           /\ PairsIn(Put(s, k, r)) = PairsIn(s) \cup {PairOf(k, r)}
<1> DEFINE n == LowerBound(s, k, 1)
           t == Put(s, k, r)
           e == PairOf(k, r)
<1>1. /\ Len(s) \in Nat
      /\ \A i \in 1 .. Len(s) : s[i].key \in Nat /\ s[i] \in PairsIn(s)
    BY LeafBasics DEF PairsIn
<1>2. k \in Nat /\ 1 \in 1 .. Len(s) + 1
    BY <1>1
<1>3. /\ n \in 1 .. Len(s) + 1
      /\ n <= Len(s) => s[n].key >= k
      /\ \A j \in 1 .. n - 1 : s[j].key < k
    BY <1>1, <1>2, LowerBoundIs
<1>4. e \in Pair /\ e.key = k
    BY DEF Pair, PairOf
<1>5. t = InsertAt(s, n, e)
    BY DEF Put, PairOf
<1> HIDE DEF n, t, e
<1>6. /\ t \in Seq(Pair)
      /\ Len(t) = Len(s) + 1
      /\ \A j \in 1 .. Len(s) + 1 :
           /\ j < n => t[j] = s[j]
           /\ j = n => t[j] = e
           /\ j > n => t[j] = s[j - 1]
    <2>1. Inserts(s, n, e, t, Pair)
        BY <1>3, <1>4, <1>5, InsertedAt
    <2> QED
        BY <2>1 DEF Inserts
<1>7. ASSUME NEW j \in n .. Len(s) PROVE j \in 1 .. Len(s) /\ s[j].key > k
    <2>1. n \in 1 .. Len(s) /\ j \in 1 .. Len(s) /\ (n = j \/ n < j)
        BY <1>1, <1>3
    <2>2. s[n].key > k
        BY <1>1, <1>2, <1>3, <2>1
    <2>3. n < j => s[n].key < s[j].key
        BY <2>1 DEF Ascending
    <2> QED
        BY <1>1, <1>2, <2>1, <2>2, <2>3
<1>8. ASSUME NEW i \in 1 .. Len(t), NEW j \in 1 .. Len(t), i < j
      PROVE  t[i].key < t[j].key
    <2>1. CASE j < n
        BY <1>1, <1>3, <1>6, <1>8, <2>1 DEF Ascending
    <2>2. CASE j = n
        BY <1>1, <1>3, <1>4, <1>6, <1>8, <2>2
    <2>3. CASE i < n /\ j > n
        <3>1. j - 1 \in 1 .. Len(s) /\ i \in 1 .. Len(s) /\ i < j - 1
            BY <1>1, <1>3, <1>6, <2>3
        <3> QED
            BY <1>6, <2>3, <3>1 DEF Ascending
    <2>4. CASE i = n
        <3>1. j - 1 \in n .. Len(s) /\ t[j] = s[j - 1]
            BY <1>1, <1>3, <1>6, <1>8, <2>4
        <3>2. s[j - 1].key > k /\ s[j - 1].key \in Nat
            BY <1>1, <1>7, <3>1
        <3> QED
            BY <1>2, <1>4, <1>6, <2>4, <3>1, <3>2
    <2>5. CASE i > n
        <3>1. j - 1 \in 1 .. Len(s) /\ i - 1 \in 1 .. Len(s) /\ i - 1 < j - 1 /\ j > n
            BY <1>1, <1>3, <1>6, <1>8, <2>5
        <3> QED
            BY <1>6, <2>5, <3>1 DEF Ascending
    <2>6. i < n \/ i = n \/ i > n
        BY <1>3
    <2>7. j < n \/ j = n \/ j > n
        BY <1>3
    <2> QED
        BY <2>1, <2>2, <2>3, <2>4, <2>5, <2>6, <2>7
<1>9. PairsIn(t) \subseteq PairsIn(s) \cup {e}
    <2> SUFFICES ASSUME NEW j \in 1 .. Len(s) + 1
                 PROVE  t[j] \in PairsIn(s) \cup {e}
        BY <1>6 DEF PairsIn
    <2>1. CASE j < n
        BY <1>1, <1>3, <1>6, <2>1
    <2>2. CASE j = n
        BY <1>6, <2>2
    <2>3. CASE j > n
        <3>1. j - 1 \in 1 .. Len(s)
            BY <1>1, <1>3, <2>3
        <3> QED
            BY <1>1, <1>6, <2>3, <3>1
    <2> QED
        BY <1>3, <2>1, <2>2, <2>3
<1>10. PairsIn(s) \cup {e} \subseteq PairsIn(t)
    <2>1. e \in PairsIn(t)
        BY <1>3, <1>6 DEF PairsIn
    <2>2. ASSUME NEW j \in 1 .. Len(s) PROVE s[j] \in PairsIn(t)
        <3>1. CASE j < n
            <4>1. j \in 1 .. Len(t) /\ t[j] = s[j]
                BY <1>1, <1>6, <3>1
            <4> QED
                BY <4>1 DEF PairsIn
        <3>2. CASE j >= n
            <4>1. j + 1 \in 1 .. Len(t) /\ j + 1 > n /\ j + 1 - 1 = j
                BY <1>1, <1>3, <1>6, <3>2
            <4>2. t[j + 1] = s[j]
                BY <1>6, <4>1
            <4> QED
                BY <4>1, <4>2 DEF PairsIn
        <3> QED
            BY <1>3, <3>1, <3>2
    <2> QED
        BY <2>1, <2>2 DEF PairsIn
<1>11. PairsIn(t) = PairsIn(s) \cup {e}
    BY <1>9, <1>10
<1>12. Ascending(t)
    BY <1>8 DEF Ascending
<1> QED
    BY <1>6, <1>11, <1>12 DEF t, e

\* The pair of a key is taken out, and no other.
LEMMA TakenFromLeaf ==
    ASSUME NEW s \in Seq(Pair), Ascending(s), NEW k \in Keys,
           NEW e \in PairsIn(s), e.key = k
    PROVE  LET t == RemoveAt(s, LowerBound(s, k, 1)) IN
           /\ t \in Seq(Pair)
           /\ Ascending(t)
           /\ Len(t) = Len(s) - 1
           /\ PairsIn(t) = {x \in PairsIn(s) : x.key # k}
<1> DEFINE n == LowerBound(s, k, 1)
           t == RemoveAt(s, n)
<1>1. /\ Len(s) \in Nat
      /\ \A i \in 1 .. Len(s) : s[i].key \in Nat /\ s[i] \in PairsIn(s)
    BY LeafBasics DEF PairsIn
<1>2. k \in Nat /\ 1 \in 1 .. Len(s) + 1
    BY <1>1
<1>3. /\ n \in 1 .. Len(s) + 1
      /\ n <= Len(s) => s[n].key >= k
      /\ \A j \in 1 .. n - 1 : s[j].key < k
    BY <1>1, <1>2, LowerBoundIs
<1> HIDE DEF n
<1>4. PICK m \in 1 .. Len(s) : s[m].key = k
    BY DEF PairsIn
<1>5. m = n
    <2>1. ~(m < n)
        BY <1>2, <1>3, <1>4
    <2>2. n \in 1 .. Len(s) /\ s[n].key >= k
        BY <1>1, <1>3, <2>1
    <2>3. ~(n < m)
        BY <1>1, <1>2, <1>4, <2>2 DEF Ascending
    <2> QED
        BY <1>3, <2>1, <2>3
<1>6. n \in 1 .. Len(s) /\ s[n].key = k
    BY <1>4, <1>5
<1>7. /\ t \in Seq(Pair)
      /\ Len(t) = Len(s) - 1
      /\ \A j \in 1 .. Len(s) - 1 :
           /\ j < n => t[j] = s[j]
           /\ j >= n => t[j] = s[j + 1]
    BY <1>6, RemovedAt DEF Drops
<1> HIDE DEF t
<1>8. \A j \in 1 .. Len(s) : s[j].key = k => j = n
    <2> SUFFICES ASSUME NEW j \in 1 .. Len(s), s[j].key = k, j # n PROVE FALSE
        OBVIOUS
    <2>1. j < n \/ n < j
        BY <1>6
    <2> QED
        BY <1>2, <1>6, <2>1 DEF Ascending
<1> DEFINE At(j) == IF j < n THEN j ELSE j + 1
<1>9. ASSUME NEW j \in 1 .. Len(t)
      PROVE  At(j) \in 1 .. Len(s) /\ At(j) # n /\ t[j] = s[At(j)]
    BY <1>1, <1>6, <1>7
<1>10. \A i, j \in 1 .. Len(t) : i < j => At(i) < At(j)
    BY <1>1, <1>6, <1>7
<1> HIDE DEF At
<1>11. Ascending(t)
    BY <1>9, <1>10 DEF Ascending
<1>12. PairsIn(t) \subseteq {x \in PairsIn(s) : x.key # k}
    BY <1>1, <1>8, <1>9 DEF PairsIn
<1>13. ASSUME NEW x \in PairsIn(s), x.key # k PROVE x \in PairsIn(t)
    <2>1. PICK j \in 1 .. Len(s) : x = s[j]
        BY DEF PairsIn
    <2>2. j # n
        BY <1>6, <1>13, <2>1
    <2>3. CASE j < n
        <3>1. j \in 1 .. Len(t) /\ t[j] = s[j]
            BY <1>1, <1>6, <1>7, <2>3
        <3> QED
            BY <2>1, <3>1 DEF PairsIn
    <2>4. CASE j > n
        <3>1. j - 1 \in 1 .. Len(t) /\ j - 1 >= n /\ j - 1 + 1 = j
            BY <1>1, <1>6, <1>7, <2>4
        <3>2. t[j - 1] = s[j]
            BY <1>7, <3>1
        <3> QED
            BY <2>1, <3>1, <3>2 DEF PairsIn
    <2> QED
        BY <1>6, <2>2, <2>3, <2>4
<1>14. PairsIn(t) = {x \in PairsIn(s) : x.key # k}
    BY <1>12, <1>13
<1> QED
    BY <1>7, <1>11, <1>14 DEF t, n

\* The halves of a leaf that is split: all keys of the lower are smaller.
LEMMA Halves ==
    ASSUME NEW s \in Seq(Pair), Ascending(s), Len(s) >= 2
    PROVE  /\ Low(s) \in Seq(Pair) /\ High(s) \in Seq(Pair)
           /\ Ascending(Low(s)) /\ Ascending(High(s))
           /\ Len(Low(s)) >= 1 /\ Len(High(s)) >= 1
           /\ Len(Low(s)) < Len(s) /\ Len(High(s)) < Len(s)
           /\ PairsIn(s) = PairsIn(Low(s)) \cup PairsIn(High(s))
           /\ \A x \in PairsIn(Low(s)), y \in PairsIn(High(s)) : x.key < y.key
<1> DEFINE h == Len(s) \div 2
           n == Len(s)
           a == Low(s)
           b == High(s)
<1>1. n \in Nat /\ h \in Nat /\ 1 <= h /\ h < n /\ n - h < n
    BY LeafBasics
<1>2. a = SubSeq(s, 1, h) /\ b = SubSeq(s, h + 1, n)
    BY DEF Low, High
<1> HIDE DEF h, a, b
<1>3. /\ a \in Seq(Pair) /\ Len(a) = h
      /\ \A i \in 1 .. h : a[i] = s[i]
    BY <1>1, <1>2
<1>4. /\ b \in Seq(Pair) /\ Len(b) = n - h
      /\ \A i \in 1 .. n - h : b[i] = s[h + i]
    BY <1>1, <1>2
<1> HIDE DEF n
<1>5. \A i, j \in 1 .. n : i < j => s[i].key < s[j].key
    BY DEF Ascending, n
<1>6. Ascending(a)
    BY <1>1, <1>3, <1>5 DEF Ascending
<1>7. Ascending(b)
    <2> SUFFICES ASSUME NEW i \in 1 .. n - h, NEW j \in 1 .. n - h, i < j
                 PROVE  b[i].key < b[j].key
        BY <1>4 DEF Ascending
    <2>1. h + i \in 1 .. n /\ h + j \in 1 .. n /\ h + i < h + j
        BY <1>1
    <2> QED
        BY <1>4, <1>5, <2>1
<1>8. ASSUME NEW x \in PairsIn(a), NEW y \in PairsIn(b) PROVE x.key < y.key
    <2>1. PICK i \in 1 .. h : x = s[i]
        BY <1>3 DEF PairsIn
    <2>2. PICK j \in 1 .. n - h : y = s[h + j]
        BY <1>4 DEF PairsIn
    <2>3. i \in 1 .. n /\ h + j \in 1 .. n /\ i < h + j
        BY <1>1
    <2> QED
        BY <1>5, <2>1, <2>2, <2>3
<1>9. PairsIn(s) = PairsIn(a) \cup PairsIn(b)
    <2>1. ASSUME NEW i \in 1 .. n PROVE s[i] \in PairsIn(a) \cup PairsIn(b)
        <3>1. CASE i <= h
            <4>1. i \in 1 .. h
                BY <1>1, <3>1
            <4> QED
                BY <1>3, <4>1 DEF PairsIn
        <3>2. CASE i > h
            <4>1. i - h \in 1 .. n - h /\ h + (i - h) = i
                BY <1>1, <3>2
            <4> QED
                BY <1>4, <4>1 DEF PairsIn
        <3> QED
            BY <1>1, <3>1, <3>2
    <2>2. ASSUME NEW i \in 1 .. h PROVE a[i] \in PairsIn(s)
        <3>1. i \in 1 .. n
            BY <1>1
        <3> QED
            BY <1>3, <3>1 DEF PairsIn, n
    <2>3. ASSUME NEW i \in 1 .. n - h PROVE b[i] \in PairsIn(s)
        <3>1. h + i \in 1 .. n
            BY <1>1
        <3> QED
            BY <1>4, <3>1 DEF PairsIn, n
    <2>4. PairsIn(s) \subseteq PairsIn(a) \cup PairsIn(b)
        BY <2>1 DEF PairsIn, n
    <2>5. PairsIn(a) \subseteq PairsIn(s) /\ PairsIn(b) \subseteq PairsIn(s)
        BY <1>3, <1>4, <2>2, <2>3 DEF PairsIn
    <2> QED
        BY <2>4, <2>5
<1> QED
    BY <1>1, <1>3, <1>4, <1>6, <1>7, <1>8, <1>9 DEF a, b, n

-----------------------------------------------------------------------------
(* The inductive invariant                                                 *)

LeafPage == [entries : Seq(Pair), prev : Pages \cup {InvalidPage},
             next : Pages \cup {InvalidPage}]
InnerEntry == [key : Keys \cup {InvalidKey}, child : Pages]

\* Of a tree with the entries "in" of its root, the root page rt and the leaf
\* contents lf: the leaves a descent can end at, and the pairs in them.
Reached(in, rt) ==
    IF in = <<>> THEN {rt} ELSE {in[i].child : i \in 2 .. Len(in)}
Stored(in, rt, lf) == UNION {PairsIn(lf[p].entries) : p \in Reached(in, rt)}

\* The pair e may be below entry i of the root.
Bounds(in, i, e) ==
    /\ i > 2 => in[i - 1].key < e.key
    /\ i < Len(in) => e.key <= in[i].key

\* The separators ascend, each leaf has one parent entry, and its pairs are
\* within the bounds of that.
Fits(in, lf) ==
    in # <<>> =>
        /\ Len(in) >= 2
        /\ \A i, j \in 2 .. Len(in) :
              i < j => in[i].key < in[j].key /\ in[i].child # in[j].child
        /\ \A i \in 2 .. Len(in) :
              /\ lf[in[i].child].entries # <<>>
              /\ \A e \in PairsIn(lf[in[i].child].entries) : Bounds(in, i, e)

Tree(in, rt, lf) ==
    /\ in \in Seq(InnerEntry)
    /\ rt \in Pages
    /\ lf \in [Pages -> LeafPage]
    /\ \A p \in Pages : Ascending(lf[p].entries)
    /\ Fits(in, lf)

\* A page that was not allocated yet is in no tree: a split takes a page for
\* the upper half that nobody uses.
BInv ==
    /\ TypeOK
    /\ Tree(inner, root, leaf)
    /\ \A p \in Reached(inner, root) : p < pageCount

-----------------------------------------------------------------------------
(* Descents                                                                *)

ChildIn(in, k) ==
    LET i == LowerBound(in, k, 2) IN IF i > Len(in) THEN Len(in) ELSE i
LeafIn(in, rt, k) == IF in = <<>> THEN rt ELSE in[ChildIn(in, k)].child
LookupIn(in, rt, lf, k) == InLeaf(lf[LeafIn(in, rt, k)].entries, k)

LEMMA TreeBasics ==
    ASSUME NEW in, NEW rt, NEW lf, Tree(in, rt, lf)
    PROVE  /\ Len(in) \in Nat
           /\ \A i \in 1 .. Len(in) :
                /\ in[i] \in InnerEntry
                /\ in[i].key \in Keys \cup {InvalidKey} /\ in[i].key \in Nat
                /\ in[i].child \in Pages
           /\ Reached(in, rt) \subseteq Pages
           /\ \A p \in Pages : /\ lf[p].entries \in Seq(Pair)
                               /\ Ascending(lf[p].entries)
           /\ in # <<>> => Len(in) >= 2
<1>1. Len(in) \in Nat /\ \A i \in 1 .. Len(in) : in[i] \in InnerEntry
    BY DEF Tree
<1>2. \A e \in InnerEntry :
        /\ e.key \in Keys \cup {InvalidKey} /\ e.key \in Nat
        /\ e.child \in Pages
    <2>1. \A e \in InnerEntry : /\ e.key \in Keys \cup {InvalidKey}
                                /\ e.child \in Pages
        BY DEF InnerEntry
    <2>2. Keys \cup {InvalidKey} \subseteq Nat
        BY DEF InvalidKey
    <2> QED
        BY <2>1, <2>2
<1>3. rt \in Pages
    BY DEF Tree
<1>4. \A i \in 2 .. Len(in) : in[i].child \in Pages
    BY <1>1, <1>2
<1>5. \A p \in Pages : lf[p].entries \in Seq(Pair) /\ Ascending(lf[p].entries)
    <2>1. \A x \in LeafPage : x.entries \in Seq(Pair)
        BY DEF LeafPage
    <2> QED
        BY <2>1 DEF Tree
<1>6. in # <<>> => Len(in) >= 2
    BY DEF Tree, Fits
<1> QED
    BY <1>1, <1>2, <1>3, <1>4, <1>5, <1>6 DEF Reached

\* A descent ends below the only entry whose bounds the key is within.
LEMMA DescentEnds ==
    ASSUME NEW in, NEW rt, NEW lf, Tree(in, rt, lf), in # <<>>, NEW k \in Keys
    PROVE  /\ ChildIn(in, k) \in 2 .. Len(in)
           /\ ChildIn(in, k) > 2 => in[ChildIn(in, k) - 1].key < k
           /\ ChildIn(in, k) < Len(in) => k <= in[ChildIn(in, k)].key
           /\ \A j \in 2 .. Len(in), e \in Pair :
                e.key = k /\ Bounds(in, j, e) => j = ChildIn(in, k)
<1> DEFINE m == LowerBound(in, k, 2)
           i == ChildIn(in, k)
<1>1. /\ Len(in) \in Nat /\ Len(in) >= 2
      /\ \A j \in 1 .. Len(in) : in[j].key \in Nat
      /\ k \in Nat
    BY TreeBasics
<1>2. /\ m \in 2 .. Len(in) + 1
      /\ m <= Len(in) => in[m].key >= k
      /\ \A j \in 2 .. m - 1 : in[j].key < k
    <2>1. 2 \in 1 .. Len(in) + 1
        BY <1>1
    <2> QED
        BY <1>1, <2>1, LowerBoundIs
<1>3. i = IF m > Len(in) THEN Len(in) ELSE m
    BY DEF ChildIn
<1> HIDE DEF m, i
<1>4. i \in 2 .. Len(in) /\ i <= m
    BY <1>1, <1>2, <1>3
<1>5. i > 2 => in[i - 1].key < k
    BY <1>1, <1>2, <1>4
<1>6. i < Len(in) => k <= in[i].key
    BY <1>1, <1>2, <1>3, <1>4
<1>7. ASSUME NEW j \in 2 .. Len(in), NEW e \in Pair, e.key = k, Bounds(in, j, e)
      PROVE  j = i
    <2>1. \A x, y \in 2 .. Len(in) : x < y => in[x].key < in[y].key
        BY DEF Tree, Fits
    <2>2. ASSUME j < i PROVE FALSE
        <3>1. j < Len(in) /\ j \in 2 .. m - 1
            BY <1>1, <1>2, <1>4, <2>2
        <3>2. k <= in[j].key
            BY <1>7, <3>1 DEF Bounds
        <3>3. in[j].key < k /\ in[j].key \in Nat
            BY <1>1, <1>2, <3>1
        <3> QED
            BY <1>1, <3>2, <3>3
    <2>3. ASSUME i < j PROVE FALSE
        <3>1. j > 2 /\ j - 1 \in 2 .. Len(in) /\ (i = j - 1 \/ i < j - 1)
              /\ i < Len(in)
            BY <1>1, <1>4, <2>3
        <3>2. in[j - 1].key < k
            BY <1>7, <3>1 DEF Bounds
        <3>3. k <= in[i].key
            BY <1>6, <3>1
        <3>4. in[i].key <= in[j - 1].key
            BY <1>1, <1>4, <2>1, <3>1
        <3>5. in[i].key \in Nat /\ in[j - 1].key \in Nat
            BY <1>1, <1>4, <3>1
        <3> QED
            BY <1>1, <3>2, <3>3, <3>4, <3>5
    <2> QED
        BY <1>4, <2>2, <2>3
<1> QED
    BY <1>4, <1>5, <1>6, <1>7 DEF i

\* Lookup finds a pair if it is in a leaf that is reached, and nothing else.
LEMMA LookupFinds ==
    ASSUME NEW in, NEW rt, NEW lf, Tree(in, rt, lf), NEW k \in Keys
    PROVE  /\ LeafIn(in, rt, k) \in Reached(in, rt)
           /\ \A e \in Stored(in, rt, lf) :
                e.key = k => e \in PairsIn(lf[LeafIn(in, rt, k)].entries)
           /\ \A r \in Rids : PairOf(k, r) \in Stored(in, rt, lf) =>
                                LookupIn(in, rt, lf, k) = r
           /\ LookupIn(in, rt, lf, k) # NoRid =>
                /\ LookupIn(in, rt, lf, k) \in Rids
                /\ PairOf(k, LookupIn(in, rt, lf, k)) \in Stored(in, rt, lf)
<1> DEFINE p == LeafIn(in, rt, k)
           s == lf[p].entries
<1>1. p \in Reached(in, rt)
    BY DescentEnds DEF LeafIn, Reached
<1>2. s \in Seq(Pair) /\ Ascending(s) /\ PairsIn(s) \subseteq Stored(in, rt, lf)
    BY <1>1, TreeBasics DEF Stored
<1>3. ASSUME NEW e \in Stored(in, rt, lf), e.key = k PROVE e \in PairsIn(s)
    <2>1. PICK q \in Reached(in, rt) : e \in PairsIn(lf[q].entries)
        BY DEF Stored
    <2>2. CASE in = <<>>
        BY <2>1, <2>2 DEF Reached, LeafIn
    <2>3. CASE in # <<>>
        <3>1. PICK j \in 2 .. Len(in) : q = in[j].child
            BY <2>1, <2>3 DEF Reached
        <3>2. e \in Pair
            <4>1. lf[q].entries \in Seq(Pair)
                BY <2>1, TreeBasics
            <4> QED
                BY <2>1, <4>1, LeafBasics
        <3>3. Bounds(in, j, e)
            BY <2>1, <2>3, <3>1 DEF Tree, Fits
        <3>4. j = ChildIn(in, k)
            BY <1>3, <2>3, <3>2, <3>3, DescentEnds
        <3> QED
            BY <2>1, <2>3, <3>1, <3>4 DEF LeafIn
    <2> QED
        BY <2>2, <2>3
<1>4. LookupIn(in, rt, lf, k) = InLeaf(s, k)
    BY DEF LookupIn
<1> HIDE DEF p, s
<1>5. ASSUME NEW r \in Rids, PairOf(k, r) \in Stored(in, rt, lf)
      PROVE  InLeaf(s, k) = r
    <2>1. PairOf(k, r).key = k
        BY DEF PairOf
    <2> QED
        BY <1>2, <1>3, <1>5, <2>1, FoundInLeaf
<1>6. InLeaf(s, k) # NoRid =>
        InLeaf(s, k) \in Rids /\ PairOf(k, InLeaf(s, k)) \in Stored(in, rt, lf)
    BY <1>2, FoundInLeaf
<1> QED
    BY <1>1, <1>3, <1>4, <1>5, <1>6 DEF p, s

-----------------------------------------------------------------------------
(* Changes of a tree                                                       *)

\* The content of one leaf changes within the bounds of the leaf, and those of
\* leaves that are not reached.
LEMMA LeafReplaced ==
    ASSUME NEW in, NEW rt, NEW lf, Tree(in, rt, lf),
           NEW lf2 \in [Pages -> LeafPage],
           \A x \in Pages : Ascending(lf2[x].entries),
           NEW p,
           \A x \in Reached(in, rt) \ {p} : lf2[x].entries = lf[x].entries,
           \A i \in 2 .. Len(in) : in[i].child = p =>
                /\ lf2[p].entries # <<>>
                /\ \A e \in PairsIn(lf2[p].entries) : Bounds(in, i, e)
    PROVE  Tree(in, rt, lf2)
<1>1. ASSUME in # <<>>, NEW i \in 2 .. Len(in)
      PROVE  /\ lf2[in[i].child].entries # <<>>
             /\ \A e \in PairsIn(lf2[in[i].child].entries) : Bounds(in, i, e)
    <2>1. CASE in[i].child = p
        BY <2>1
    <2>2. CASE in[i].child # p
        <3>1. in[i].child \in Reached(in, rt) \ {p}
            BY <1>1, <2>2 DEF Reached
        <3> QED
            BY <1>1, <3>1 DEF Tree, Fits
    <2> QED
        BY <2>1, <2>2
<1>2. Fits(in, lf2)
    BY <1>1 DEF Tree, Fits
<1> QED
    BY <1>2 DEF Tree

\* in2 is in with the key a in entry i.
WithKey(in, i, a) == [in EXCEPT ![i].key = a]
Lowers(in, i, a, in2) ==
    /\ Len(in2) = Len(in)
    /\ \A j \in 1 .. Len(in) :
         /\ in2[j].child = in[j].child
         /\ j = i => in2[j].key = a
         /\ j # i => in2[j].key = in[j].key

\* No pair of the leaf of entry i is above a, and the order stays.
MayLower(in, i, a, lf) ==
    /\ i > 2 => in[i - 1].key < a
    /\ i < Len(in) => a <= in[i].key
    /\ \A e \in PairsIn(lf[in[i].child].entries) : e.key <= a

\* Entry i gets the key a.
LEMMA SeparatorLowered ==
    ASSUME NEW in, NEW rt, NEW lf, Tree(in, rt, lf), in # <<>>,
           NEW i \in 2 .. Len(in), NEW a \in Keys,
           MayLower(in, i, a, lf),
           NEW in2, in2 = WithKey(in, i, a)
    PROVE  /\ Tree(in2, rt, lf)
           /\ Lowers(in, i, a, in2)
           /\ Reached(in2, rt) = Reached(in, rt)
<1>1. /\ Len(in) \in Nat /\ Len(in) >= 2 /\ in \in Seq(InnerEntry)
      /\ \A j \in 1 .. Len(in) : in[j] \in InnerEntry /\ in[j].key \in Nat
      /\ a \in Nat
      /\ i > 2 => in[i - 1].key < a
      /\ i < Len(in) => a <= in[i].key
      /\ \A e \in PairsIn(lf[in[i].child].entries) : e.key <= a
    BY TreeBasics DEF Tree, MayLower
<1>2. in2 = [in EXCEPT ![i].key = a]
    BY DEF WithKey
<1>3. in2 \in Seq(InnerEntry) /\ Len(in2) = Len(in)
    <2>1. [in[i] EXCEPT !.key = a] \in InnerEntry
        BY <1>1 DEF InnerEntry
    <2>2. in2 = [in EXCEPT ![i] = [in[i] EXCEPT !.key = a]]
        BY <1>2
    <2> QED
        BY <1>1, <2>1, <2>2
<1>4. \A j \in 1 .. Len(in) : /\ in2[j].child = in[j].child
                              /\ in2[j].key = IF j = i THEN a ELSE in[j].key
    <2> SUFFICES ASSUME NEW j \in 1 .. Len(in)
                 PROVE  /\ in2[j].child = in[j].child
                        /\ in2[j].key = IF j = i THEN a ELSE in[j].key
        OBVIOUS
    <2>1. in[j] \in [key : Keys \cup {InvalidKey}, child : Pages]
        BY <1>1 DEF InnerEntry
    <2>2. in2[j] = IF j = i THEN [in[j] EXCEPT !.key = a] ELSE in[j]
        BY <1>1, <1>2
    <2> QED
        BY <2>1, <2>2
<1>5. in2 # <<>>
    BY <1>1, <1>3
<1>6. Reached(in2, rt) = Reached(in, rt)
    <2>1. \A j \in 2 .. Len(in) : in2[j].child = in[j].child
        BY <1>4
    <2> QED
        BY <1>3, <1>5, <2>1 DEF Reached
<1>7. \A x, y \in 2 .. Len(in) :
        x < y => in[x].key < in[y].key /\ in[x].child # in[y].child
    BY DEF Tree, Fits
<1>8. ASSUME NEW x \in 2 .. Len(in), NEW y \in 2 .. Len(in), x < y
      PROVE  in2[x].key < in2[y].key /\ in2[x].child # in2[y].child
    <2>1. in2[x].child # in2[y].child
        BY <1>4, <1>7, <1>8
    <2>2. CASE x # i /\ y # i
        BY <1>4, <1>7, <1>8, <2>1, <2>2
    <2>3. CASE x = i
        BY <1>1, <1>4, <1>7, <1>8, <2>1, <2>3
    <2>4. CASE y = i
        <3>1. i > 2 /\ i - 1 \in 2 .. Len(in) /\ (x = i - 1 \/ x < i - 1)
            BY <1>1, <1>8, <2>4
        <3>2. in[x].key < a
            <4>1. in[i - 1].key < a /\ in[i - 1].key \in Nat /\ in[x].key \in Nat
                BY <1>1, <3>1
            <4>2. CASE x = i - 1
                BY <4>1, <4>2
            <4>3. CASE x < i - 1
                <5>1. in[x].key < in[i - 1].key
                    BY <1>7, <3>1, <4>3
                <5> QED
                    BY <1>1, <4>1, <5>1
            <4> QED
                BY <3>1, <4>2, <4>3
        <3> QED
            BY <1>4, <1>8, <2>1, <2>4, <3>2
    <2> QED
        BY <2>2, <2>3, <2>4
<1>9. ASSUME NEW j \in 2 .. Len(in), NEW e \in PairsIn(lf[in[j].child].entries)
      PROVE  Bounds(in2, j, e)
    <2>1. Bounds(in, j, e)
        BY DEF Tree, Fits
    <2>2. e.key \in Nat
        <3>1. lf[in[j].child].entries \in Seq(Pair)
            BY TreeBasics
        <3>2. e \in Pair
            BY <3>1, LeafBasics
        <3> QED
            BY <3>2 DEF Pair
    <2>3. ASSUME j > 2 PROVE in2[j - 1].key < e.key
        <3>1. j - 1 \in 1 .. Len(in) /\ in[j - 1].key < e.key
              /\ in[j - 1].key \in Nat
            BY <1>1, <2>1, <2>3 DEF Bounds
        <3>2. j - 1 = i => a <= in[j - 1].key
            BY <1>1
        <3> QED
            BY <1>1, <1>4, <2>2, <3>1, <3>2
    <2>4. ASSUME j < Len(in) PROVE e.key <= in2[j].key
        <3>1. e.key <= in[j].key
            BY <2>1, <2>4 DEF Bounds
        <3> QED
            BY <1>1, <1>4, <3>1
    <2> QED
        BY <1>3, <2>3, <2>4 DEF Bounds
<1>10. Fits(in2, lf)
    <2>1. \A j \in 2 .. Len(in) : lf[in[j].child].entries # <<>>
        BY DEF Tree, Fits
    <2>2. \A j \in 2 .. Len(in) : in2[j].child = in[j].child
        BY <1>4
    <2> QED
        BY <1>1, <1>3, <1>8, <1>9, <2>1, <2>2 DEF Fits
<1>11. Tree(in2, rt, lf)
    BY <1>3, <1>10 DEF Tree
<1> QED
    BY <1>3, <1>4, <1>6, <1>11 DEF Lowers

\* A leaf q behind that of entry i gets an entry of its own, with the key b.
LEMMA EntryAdded ==
    ASSUME NEW in, NEW rt, NEW lf, Tree(in, rt, lf), in # <<>>,
           NEW i \in 2 .. Len(in), NEW b \in Keys, NEW q \in Pages,
           q \notin Reached(in, rt),
           lf[q].entries # <<>>,
           \A e \in PairsIn(lf[q].entries) : in[i].key < e.key /\ e.key <= b,
           \A e \in PairsIn(lf[in[i].child].entries) : e.key <= in[i].key,
           in[i].key < b,
           i < Len(in) =>
                /\ b < in[i + 1].key
                /\ \A e \in PairsIn(lf[in[i + 1].child].entries) : b < e.key
    PROVE  /\ Tree(WithEntry(in, i + 1, b, q), rt, lf)
           /\ Len(WithEntry(in, i + 1, b, q)) = Len(in) + 1
           /\ Reached(WithEntry(in, i + 1, b, q), rt) = Reached(in, rt) \cup {q}
<1> DEFINE in2 == WithEntry(in, i + 1, b, q)
           n == Len(in)
<1>1. /\ n \in Nat /\ n >= 2 /\ in \in Seq(InnerEntry)
      /\ \A j \in 1 .. n : /\ in[j] \in InnerEntry /\ in[j].key \in Nat
                           /\ in[j].child \in Pages
      /\ b \in Nat
    BY TreeBasics DEF Tree
<1>2. Entry(b, q) \in InnerEntry /\ Entry(b, q).key = b /\ Entry(b, q).child = q
    BY DEF Entry, InnerEntry
<1>3. /\ in2 \in Seq(InnerEntry)
      /\ Len(in2) = n + 1
      /\ \A j \in 1 .. n + 1 :
           /\ j < i + 1 => in2[j] = in[j]
           /\ j = i + 1 => in2[j] = Entry(b, q)
           /\ j > i + 1 => in2[j] = in[j - 1]
    <2> DEFINE m == i + 1
               x == Entry(b, q)
    <2>1. m \in 1 .. Len(in) + 1
        BY <1>1
    <2>2. in2 = InsertAt(in, m, x) /\ x \in InnerEntry
        BY <1>2 DEF WithEntry
    <2> HIDE DEF in2, m, x
    <2>3. in \in Seq(InnerEntry)
        BY <1>1
    <2>4. Inserts(in, m, x, in2, InnerEntry)
        BY <2>1, <2>2, <2>3, InsertedAt
    <2> QED
        BY <2>4 DEF m, x, Inserts
<1>4. in2 # <<>>
    BY <1>1, <1>3
<1> HIDE DEF in2, n
<1>5. \A x, y \in 2 .. n :
        x < y => in[x].key < in[y].key /\ in[x].child # in[y].child
    BY DEF Tree, Fits, n
<1>6. \A x \in 2 .. n : in[x].child # q
    BY DEF Reached, n
\* where the entries of in2 come from
<1>7. ASSUME NEW x \in 2 .. n + 1
      PROVE  \/ x \in 2 .. i /\ in2[x] = in[x]
             \/ x = i + 1 /\ in2[x].key = b /\ in2[x].child = q
             \/ x > i + 1 /\ x - 1 \in i + 1 .. n /\ x - 1 \in 2 .. n
                /\ in2[x] = in[x - 1]
    BY <1>1, <1>2, <1>3 DEF n
<1>8. i \in 2 .. n /\ \A x \in i + 1 .. n : b < in[x].key
    <2>1. i \in 2 .. n
        BY DEF n
    <2>2. ASSUME NEW x \in i + 1 .. n PROVE b < in[x].key
        <3>1. i < n /\ i + 1 \in 2 .. n /\ x \in 2 .. n /\ (x = i + 1 \/ i + 1 < x)
            BY <1>1
        <3>2. b < in[i + 1].key
            BY <3>1 DEF n
        <3> QED
            BY <1>1, <1>5, <3>1, <3>2
    <2> QED
        BY <2>1, <2>2
<1>9. \A x \in 2 .. i : in[x].key < b /\ in[x].key <= in[i].key
    <2> SUFFICES ASSUME NEW x \in 2 .. i
                 PROVE  in[x].key < b /\ in[x].key <= in[i].key
        OBVIOUS
    <2>1. x \in 2 .. n /\ (x = i \/ x < i)
        BY <1>1, <1>8
    <2>2. in[x].key <= in[i].key /\ in[i].key \in Nat /\ in[x].key \in Nat
        BY <1>1, <1>5, <1>8, <2>1
    <2> QED
        BY <1>1, <2>2
<1>10. ASSUME NEW x \in 2 .. n + 1, NEW y \in 2 .. n + 1, x < y
       PROVE  in2[x].key < in2[y].key /\ in2[x].child # in2[y].child
    <2>1. CASE x \in 2 .. i /\ in2[x] = in[x]
        <3>1. x \in 2 .. n
            BY <1>1, <1>8, <2>1
        <3>2. CASE y \in 2 .. i /\ in2[y] = in[y]
            <4>1. y \in 2 .. n
                BY <1>1, <1>8, <3>2
            <4> QED
                BY <1>5, <1>10, <2>1, <3>1, <3>2, <4>1
        <3>3. CASE y = i + 1 /\ in2[y].key = b /\ in2[y].child = q
            BY <1>6, <1>9, <2>1, <3>1, <3>3
        <3>4. CASE y > i + 1 /\ y - 1 \in 2 .. n /\ in2[y] = in[y - 1]
            <4>1. x < y - 1
                BY <1>8, <2>1, <3>4
            <4> QED
                BY <1>5, <2>1, <3>1, <3>4, <4>1
        <3> QED
            BY <1>7, <3>2, <3>3, <3>4
    <2>2. CASE x = i + 1 /\ in2[x].key = b /\ in2[x].child = q
        <3>1. y > i + 1 /\ y - 1 \in i + 1 .. n /\ y - 1 \in 2 .. n
              /\ in2[y] = in[y - 1]
            BY <1>7, <1>8, <1>10, <2>2
        <3> QED
            BY <1>6, <1>8, <2>2, <3>1
    <2>3. CASE x > i + 1 /\ x - 1 \in 2 .. n /\ in2[x] = in[x - 1]
        <3>1. y > i + 1
            BY <1>8, <1>10, <2>3
        <3>2. y - 1 \in 2 .. n /\ in2[y] = in[y - 1] /\ x - 1 < y - 1
            BY <1>1, <1>3, <1>8, <1>10, <3>1
        <3> QED
            BY <1>5, <2>3, <3>2
    <2> QED
        BY <1>7, <2>1, <2>2, <2>3
<1>11. ASSUME NEW x \in 2 .. n, NEW e \in PairsIn(lf[in[x].child].entries)
       PROVE  Bounds(in, x, e) /\ e.key \in Nat
    <2>1. Bounds(in, x, e)
        BY DEF Tree, Fits, n
    <2>2. lf[in[x].child].entries \in Seq(Pair)
        BY <1>1, TreeBasics DEF n
    <2>3. e \in Pair
        BY <2>2, LeafBasics
    <2> QED
        BY <2>1, <2>3 DEF Pair
<1>12. ASSUME NEW x \in 2 .. n + 1, NEW e \in PairsIn(lf[in2[x].child].entries)
       PROVE  (x > 2 => in2[x - 1].key < e.key) /\ (x < n + 1 => e.key <= in2[x].key)
    <2>1. CASE x \in 2 .. i /\ in2[x] = in[x]
        <3>1. x \in 2 .. n /\ Bounds(in, x, e)
            BY <1>1, <1>8, <1>11, <2>1
        <3>2. x > 2 => in2[x - 1].key < e.key
            <4>1. x > 2 => x - 1 \in 1 .. n + 1 /\ x - 1 < i + 1
                BY <1>1, <2>1, <3>1
            <4>2. x > 2 => in2[x - 1] = in[x - 1]
                BY <1>3, <4>1
            <4> QED
                BY <3>1, <4>2 DEF Bounds
        <3>3. e.key <= in2[x].key
            <4>1. CASE x = i
                BY <2>1, <4>1
            <4>2. CASE x # i
                <5>1. x < n
                    BY <1>1, <1>8, <2>1, <4>2
                <5> QED
                    BY <2>1, <3>1, <5>1 DEF Bounds, n
            <4> QED
                BY <4>1, <4>2
        <3> QED
            BY <3>2, <3>3
    <2>2. CASE x = i + 1 /\ in2[x].key = b /\ in2[x].child = q
        <3>1. x - 1 = i /\ in2[i] = in[i]
            BY <1>1, <1>3, <1>8, <2>2
        <3>2. in[i].key < e.key /\ e.key <= b
            BY <2>2
        <3> QED
            BY <2>2, <3>1, <3>2
    <2>3. CASE x > i + 1 /\ x - 1 \in i + 1 .. n /\ x - 1 \in 2 .. n
               /\ in2[x] = in[x - 1]
        <3>1. Bounds(in, x - 1, e) /\ e.key \in Nat
            BY <1>11, <2>3
        <3>2. x < n + 1 => e.key <= in2[x].key
            <4>1. x < n + 1 => x - 1 < n
                BY <1>1, <2>3
            <4> QED
                BY <2>3, <3>1, <4>1 DEF Bounds, n
        <3>3. in2[x - 1].key < e.key
            <4>1. CASE x = i + 2
                <5>1. x - 1 = i + 1 /\ i < n /\ in2[i + 1] = Entry(b, q)
                    BY <1>1, <1>3, <1>8, <2>3, <4>1
                <5>2. b < e.key
                    BY <2>3, <5>1 DEF n
                <5> QED
                    BY <1>2, <5>1, <5>2
            <4>2. CASE x # i + 2
                <5>1. x - 1 \in 1 .. n + 1 /\ x - 1 > i + 1 /\ x - 1 > 2
                      /\ x - 1 - 1 = x - 2
                    BY <1>1, <1>8, <2>3, <4>2
                <5>2. in2[x - 1] = in[x - 1 - 1]
                    BY <1>3, <5>1
                <5> QED
                    BY <3>1, <5>1, <5>2 DEF Bounds
            <4> QED
                BY <4>1, <4>2
        <3> QED
            BY <3>2, <3>3
    <2> QED
        BY <1>7, <2>1, <2>2, <2>3
<1>13. \A x \in 2 .. n + 1 : lf[in2[x].child].entries # <<>>
    <2>1. \A x \in 2 .. n : lf[in[x].child].entries # <<>>
        BY DEF Tree, Fits, n
    <2>2. \A x \in 2 .. i : x \in 2 .. n
        BY <1>1, <1>8
    <2> QED
        BY <1>7, <2>1, <2>2
<1>14. Fits(in2, lf)
    <2>1. Len(in2) >= 2
        BY <1>1, <1>3
    <2>2. \A x \in 2 .. n + 1 : \A e \in PairsIn(lf[in2[x].child].entries) :
             Bounds(in2, x, e)
        BY <1>3, <1>12 DEF Bounds
    <2> QED
        BY <1>3, <1>10, <1>13, <2>1, <2>2 DEF Fits
<1>15. Tree(in2, rt, lf)
    BY <1>3, <1>14 DEF Tree
<1>16. Reached(in2, rt) = Reached(in, rt) \cup {q}
    <2>1. Reached(in2, rt) = {in2[x].child : x \in 2 .. n + 1}
        BY <1>3, <1>4 DEF Reached
    <2>2. Reached(in, rt) = {in[x].child : x \in 2 .. n}
        BY DEF Reached, n
    <2>3. Reached(in2, rt) \subseteq Reached(in, rt) \cup {q}
        <3>1. ASSUME NEW x \in 2 .. n + 1
              PROVE  in2[x].child \in {in[y].child : y \in 2 .. n} \cup {q}
            <4>1. \A y \in 2 .. i : y \in 2 .. n
                BY <1>1, <1>8
            <4> QED
                BY <1>7, <4>1
        <3> QED
            BY <2>1, <2>2, <3>1
    <2>4. q \in Reached(in2, rt)
        <3>1. i + 1 \in 2 .. n + 1 /\ in2[i + 1].child = q
            BY <1>1, <1>2, <1>3, <1>8
        <3> QED
            BY <2>1, <3>1
    <2>5. ASSUME NEW x \in 2 .. n PROVE in[x].child \in Reached(in2, rt)
        <3>1. CASE x <= i
            <4>1. x \in 2 .. n + 1 /\ in2[x] = in[x]
                BY <1>1, <1>3, <1>8, <3>1
            <4> QED
                BY <2>1, <4>1
        <3>2. CASE x > i
            <4>1. x + 1 \in 2 .. n + 1 /\ x + 1 > i + 1 /\ x + 1 - 1 = x
                BY <1>1, <1>8, <3>2
            <4>2. x + 1 \in 1 .. n + 1
                BY <4>1
            <4>3. in2[x + 1] = in[x]
                BY <1>3, <4>1, <4>2
            <4> QED
                BY <2>1, <4>1, <4>3
        <3> QED
            BY <1>8, <3>1, <3>2
    <2> QED
        BY <2>2, <2>3, <2>4, <2>5
<1> QED
    BY <1>3, <1>15, <1>16 DEF in2, n

\* An entry is taken out of a root that keeps another.
LEMMA EntryDropped ==
    ASSUME NEW in, NEW rt, NEW lf, Tree(in, rt, lf), in # <<>>,
           NEW i \in 2 .. Len(in), Len(in) > 2
    PROVE  /\ Tree(RemoveAt(in, i), rt, lf)
           /\ Len(RemoveAt(in, i)) = Len(in) - 1
           /\ Reached(RemoveAt(in, i), rt) = Reached(in, rt) \ {in[i].child}
<1> DEFINE in2 == RemoveAt(in, i)
           n == Len(in)
           Old(x) == IF x < i THEN x ELSE x + 1
<1>1. /\ n \in Nat /\ n > 2 /\ in \in Seq(InnerEntry)
      /\ \A j \in 1 .. n : in[j].key \in Nat
    BY TreeBasics DEF Tree
<1>2. /\ in2 \in Seq(InnerEntry)
      /\ Len(in2) = n - 1
      /\ \A j \in 1 .. n - 1 : /\ j < i => in2[j] = in[j]
                               /\ j >= i => in2[j] = in[j + 1]
    <2>1. i \in 1 .. Len(in)
        BY <1>1
    <2>2. Drops(in, i, in2, InnerEntry)
        BY <1>1, <2>1, RemovedAt
    <2> QED
        BY <2>2 DEF Drops
<1>3. in2 # <<>>
    BY <1>1, <1>2
<1> HIDE DEF in2, n
<1>4. i \in 2 .. n
    BY DEF n
<1>5. \A x \in 2 .. n - 1 : Old(x) \in 2 .. n /\ Old(x) # i /\ in2[x] = in[Old(x)]
    BY <1>1, <1>2, <1>4
<1>6. \A x, y \in 2 .. n - 1 : x < y => Old(x) < Old(y)
    BY <1>1, <1>4
<1>7. \A x, y \in 2 .. n :
        x < y => in[x].key < in[y].key /\ in[x].child # in[y].child
    BY DEF Tree, Fits, n
<1>8. ASSUME NEW x \in 2 .. n - 1, NEW e \in PairsIn(lf[in2[x].child].entries)
      PROVE  (x > 2 => in2[x - 1].key < e.key) /\ (x < n - 1 => e.key <= in2[x].key)
    <2>1. Bounds(in, Old(x), e)
        BY <1>5 DEF Tree, Fits, n
    <2>2. e.key \in Nat
        <3>1. in[Old(x)].child \in Pages
            BY <1>1, <1>5, TreeBasics DEF n
        <3>2. lf[in2[x].child].entries \in Seq(Pair)
            BY <1>5, <3>1, TreeBasics
        <3>3. e \in Pair
            BY <3>2, LeafBasics
        <3> QED
            BY <3>3 DEF Pair
    <2>3. x < n - 1 => e.key <= in2[x].key
        <3>1. x < n - 1 => Old(x) < n
            BY <1>1, <1>4
        <3> QED
            BY <1>5, <2>1, <3>1 DEF Bounds, n
    <2>4. ASSUME x > 2 PROVE in2[x - 1].key < e.key
        <3>1. x - 1 \in 2 .. n - 1 /\ Old(x) > 2 /\ Old(x) - 1 \in 2 .. n
              /\ in2[x - 1] = in[Old(x - 1)] /\ Old(x - 1) \in 2 .. n
            BY <1>1, <1>4, <1>5, <2>4
        <3>2. in[Old(x) - 1].key < e.key
            BY <2>1, <3>1 DEF Bounds
        <3>3. Old(x - 1) = Old(x) - 1 \/ Old(x - 1) < Old(x) - 1
            BY <1>1, <1>4, <2>4
        <3>4. in[Old(x - 1)].key <= in[Old(x) - 1].key
            <4> DEFINE u == Old(x - 1)
                       v == Old(x) - 1
            <4>1. in[u].key \in Nat /\ in[v].key \in Nat /\ u \in 2 .. n /\ v \in 2 .. n
                  /\ (u = v \/ u < v)
                BY <1>1, <3>1, <3>3
            <4> HIDE DEF u, v
            <4>2. in[u].key <= in[v].key
                BY <1>7, <4>1
            <4> QED
                BY <4>2 DEF u, v
        <3>5. in[Old(x) - 1].key \in Nat /\ in[Old(x - 1)].key \in Nat
            BY <1>1, <3>1
        <3> QED
            BY <2>2, <3>1, <3>2, <3>4, <3>5
    <2> QED
        BY <2>3, <2>4
<1> HIDE DEF Old
<1>9. Fits(in2, lf)
    <2>1. Len(in2) >= 2
        BY <1>1, <1>2
    <2>2. \A x, y \in 2 .. n - 1 :
            x < y => in2[x].key < in2[y].key /\ in2[x].child # in2[y].child
        BY <1>5, <1>6, <1>7
    <2>3. \A x \in 2 .. n - 1 : lf[in2[x].child].entries # <<>>
        BY <1>5 DEF Tree, Fits, n
    <2>4. \A x \in 2 .. n - 1 : \A e \in PairsIn(lf[in2[x].child].entries) :
             Bounds(in2, x, e)
        BY <1>2, <1>8 DEF Bounds
    <2> QED
        BY <1>2, <2>1, <2>2, <2>3, <2>4 DEF Fits
<1>10. Tree(in2, rt, lf)
    BY <1>2, <1>9 DEF Tree
<1>11. Reached(in2, rt) = Reached(in, rt) \ {in[i].child}
    <2>1. Reached(in2, rt) = {in2[x].child : x \in 2 .. n - 1}
        BY <1>2, <1>3 DEF Reached
    <2>2. Reached(in, rt) = {in[x].child : x \in 2 .. n}
        BY DEF Reached, n
    <2>3. \A x \in 2 .. n : x # i => in[x].child # in[i].child
        <3> SUFFICES ASSUME NEW x \in 2 .. n, x # i
                     PROVE  in[x].child # in[i].child
            OBVIOUS
        <3>1. x < i \/ i < x
            BY <1>4
        <3> QED
            BY <1>4, <1>7, <3>1
    <2>4. Reached(in2, rt) \subseteq Reached(in, rt) \ {in[i].child}
        BY <1>5, <2>1, <2>2, <2>3
    <2>5. ASSUME NEW x \in 2 .. n, x # i PROVE in[x].child \in Reached(in2, rt)
        <3>1. CASE x < i
            <4>1. x \in 2 .. n - 1 /\ in2[x] = in[x]
                BY <1>1, <1>2, <1>4, <3>1
            <4> QED
                BY <2>1, <4>1
        <3>2. CASE x > i
            <4>1. x - 1 \in 2 .. n - 1 /\ x - 1 \in 1 .. n - 1 /\ x - 1 >= i
                  /\ x - 1 + 1 = x
                BY <1>1, <1>4, <3>2
            <4>2. in2[x - 1] = in[x]
                BY <1>2, <4>1
            <4> QED
                BY <2>1, <4>1, <4>2
        <3> QED
            BY <1>4, <2>5, <3>1, <3>2
    <2> QED
        BY <2>2, <2>4, <2>5
<1> QED
    BY <1>2, <1>10, <1>11 DEF in2, n

-----------------------------------------------------------------------------
(* What the changes do to the map                                          *)

MapOf(in, rt, lf) == [k \in Keys |-> LookupIn(in, rt, lf, k)]

\* The map has a key's row id exactly if the pair of both is stored.
LEMMA MapIs ==
    ASSUME NEW in, NEW rt, NEW lf, Tree(in, rt, lf)
    PROVE  /\ MapOf(in, rt, lf) \in [Keys -> Rids \cup {NoRid}]
           /\ \A k \in Keys, r \in Rids :
                MapOf(in, rt, lf)[k] = r <=> PairOf(k, r) \in Stored(in, rt, lf)
           /\ Stored(in, rt, lf) \subseteq Pair
<1>1. ASSUME NEW k \in Keys
      PROVE  /\ LookupIn(in, rt, lf, k) \in Rids \cup {NoRid}
             /\ \A r \in Rids : LookupIn(in, rt, lf, k) = r <=>
                                  PairOf(k, r) \in Stored(in, rt, lf)
    BY LookupFinds
<1>2. Stored(in, rt, lf) \subseteq Pair
    BY TreeBasics, LeafBasics DEF Stored
<1> QED
    BY <1>1, <1>2 DEF MapOf

LEMMA SamePairsSameMap ==
    ASSUME NEW in, NEW rt, NEW lf, Tree(in, rt, lf),
           NEW in2, NEW rt2, NEW lf2, Tree(in2, rt2, lf2),
           NEW k \in Keys,
           \A r \in Rids : PairOf(k, r) \in Stored(in, rt, lf) <=>
                             PairOf(k, r) \in Stored(in2, rt2, lf2)
    PROVE  MapOf(in2, rt2, lf2)[k] = MapOf(in, rt, lf)[k]
<1>1. /\ MapOf(in, rt, lf)[k] \in Rids \cup {NoRid}
      /\ MapOf(in2, rt2, lf2)[k] \in Rids \cup {NoRid}
    BY MapIs
<1>2. \A r \in Rids : MapOf(in, rt, lf)[k] = r <=> MapOf(in2, rt2, lf2)[k] = r
    BY MapIs
<1> QED
    BY <1>1, <1>2

LEMMA PairAdded ==
    ASSUME NEW in, NEW rt, NEW lf, Tree(in, rt, lf),
           NEW in2, NEW rt2, NEW lf2, Tree(in2, rt2, lf2),
           NEW k \in Keys, NEW r \in Rids,
           Stored(in2, rt2, lf2) = Stored(in, rt, lf) \cup {PairOf(k, r)}
    PROVE  MapOf(in2, rt2, lf2) = [MapOf(in, rt, lf) EXCEPT ![k] = r]
<1>1. MapOf(in2, rt2, lf2)[k] = r
    BY MapIs
<1>2. ASSUME NEW x \in Keys, x # k
      PROVE  MapOf(in2, rt2, lf2)[x] = MapOf(in, rt, lf)[x]
    <2>1. \A s \in Rids : PairOf(x, s) # PairOf(k, r)
        BY <1>2 DEF PairOf
    <2> QED
        BY <2>1, SamePairsSameMap
<1>3. /\ MapOf(in, rt, lf) \in [Keys -> Rids \cup {NoRid}]
      /\ MapOf(in2, rt2, lf2) \in [Keys -> Rids \cup {NoRid}]
    BY MapIs
<1> QED
    BY <1>1, <1>2, <1>3

LEMMA KeyRemoved ==
    ASSUME NEW in, NEW rt, NEW lf, Tree(in, rt, lf),
           NEW in2, NEW rt2, NEW lf2, Tree(in2, rt2, lf2),
           NEW k \in Keys,
           Stored(in2, rt2, lf2) = {e \in Stored(in, rt, lf) : e.key # k}
    PROVE  MapOf(in2, rt2, lf2) = [MapOf(in, rt, lf) EXCEPT ![k] = NoRid]
<1>1. MapOf(in2, rt2, lf2)[k] = NoRid
    <2>1. \A r \in Rids : PairOf(k, r).key = k
        BY DEF PairOf
    <2>2. \A r \in Rids : PairOf(k, r) \notin Stored(in2, rt2, lf2)
        BY <2>1
    <2> QED
        BY <2>2, MapIs
<1>2. ASSUME NEW x \in Keys, x # k
      PROVE  MapOf(in2, rt2, lf2)[x] = MapOf(in, rt, lf)[x]
    <2>1. \A s \in Rids : PairOf(x, s).key # k
        BY <1>2 DEF PairOf
    <2> QED
        BY <2>1, SamePairsSameMap
<1>3. /\ MapOf(in, rt, lf) \in [Keys -> Rids \cup {NoRid}]
      /\ MapOf(in2, rt2, lf2) \in [Keys -> Rids \cup {NoRid}]
    BY MapIs
<1> QED
    BY <1>1, <1>2, <1>3

LEMMA PairsLost ==
    ASSUME NEW in, NEW rt, NEW lf, Tree(in, rt, lf),
           NEW in2, NEW rt2, NEW lf2, Tree(in2, rt2, lf2),
           NEW k \in Keys, NEW r \in Rids,
           MapOf(in, rt, lf)[k] = NoRid,
           Stored(in2, rt2, lf2) \subseteq Stored(in, rt, lf) \cup {PairOf(k, r)}
    PROVE  \A x \in Keys :
             MapOf(in2, rt2, lf2)[x] # NoRid =>
               MapOf(in2, rt2, lf2)[x] = IF x = k THEN r ELSE MapOf(in, rt, lf)[x]
<1> SUFFICES ASSUME NEW x \in Keys, MapOf(in2, rt2, lf2)[x] # NoRid
             PROVE  MapOf(in2, rt2, lf2)[x] =
                       IF x = k THEN r ELSE MapOf(in, rt, lf)[x]
    OBVIOUS
<1>1. PICK s \in Rids : MapOf(in2, rt2, lf2)[x] = s
    BY MapIs
<1>2. PairOf(x, s) \in Stored(in, rt, lf) \cup {PairOf(k, r)}
    BY <1>1, MapIs
<1>3. CASE PairOf(x, s) \in Stored(in, rt, lf)
    <2>1. MapOf(in, rt, lf)[x] = s
        BY <1>3, MapIs
    <2> QED
        BY <1>1, <2>1
<1>4. CASE PairOf(x, s) = PairOf(k, r)
    <2>1. x = k /\ s = r
        BY <1>4 DEF PairOf
    <2> QED
        BY <1>1, <2>1
<1> QED
    BY <1>2, <1>3, <1>4

-----------------------------------------------------------------------------
(* The split of a leaf                                                     *)

LEMMA LastIsMax ==
    ASSUME NEW s \in Seq(Pair), Ascending(s), s # <<>>
    PROVE  /\ Last(s) \in PairsIn(s)
           /\ Last(s).key \in Keys /\ Last(s).key \in Nat
           /\ \A e \in PairsIn(s) : e.key <= Last(s).key
<1>1. /\ Len(s) \in Nat /\ Len(s) >= 1
      /\ \A i \in 1 .. Len(s) : s[i].key \in Keys /\ s[i].key \in Nat
    BY LeafBasics
<1>2. Last(s) = s[Len(s)] /\ Len(s) \in 1 .. Len(s)
    BY <1>1 DEF Last
<1>3. \A i \in 1 .. Len(s) : s[i].key <= s[Len(s)].key
    <2> SUFFICES ASSUME NEW i \in 1 .. Len(s) PROVE s[i].key <= s[Len(s)].key
        OBVIOUS
    <2>1. i = Len(s) \/ i < Len(s)
        BY <1>1
    <2> QED
        BY <1>1, <1>2, <2>1 DEF Ascending
<1> QED
    BY <1>1, <1>2, <1>3 DEF PairsIn

\* pages is leaf with the pairs of leaf p and the pair e divided between p and
\* q: lower keys in p, higher ones in q, none of both without a pair.
Divides(p, q, e, pages) ==
    /\ pages \in [Pages -> LeafPage]
    /\ \A x \in Pages \ {p, q} : pages[x] = leaf[x]
    /\ \A x \in {p, q} :
        /\ Ascending(pages[x].entries)
        /\ pages[x].entries # <<>>
        /\ Len(pages[x].entries) <= LeafMax
    /\ PairsIn(pages[p].entries) \cup PairsIn(pages[q].entries) =
         PairsIn(leaf[p].entries) \cup {e}
    /\ \A x \in PairsIn(pages[p].entries), y \in PairsIn(pages[q].entries) :
         x.key < y.key

LEMMA SplitDivides ==
    ASSUME TypeOK, NEW p \in Pages, NEW q \in Pages, p # q, Full(p),
           Ascending(leaf[p].entries), NEW k \in Keys, NEW r \in Rids,
           \A e \in PairsIn(leaf[p].entries) : e.key # k
    PROVE  Divides(p, q, PairOf(k, r), Split(p, q, k, r))
<1> DEFINE s == leaf[p].entries
           right == Last(Low(s)).key < k
           lo == IF right THEN Low(s) ELSE Put(Low(s), k, r)
           hi == IF right THEN Put(High(s), k, r) ELSE High(s)
           e == PairOf(k, r)
           pages == Split(p, q, k, r)
<1>1. leaf \in [Pages -> LeafPage]
    BY DEF TypeOK, LeafPage
<1>2. /\ leaf[p].prev \in Pages \cup {InvalidPage}
      /\ leaf[p].next \in Pages \cup {InvalidPage}
      /\ s \in Seq(Pair)
    BY <1>1 DEF LeafPage
<1>3. Len(s) = LeafMax /\ LeafMax >= 2 /\ LeafMax \in Nat
    BY DEF Full
<1>4. Ascending(s) /\ \A x \in PairsIn(s) : x.key # k
    OBVIOUS
<1>5. /\ pages = [leaf EXCEPT ![p] = [leaf[p] EXCEPT !.entries = lo, !.next = q],
                              ![q] = [entries |-> hi, prev |-> p,
                                      next |-> leaf[p].next]]
    BY DEF Split
<1> HIDE DEF s, pages
<1>6. /\ Low(s) \in Seq(Pair) /\ High(s) \in Seq(Pair)
      /\ Ascending(Low(s)) /\ Ascending(High(s))
      /\ Len(Low(s)) >= 1 /\ Len(High(s)) >= 1
      /\ Len(Low(s)) < Len(s) /\ Len(High(s)) < Len(s)
      /\ PairsIn(s) = PairsIn(Low(s)) \cup PairsIn(High(s))
      /\ \A x \in PairsIn(Low(s)), y \in PairsIn(High(s)) : x.key < y.key
    BY <1>2, <1>3, <1>4, Halves
<1>7. Low(s) # <<>> /\ Len(Low(s)) \in Nat /\ Len(High(s)) \in Nat
    <2>1. Len(<<>>) = 0
        OBVIOUS
    <2> QED
        BY <1>6, <2>1
<1>8. /\ Last(Low(s)) \in PairsIn(Low(s))
      /\ Last(Low(s)).key \in Nat
      /\ \A x \in PairsIn(Low(s)) : x.key <= Last(Low(s)).key
    BY <1>6, <1>7, LastIsMax
<1>9. /\ \A x \in PairsIn(Low(s)) : x.key \in Nat /\ x.key # k
      /\ \A x \in PairsIn(High(s)) : x.key \in Nat /\ x.key # k
      /\ k \in Nat /\ e.key = k
    <2>1. \A x \in Pair : x.key \in Nat
        BY DEF Pair
    <2>2. PairsIn(Low(s)) \subseteq Pair /\ PairsIn(High(s)) \subseteq Pair
        BY <1>6, LeafBasics
    <2>3. e.key = k
        BY DEF PairOf
    <2> QED
        BY <1>4, <1>6, <2>1, <2>2, <2>3
<1> HIDE DEF e
<1>10. /\ lo \in Seq(Pair) /\ hi \in Seq(Pair)
       /\ Ascending(lo) /\ Ascending(hi)
       /\ Len(lo) >= 1 /\ Len(hi) >= 1
       /\ Len(lo) <= LeafMax /\ Len(hi) <= LeafMax
       /\ PairsIn(lo) \cup PairsIn(hi) = PairsIn(s) \cup {e}
       /\ \A x \in PairsIn(lo), y \in PairsIn(hi) : x.key < y.key
    <2>1. CASE right
        <3>1. /\ Put(High(s), k, r) \in Seq(Pair)
              /\ Ascending(Put(High(s), k, r))
              /\ Len(Put(High(s), k, r)) = Len(High(s)) + 1
              /\ PairsIn(Put(High(s), k, r)) = PairsIn(High(s)) \cup {e}
            BY <1>6, <1>9, PutInLeaf DEF e
        <3>2. \A x \in PairsIn(Low(s)) : x.key < k
            BY <1>8, <1>9, <2>1
        <3>3. lo = Low(s) /\ hi = Put(High(s), k, r)
            BY <2>1
        <3> HIDE DEF lo, hi
        <3>4. \A x \in PairsIn(lo), y \in PairsIn(hi) : x.key < y.key
            BY <1>6, <1>9, <3>1, <3>2, <3>3
        <3> QED
            BY <1>3, <1>6, <1>7, <3>1, <3>3, <3>4
    <2>2. CASE ~right
        <3>1. /\ Put(Low(s), k, r) \in Seq(Pair)
              /\ Ascending(Put(Low(s), k, r))
              /\ Len(Put(Low(s), k, r)) = Len(Low(s)) + 1
              /\ PairsIn(Put(Low(s), k, r)) = PairsIn(Low(s)) \cup {e}
            BY <1>6, <1>9, PutInLeaf DEF e
        <3>2. \A y \in PairsIn(High(s)) : k < y.key
            <4>1. k < Last(Low(s)).key
                BY <1>8, <1>9, <2>2
            <4> QED
                BY <1>6, <1>8, <1>9, <4>1
        <3>3. lo = Put(Low(s), k, r) /\ hi = High(s)
            BY <2>2
        <3> HIDE DEF lo, hi
        <3>4. \A x \in PairsIn(lo), y \in PairsIn(hi) : x.key < y.key
            BY <1>6, <1>9, <3>1, <3>2, <3>3
        <3> QED
            BY <1>3, <1>6, <1>7, <3>1, <3>3, <3>4
    <2> QED
        BY <2>1, <2>2
<1> HIDE DEF lo, hi, right
<1>11. lo # <<>> /\ hi # <<>>
    <2>1. Len(<<>>) = 0
        OBVIOUS
    <2> QED
        BY <1>10, <2>1
<1>12. /\ [leaf[p] EXCEPT !.entries = lo, !.next = q] \in LeafPage
       /\ [leaf[p] EXCEPT !.entries = lo, !.next = q].entries = lo
       /\ [entries |-> hi, prev |-> p, next |-> leaf[p].next] \in LeafPage
    BY <1>1, <1>2, <1>10 DEF LeafPage
<1>13. /\ pages \in [Pages -> LeafPage]
       /\ \A x \in Pages \ {p, q} : pages[x] = leaf[x]
       /\ pages[p].entries = lo
       /\ pages[q].entries = hi
    <2> DEFINE a == [leaf[p] EXCEPT !.entries = lo, !.next = q]
               b == [entries |-> hi, prev |-> p, next |-> leaf[p].next]
    <2>1. a \in LeafPage /\ a.entries = lo /\ b \in LeafPage /\ b.entries = hi
        BY <1>12
    <2>2. pages = [leaf EXCEPT ![p] = a, ![q] = b]
        BY <1>5
    <2> HIDE DEF a, b
    <2> QED
        BY <1>1, <2>1, <2>2
<1> QED
    BY <1>10, <1>11, <1>13 DEF Divides, s, e, pages

-----------------------------------------------------------------------------
(* The steps of the tree                                                   *)

\* The operators of the model are those of a tree with its variables.
LEMMA TreeOperators ==
    ASSUME NEW k
    PROVE  /\ Child(k) = ChildIn(inner, k)
           /\ LeafOf(k) = LeafIn(inner, root, k)
           /\ Lookup(k) = LookupIn(inner, root, leaf, k)
           /\ Lookup(k)' = LookupIn(inner', root', leaf', k)
BY DEF Child, InnerLowerBound, ChildIn, LeafOf, LeafIn, Lookup, LookupIn, InLeaf

LEMMA NextTree ==
    ASSUME Tree(inner', root', leaf'),
           Len(inner') <= InnerMax,
           \A p \in Pages : Len(leaf'[p].entries) <= LeafMax,
           pageCount' \in 2 .. MaxPages,
           removed' \in BOOLEAN, threw' \in BOOLEAN,
           \A p \in Reached(inner', root') : p < pageCount'
    PROVE  BInv'
BY DEF BInv, TypeOK, Tree, InnerEntry, LeafPage

LEMMA InvBasics ==
    ASSUME BInv
    PROVE  /\ TypeOK
           /\ Tree(inner, root, leaf)
           /\ leaf \in [Pages -> LeafPage]
           /\ Len(inner) \in Nat
           /\ Len(inner) <= InnerMax
           /\ \A p \in Pages : /\ leaf[p].entries \in Seq(Pair)
                               /\ Ascending(leaf[p].entries)
                               /\ Len(leaf[p].entries) <= LeafMax
           /\ pageCount \in 2 .. MaxPages
           /\ removed \in BOOLEAN /\ threw \in BOOLEAN
           /\ Reached(inner, root) \subseteq Pages
           /\ \A p \in Reached(inner, root) : p < pageCount
<1>1. Tree(inner, root, leaf) /\ TypeOK
    BY DEF BInv
<1> QED
    BY <1>1, TreeBasics DEF BInv, TypeOK, Tree

\* A key that is to be inserted is not stored.
LEMMA NotStored ==
    ASSUME BInv, NEW k \in Keys, MayInsert(k)
    PROVE  /\ \A e \in Stored(inner, root, leaf) : e.key # k
           /\ MapOf(inner, root, leaf)[k] = NoRid
<1>1. Tree(inner, root, leaf)
    BY DEF BInv
<1>2. MapOf(inner, root, leaf)[k] = NoRid
    BY TreeOperators DEF MayInsert, MapOf
<1>3. ASSUME NEW e \in Stored(inner, root, leaf), e.key = k PROVE FALSE
    <2>1. e \in Pair
        BY <1>1, MapIs
    <2>2. e.rid \in Rids /\ e = PairOf(k, e.rid)
        BY <1>3, <2>1 DEF Pair, PairOf
    <2>3. MapOf(inner, root, leaf)[k] = e.rid
        BY <1>1, <2>2, MapIs
    <2> QED
        BY <1>2, <2>2, <2>3
<1> QED
    BY <1>2, <1>3

\* The pair of a key that is removed is in the leaf its descent ends at.
LEMMA IsStored ==
    ASSUME BInv, NEW k \in Keys, Lookup(k) # NoRid
    PROVE  PairOf(k, Lookup(k)) \in PairsIn(leaf[LeafOf(k)].entries)
<1>1. Tree(inner, root, leaf)
    BY DEF BInv
<1>2. LeafOf(k) \in Pages
    BY <1>1, TreeOperators, LookupFinds, TreeBasics
<1>3. leaf[LeafOf(k)].entries \in Seq(Pair) /\ Ascending(leaf[LeafOf(k)].entries)
    BY <1>1, <1>2, TreeBasics
<1>4. Lookup(k) = InLeaf(leaf[LeafOf(k)].entries, k)
    BY DEF Lookup, InLeaf
<1> QED
    BY <1>3, <1>4, FoundInLeaf

\* Every pair with a key is in the leaf its descent ends at.
LEMMA OnlyLeaf ==
    ASSUME NEW in, NEW rt, NEW lf, Tree(in, rt, lf), NEW k \in Keys,
           NEW q \in Reached(in, rt), NEW e \in PairsIn(lf[q].entries), e.key = k
    PROVE  q = LeafIn(in, rt, k)
<1>1. CASE in = <<>>
    BY <1>1 DEF Reached, LeafIn
<1>2. CASE in # <<>>
    <2>1. PICK j \in 2 .. Len(in) : q = in[j].child
        BY <1>2 DEF Reached
    <2>2. e \in Pair
        <3>1. lf[q].entries \in Seq(Pair)
            BY TreeBasics
        <3> QED
            BY <3>1, LeafBasics
    <2>3. Bounds(in, j, e)
        BY <1>2, <2>1 DEF Tree, Fits
    <2>4. j = ChildIn(in, k)
        BY <1>2, <2>2, <2>3, DescentEnds
    <2> QED
        BY <1>2, <2>1, <2>4 DEF LeafIn
<1> QED
    BY <1>1, <1>2

\* A pair with the key k is within the bounds of that leaf.
LEMMA PairMayEnter ==
    ASSUME NEW in, NEW rt, NEW lf, Tree(in, rt, lf), NEW k \in Keys,
           NEW i \in 2 .. Len(in), in[i].child = LeafIn(in, rt, k),
           NEW e, e.key = k
    PROVE  i = ChildIn(in, k) /\ Bounds(in, i, e)
<1>1. in # <<>> /\ Len(in) \in Nat
    <2>1. Len(<<>>) = 0
        OBVIOUS
    <2> QED
        BY <2>1, TreeBasics
<1>2. /\ ChildIn(in, k) \in 2 .. Len(in)
      /\ ChildIn(in, k) > 2 => in[ChildIn(in, k) - 1].key < k
      /\ ChildIn(in, k) < Len(in) => k <= in[ChildIn(in, k)].key
    BY <1>1, DescentEnds
<1>3. in[i].child = in[ChildIn(in, k)].child
    BY <1>1 DEF LeafIn
<1>4. i = ChildIn(in, k)
    <2>1. \A x, y \in 2 .. Len(in) : x < y => in[x].child # in[y].child
        BY <1>1 DEF Tree, Fits
    <2>2. ~(i < ChildIn(in, k)) /\ ~(ChildIn(in, k) < i)
        BY <1>2, <1>3, <2>1
    <2> QED
        BY <1>2, <2>2
<1> QED
    BY <1>2, <1>4 DEF Bounds

LEMMA InsertInLeafKeeps ==
    ASSUME BInv, NEW k \in Keys, NEW r \in Rids, InsertInLeaf(k, r)
    PROVE  /\ BInv'
           /\ Stored(inner', root', leaf') =
                Stored(inner, root, leaf) \cup {PairOf(k, r)}
<1> DEFINE p == LeafOf(k)
           s == leaf[p].entries
           t == Put(s, k, r)
<1>1. Tree(inner, root, leaf) /\ leaf \in [Pages -> LeafPage]
    BY InvBasics
<1>2. p \in Reached(inner, root) /\ p \in Pages
    BY <1>1, TreeOperators, LookupFinds, TreeBasics
<1>3. s \in Seq(Pair) /\ Ascending(s) /\ Len(s) <= LeafMax
    BY <1>2, InvBasics
<1>4. \A e \in PairsIn(s) : e.key # k
    <2>1. PairsIn(s) \subseteq Stored(inner, root, leaf)
        BY <1>2 DEF Stored
    <2> QED
        BY <2>1, NotStored DEF InsertInLeaf
<1>5. /\ t \in Seq(Pair)
      /\ Ascending(t)
      /\ Len(t) = Len(s) + 1
      /\ PairsIn(t) = PairsIn(s) \cup {PairOf(k, r)}
    BY <1>3, <1>4, PutInLeaf
<1>6. /\ leaf' = [leaf EXCEPT ![p].entries = t]
      /\ UNCHANGED <<root, inner, pageCount, removed>>
      /\ threw' = FALSE
      /\ Len(s) # LeafMax
    BY DEF InsertInLeaf, Full
<1> HIDE DEF p, s, t
<1>7. /\ leaf' \in [Pages -> LeafPage]
      /\ leaf'[p].entries = t
      /\ \A x \in Pages \ {p} : leaf'[x] = leaf[x]
    <2>1. [leaf[p] EXCEPT !.entries = t] \in LeafPage
          /\ [leaf[p] EXCEPT !.entries = t].entries = t
        BY <1>1, <1>2, <1>5 DEF LeafPage
    <2>2. leaf' = [leaf EXCEPT ![p] = [leaf[p] EXCEPT !.entries = t]]
        BY <1>6
    <2> QED
        BY <1>1, <1>2, <2>1, <2>2
<1>8. Len(t) <= LeafMax /\ t # <<>>
    <2>1. Len(s) \in Nat /\ Len(<<>>) = 0
        BY <1>3
    <2> QED
        BY <1>3, <1>5, <1>6, <2>1
<1>9. ASSUME NEW i \in 2 .. Len(inner), inner[i].child = p
      PROVE  \A e \in PairsIn(t) : Bounds(inner, i, e)
    <2>1. Bounds(inner, i, PairOf(k, r))
        BY <1>1, <1>9, TreeOperators, PairMayEnter DEF PairOf, p
    <2>2. inner # <<>>
        <3>1. Len(<<>>) = 0
            OBVIOUS
        <3> QED
            BY <3>1, InvBasics
    <2>3. \A e \in PairsIn(s) : Bounds(inner, i, e)
        BY <1>1, <1>9, <2>2 DEF Tree, Fits, s
    <2> QED
        BY <1>5, <2>1, <2>3
<1>10. Tree(inner, root, leaf')
    <2>1. \A x \in Pages : Ascending(leaf'[x].entries)
        BY <1>5, <1>7, InvBasics
    <2>2. \A x \in Reached(inner, root) \ {p} : leaf'[x].entries = leaf[x].entries
        BY <1>7, InvBasics
    <2>3. \A i \in 2 .. Len(inner) : inner[i].child = p =>
             /\ leaf'[p].entries # <<>>
             /\ \A e \in PairsIn(leaf'[p].entries) : Bounds(inner, i, e)
        BY <1>7, <1>8, <1>9
    <2> QED
        BY <1>1, <1>7, <2>1, <2>2, <2>3, LeafReplaced
<1>11. BInv'
    <2>1. \A x \in Pages : Len(leaf'[x].entries) <= LeafMax
        BY <1>7, <1>8, InvBasics
    <2> QED
        BY <1>6, <1>10, <2>1, InvBasics, NextTree
<1>12. Stored(inner, root, leaf') = Stored(inner, root, leaf) \cup {PairOf(k, r)}
    <2>1. \A x \in Reached(inner, root) \ {p} :
             PairsIn(leaf'[x].entries) = PairsIn(leaf[x].entries)
        BY <1>7, InvBasics
    <2>2. PairsIn(leaf'[p].entries) = PairsIn(leaf[p].entries) \cup {PairOf(k, r)}
        BY <1>5, <1>7 DEF s
    <2> QED
        BY <1>2, <2>1, <2>2 DEF Stored
<1> QED
    BY <1>6, <1>11, <1>12

LEMMA SplitRootKeeps ==
    ASSUME BInv, NEW k \in Keys, NEW r \in Rids, SplitRoot(k, r)
    PROVE  /\ BInv'
           /\ Stored(inner', root', leaf') =
                Stored(inner, root, leaf) \cup {PairOf(k, r)}
<1> DEFINE p == root
           q == pageCount
           lo == leaf'[p].entries
           hi == leaf'[q].entries
           a == MaxKey(leaf', p)
           b == MaxKey(leaf', q)
<1>1. /\ Tree(inner, root, leaf) /\ TypeOK
      /\ inner = <<>>
      /\ Reached(inner, root) = {p}
      /\ p \in Pages /\ p < pageCount
    BY InvBasics DEF SplitRoot, Reached
<1>2. /\ Full(p)
      /\ pageCount + 2 <= MaxPages
      /\ leaf' = Split(p, q, k, r)
      /\ inner' = <<Entry(InvalidKey, p), Entry(a, p), Entry(b, q)>>
      /\ root' = pageCount + 1
      /\ pageCount' = pageCount + 2
      /\ threw' = FALSE
      /\ removed' = removed
    BY DEF SplitRoot
<1>3. /\ q \in Pages /\ p # q /\ root' \in Pages /\ pageCount' \in 2 .. MaxPages
      /\ pageCount \in Nat
    BY <1>1, <1>2, InvBasics DEF Pages
<1>4. Stored(inner, root, leaf) = PairsIn(leaf[p].entries)
    BY <1>1 DEF Stored
<1>5. Divides(p, q, PairOf(k, r), leaf')
    <2>1. \A e \in PairsIn(leaf[p].entries) : e.key # k
        BY <1>4, NotStored DEF SplitRoot
    <2>2. Ascending(leaf[p].entries)
        BY <1>1, InvBasics
    <2>3. Divides(p, q, PairOf(k, r), Split(p, q, k, r))
        BY <1>1, <1>2, <1>3, <2>1, <2>2, SplitDivides
    <2> QED
        BY <1>2, <2>3
<1>6. /\ leaf' \in [Pages -> LeafPage]
      /\ \A x \in Pages \ {p, q} : leaf'[x] = leaf[x]
      /\ Ascending(lo) /\ Ascending(hi)
      /\ lo # <<>> /\ hi # <<>>
      /\ Len(lo) <= LeafMax /\ Len(hi) <= LeafMax
      /\ PairsIn(lo) \cup PairsIn(hi) =
           PairsIn(leaf[p].entries) \cup {PairOf(k, r)}
      /\ \A x \in PairsIn(lo), y \in PairsIn(hi) : x.key < y.key
    BY <1>5 DEF Divides
<1>7. lo \in Seq(Pair) /\ hi \in Seq(Pair)
    BY <1>1, <1>3, <1>6 DEF LeafPage
<1>8. /\ a \in Keys /\ b \in Keys /\ a < b
      /\ \A e \in PairsIn(lo) : e.key <= a
      /\ \A e \in PairsIn(hi) : a < e.key
    <2>1. /\ Last(lo) \in PairsIn(lo) /\ Last(lo).key \in Keys
          /\ \A e \in PairsIn(lo) : e.key <= Last(lo).key
        BY <1>6, <1>7, LastIsMax
    <2>2. Last(hi) \in PairsIn(hi) /\ Last(hi).key \in Keys
        BY <1>6, <1>7, LastIsMax
    <2>3. a = Last(lo).key /\ b = Last(hi).key
        BY DEF MaxKey
    <2> QED
        BY <1>6, <2>1, <2>2, <2>3
<1> HIDE DEF p, q, lo, hi, a, b
<1>9. /\ inner' \in Seq(InnerEntry)
      /\ Len(inner') = 3
      /\ inner'[2].key = a /\ inner'[2].child = p
      /\ inner'[3].key = b /\ inner'[3].child = q
    <2>1. /\ Entry(InvalidKey, p) \in InnerEntry
          /\ Entry(a, p) \in InnerEntry /\ Entry(b, q) \in InnerEntry
        BY <1>1, <1>3, <1>8 DEF Entry, InnerEntry
    <2>2. Entry(a, p).key = a /\ Entry(a, p).child = p
          /\ Entry(b, q).key = b /\ Entry(b, q).child = q
        BY DEF Entry
    <2> QED
        BY <1>2, <2>1, <2>2
<1>10. inner' # <<>> /\ 2 .. Len(inner') = {2, 3}
    <2>1. Len(<<>>) = 0
        OBVIOUS
    <2> QED
        BY <1>9, <2>1
<1>11. Reached(inner', root') = {p, q}
    <2>1. Reached(inner', root') = {inner'[i].child : i \in {2, 3}}
        BY <1>10 DEF Reached
    <2> QED
        BY <1>9, <2>1
<1>12. Fits(inner', leaf')
    <2>1. leaf'[inner'[2].child].entries = lo /\ leaf'[inner'[3].child].entries = hi
        BY <1>9 DEF lo, hi
    <2>2. ASSUME NEW e \in PairsIn(lo) PROVE Bounds(inner', 2, e)
        BY <1>8, <1>9 DEF Bounds
    <2>3. ASSUME NEW e \in PairsIn(hi) PROVE Bounds(inner', 3, e)
        BY <1>8, <1>9 DEF Bounds
    <2>4. \A i \in {2, 3} :
            /\ leaf'[inner'[i].child].entries # <<>>
            /\ \A e \in PairsIn(leaf'[inner'[i].child].entries) :
                 Bounds(inner', i, e)
        BY <1>6, <2>1, <2>2, <2>3
    <2>5. \A i, j \in {2, 3} : i < j =>
            inner'[i].key < inner'[j].key /\ inner'[i].child # inner'[j].child
        BY <1>3, <1>8, <1>9
    <2> QED
        BY <1>9, <1>10, <2>4, <2>5 DEF Fits
<1>13. \A x \in Pages : /\ Ascending(leaf'[x].entries)
                        /\ Len(leaf'[x].entries) <= LeafMax
    BY <1>6, InvBasics DEF lo, hi
<1>14. Tree(inner', root', leaf')
    BY <1>3, <1>6, <1>9, <1>12, <1>13 DEF Tree
<1>15. BInv'
    <2>1. Len(inner') <= InnerMax
        BY <1>9
    <2>2. \A x \in {p, q} : x < pageCount'
        BY <1>1, <1>2, <1>3 DEF p, q, Pages
    <2> QED
        BY <1>2, <1>3, <1>11, <1>13, <1>14, <2>1, <2>2, InvBasics, NextTree
<1>16. Stored(inner', root', leaf') = PairsIn(lo) \cup PairsIn(hi)
    BY <1>11 DEF Stored, lo, hi
<1> QED
    BY <1>4, <1>6, <1>15, <1>16

\* A leaf below the root is split and its separator lowered, and nothing leads
\* to the upper half yet.
LEMMA SplitLowers ==
    ASSUME BInv, NEW k \in Keys, NEW r \in Rids, MayInsert(k), inner # <<>>,
           NEW i, i = Child(k), NEW p, p = inner[i].child, Full(p),
           pageCount < MaxPages,
           leaf' = Split(p, pageCount, k, r)
    PROVE  LET q == pageCount
               lo == leaf'[p].entries
               hi == leaf'[q].entries
               a == MaxKey(leaf', p)
               b == MaxKey(leaf', q)
               in == WithKey(inner, i, a)
           IN  /\ i \in 2 .. Len(inner)
               /\ p \in Reached(inner, root)
               /\ q \in Pages /\ q \notin Reached(inner, root)
               /\ Divides(p, q, PairOf(k, r), leaf')
               /\ hi # <<>>
               /\ a \in Keys /\ b \in Keys /\ a < b
               /\ \A e \in PairsIn(lo) : e.key <= a
               /\ \A e \in PairsIn(hi) : a < e.key /\ e.key <= b
               /\ i < Len(inner) => b <= inner[i].key
               /\ Tree(inner, root, leaf')
               /\ Tree(in, root, leaf')
               /\ Lowers(inner, i, a, in)
               /\ Reached(in, root) = Reached(inner, root)
<1> DEFINE q == pageCount
           lo == leaf'[p].entries
           hi == leaf'[q].entries
           a == MaxKey(leaf', p)
           b == MaxKey(leaf', q)
           e == PairOf(k, r)
<1>1. Tree(inner, root, leaf) /\ TypeOK
    BY InvBasics
<1>2. i \in 2 .. Len(inner) /\ p = LeafIn(inner, root, k)
    BY <1>1, TreeOperators, DescentEnds DEF LeafIn
<1>3. p \in Reached(inner, root) /\ p \in Pages
    BY <1>2, InvBasics DEF Reached
<1>4. q \in Pages /\ q \notin Reached(inner, root) /\ p # q
    BY <1>3, InvBasics DEF Pages
<1>5. Divides(p, q, e, leaf')
    <2>1. PairsIn(leaf[p].entries) \subseteq Stored(inner, root, leaf)
        BY <1>3 DEF Stored
    <2>2. \A x \in PairsIn(leaf[p].entries) : x.key # k
        BY <2>1, NotStored
    <2>3. Ascending(leaf[p].entries)
        BY <1>3, InvBasics
    <2> QED
        BY <1>1, <1>3, <1>4, <2>2, <2>3, SplitDivides
<1>6. /\ leaf' \in [Pages -> LeafPage]
      /\ \A x \in Pages \ {p, q} : leaf'[x] = leaf[x]
      /\ Ascending(lo) /\ Ascending(hi)
      /\ lo # <<>> /\ hi # <<>>
      /\ PairsIn(lo) \cup PairsIn(hi) = PairsIn(leaf[p].entries) \cup {e}
      /\ \A x \in PairsIn(lo), y \in PairsIn(hi) : x.key < y.key
    BY <1>5 DEF Divides
<1>7. lo \in Seq(Pair) /\ hi \in Seq(Pair)
    BY <1>3, <1>4, <1>6 DEF LeafPage
<1>8. PICK x \in PairsIn(lo), y \in PairsIn(hi) :
        /\ x.key = a /\ y.key = b /\ a \in Keys /\ b \in Keys
        /\ \A z \in PairsIn(lo) : z.key <= a
        /\ \A z \in PairsIn(hi) : z.key <= b
    <2>1. /\ Last(lo) \in PairsIn(lo) /\ Last(lo).key \in Keys
          /\ \A z \in PairsIn(lo) : z.key <= Last(lo).key
        BY <1>6, <1>7, LastIsMax
    <2>2. /\ Last(hi) \in PairsIn(hi) /\ Last(hi).key \in Keys
          /\ \A z \in PairsIn(hi) : z.key <= Last(hi).key
        BY <1>6, <1>7, LastIsMax
    <2>3. a = Last(lo).key /\ b = Last(hi).key
        BY DEF MaxKey
    <2> QED
        BY <2>1, <2>2, <2>3
<1>9. a < b /\ \A z \in PairsIn(hi) : a < z.key
    BY <1>6, <1>8
<1> HIDE DEF q, lo, hi, a, b
<1>10. \A z \in PairsIn(lo) \cup PairsIn(hi) : Bounds(inner, i, z)
    <2>1. Bounds(inner, i, e)
        BY <1>1, <1>2, PairMayEnter DEF PairOf
    <2>2. \A z \in PairsIn(leaf[p].entries) : Bounds(inner, i, z)
        BY <1>1, <1>2 DEF Tree, Fits
    <2> QED
        BY <1>6, <2>1, <2>2
<1>11. Tree(inner, root, leaf')
    <2>1. \A j \in 2 .. Len(inner) : inner[j].child = p => j = i
        <3>1. \A j \in 2 .. Len(inner) : inner[j].child = LeafIn(inner, root, k) =>
                 j = ChildIn(inner, k)
            <4> SUFFICES ASSUME NEW j \in 2 .. Len(inner),
                                inner[j].child = LeafIn(inner, root, k)
                         PROVE  j = ChildIn(inner, k)
                OBVIOUS
            <4>1. e.key = k
                BY DEF PairOf
            <4> QED
                BY <1>1, <4>1, PairMayEnter
        <3> QED
            BY <1>2, <3>1, TreeOperators
    <2>2. \A page \in Pages : Ascending(leaf'[page].entries)
        BY <1>6, InvBasics DEF lo, hi
    <2>3. \A page \in Reached(inner, root) \ {p} :
             leaf'[page].entries = leaf[page].entries
        BY <1>4, <1>6, InvBasics
    <2>4. \A j \in 2 .. Len(inner) : inner[j].child = p =>
             /\ leaf'[p].entries # <<>>
             /\ \A z \in PairsIn(leaf'[p].entries) : Bounds(inner, j, z)
        BY <1>6, <1>10, <2>1 DEF lo
    <2>5. leaf' \in [Pages -> LeafPage]
        BY <1>6
    <2> QED
        BY <1>1, <2>2, <2>3, <2>4, <2>5, LeafReplaced
<1>12. /\ i > 2 => inner[i - 1].key < a
       /\ i < Len(inner) => a <= inner[i].key
       /\ i < Len(inner) => b <= inner[i].key
    BY <1>8, <1>10 DEF Bounds
<1>13. \A z \in PairsIn(leaf'[inner[i].child].entries) : z.key <= a
    BY <1>8 DEF lo
<1> DEFINE in == WithKey(inner, i, a)
<1>14. in = WithKey(inner, i, a) /\ a \in Keys /\ inner # <<>>
    BY <1>8
<1> HIDE DEF in
<1>15. /\ Tree(in, root, leaf')
       /\ Lowers(inner, i, a, in)
       /\ Reached(in, root) = Reached(inner, root)
    <2>1. MayLower(inner, i, a, leaf')
        BY <1>12, <1>13 DEF MayLower
    <2>2. i \in 2 .. Len(inner)
        BY <1>2
    <2> QED
        BY <1>11, <1>14, <2>1, <2>2, SeparatorLowered
<1> QED
    BY <1>2, <1>3, <1>4, <1>5, <1>6, <1>8, <1>9, <1>11, <1>12, <1>15
    DEF q, lo, hi, a, b, in

\* The upper half gets its entry.
LEMMA SplitLeafKeeps ==
    ASSUME BInv, NEW k \in Keys, NEW r \in Rids, SplitLeaf(k, r)
    PROVE  /\ BInv'
           /\ Stored(inner', root', leaf') =
                Stored(inner, root, leaf) \cup {PairOf(k, r)}
<1> DEFINE i == Child(k)
           p == inner[i].child
           q == pageCount
           lo == leaf'[p].entries
           hi == leaf'[q].entries
           a == MaxKey(leaf', p)
           b == MaxKey(leaf', q)
           e == PairOf(k, r)
           in == WithKey(inner, i, a)
<1>1. /\ MayInsert(k)
      /\ inner # <<>> /\ Full(p)
      /\ Len(inner) < InnerMax
      /\ pageCount < MaxPages
      /\ leaf' = Split(p, q, k, r)
      /\ inner' = WithEntry(in, i + 1, b, q)
      /\ pageCount' = pageCount + 1
      /\ threw' = FALSE
      /\ UNCHANGED <<root, removed>>
    BY DEF SplitLeaf, WithKey
<1>2. /\ i \in 2 .. Len(inner)
      /\ p \in Reached(inner, root)
      /\ q \in Pages /\ q \notin Reached(inner, root)
      /\ Divides(p, q, e, leaf')
      /\ hi # <<>>
      /\ a \in Keys /\ b \in Keys /\ a < b
      /\ \A z \in PairsIn(lo) : z.key <= a
      /\ \A z \in PairsIn(hi) : a < z.key /\ z.key <= b
      /\ i < Len(inner) => b <= inner[i].key
      /\ Tree(inner, root, leaf')
      /\ Tree(in, root, leaf')
      /\ Lowers(inner, i, a, in)
      /\ Reached(in, root) = Reached(inner, root)
    BY <1>1, SplitLowers
<1>3. /\ leaf' \in [Pages -> LeafPage]
      /\ \A x \in Pages \ {p, q} : leaf'[x] = leaf[x]
      /\ Len(lo) <= LeafMax /\ Len(hi) <= LeafMax
      /\ PairsIn(lo) \cup PairsIn(hi) = PairsIn(leaf[p].entries) \cup {e}
    BY <1>2 DEF Divides
<1>4. p = inner[i].child
    OBVIOUS
<1> HIDE DEF i, p, q, lo, hi, a, b, e, in
<1>5. /\ Len(inner) \in Nat /\ Len(in) = Len(inner)
      /\ i \in 2 .. Len(in)
      /\ in[i].key = a /\ in[i].child = p
    BY <1>2, <1>4, InvBasics DEF Lowers
<1>6. i < Len(in) =>
        /\ i + 1 \in 2 .. Len(inner)
        /\ in[i + 1].key = inner[i + 1].key
        /\ in[i + 1].child = inner[i + 1].child
    <2>1. i < Len(in) => i + 1 \in 2 .. Len(inner) /\ i + 1 # i
        BY <1>5
    <2> QED
        BY <1>2, <1>5, <2>1 DEF Lowers
<1>7. i < Len(in) => b < in[i + 1].key
    <2> SUFFICES ASSUME i < Len(in) PROVE b < in[i + 1].key
        OBVIOUS
    <2>1. inner[i].key < inner[i + 1].key
        BY <1>1, <1>2, <1>5, <1>6 DEF Tree, Fits
    <2>2. inner[i].key \in Nat /\ inner[i + 1].key \in Nat
        <3>1. \A j \in 1 .. Len(inner) : inner[j].key \in Nat
            BY <1>2, TreeBasics
        <3>2. i \in 1 .. Len(inner) /\ i + 1 \in 1 .. Len(inner)
            BY <1>5, <1>6
        <3> QED
            BY <3>1, <3>2
    <2> QED
        BY <1>2, <1>5, <1>6, <2>1, <2>2
<1>8. i < Len(in) => \A z \in PairsIn(leaf'[in[i + 1].child].entries) : b < z.key
    <2> SUFFICES ASSUME i < Len(in),
                        NEW z \in PairsIn(leaf'[inner[i + 1].child].entries)
                 PROVE  b < z.key
        BY <1>6
    <2> DEFINE j == i + 1
    <2>1. j \in 2 .. Len(inner) /\ j > 2 /\ j - 1 = i
        BY <1>5, <1>6
    <2>2. z \in PairsIn(leaf'[inner[j].child].entries)
        OBVIOUS
    <2> HIDE DEF j
    <2>3. Bounds(inner, j, z)
        BY <1>1, <1>2, <2>1, <2>2 DEF Tree, Fits
    <2>4. inner[i].key < z.key
        BY <2>1, <2>3 DEF Bounds
    <2>5. inner[i].key \in Nat /\ z.key \in Nat
        <3>1. \A x \in 1 .. Len(inner) : inner[x].key \in Nat /\ inner[x].child \in Pages
            BY <1>2, TreeBasics
        <3>2. i \in 1 .. Len(inner) /\ j \in 1 .. Len(inner)
            BY <1>2, <1>5, <2>1
        <3>3. leaf'[inner[j].child].entries \in Seq(Pair)
            BY <1>2, <3>1, <3>2, TreeBasics
        <3>4. z \in Pair
            BY <2>2, <3>3, LeafBasics
        <3> QED
            BY <3>1, <3>2, <3>4 DEF Pair
    <2>6. b <= inner[i].key /\ b \in Nat
        BY <1>2, <1>5
    <2> QED
        BY <2>4, <2>5, <2>6
<1>9. in # <<>> /\ \A z \in PairsIn(leaf'[in[i].child].entries) : z.key <= in[i].key
    <2>1. Len(<<>>) = 0
        OBVIOUS
    <2> QED
        BY <1>2, <1>5, <2>1 DEF lo
<1>10. /\ Tree(inner', root, leaf')
       /\ Len(inner') = Len(in) + 1
       /\ Reached(inner', root) = Reached(in, root) \cup {q}
    <2>1. \A z \in PairsIn(leaf'[q].entries) : in[i].key < z.key /\ z.key <= b
        BY <1>2, <1>5 DEF hi
    <2>2. leaf'[q].entries # <<>> /\ in[i].key < b
        BY <1>2, <1>5 DEF hi
    <2>3. /\ Tree(WithEntry(in, i + 1, b, q), root, leaf')
          /\ Len(WithEntry(in, i + 1, b, q)) = Len(in) + 1
          /\ Reached(WithEntry(in, i + 1, b, q), root) = Reached(in, root) \cup {q}
        BY <1>2, <1>5, <1>7, <1>8, <1>9, <2>1, <2>2, EntryAdded
    <2> QED
        BY <1>1, <2>3
<1>11. BInv'
    <2>1. \A x \in Pages : Len(leaf'[x].entries) <= LeafMax
        BY <1>3, InvBasics DEF lo, hi
    <2>2. \A x \in Reached(inner', root) : x < pageCount'
        <3>1. \A x \in Reached(inner, root) : x < pageCount /\ x \in Nat
            BY InvBasics DEF Pages
        <3> QED
            BY <1>1, <1>2, <1>10, <3>1, InvBasics DEF q
    <2>3. Len(inner') <= InnerMax
        BY <1>1, <1>5, <1>10
    <2>4. pageCount' \in 2 .. MaxPages
        BY <1>1, InvBasics
    <2> QED
        BY <1>1, <1>10, <2>1, <2>2, <2>3, <2>4, InvBasics, NextTree
<1>12. Stored(inner', root, leaf') = Stored(inner, root, leaf) \cup {e}
    <2>1. \A x \in Reached(inner, root) \ {p} : leaf'[x] = leaf[x]
        BY <1>2, <1>3, InvBasics
    <2>2. \A z : z \in Stored(inner', root, leaf') <=>
            \E x \in Reached(inner, root) \cup {q} : z \in PairsIn(leaf'[x].entries)
        BY <1>2, <1>10 DEF Stored
    <2>3. \A z : z \in Stored(inner, root, leaf) <=>
            \E x \in Reached(inner, root) : z \in PairsIn(leaf[x].entries)
        BY DEF Stored
    <2>4. PairsIn(leaf'[p].entries) \cup PairsIn(leaf'[q].entries) =
            PairsIn(leaf[p].entries) \cup {e}
        BY <1>3 DEF lo, hi
    <2>5. ASSUME NEW z \in Stored(inner', root, leaf')
          PROVE  z \in Stored(inner, root, leaf) \cup {e}
        <3>1. PICK x \in Reached(inner, root) \cup {q} :
                    z \in PairsIn(leaf'[x].entries)
            BY <2>2
        <3>2. CASE x \in {p, q}
            BY <1>2, <2>3, <2>4, <3>1, <3>2
        <3>3. CASE x \notin {p, q}
            BY <2>1, <2>3, <3>1, <3>3
        <3> QED
            BY <3>2, <3>3
    <2>6. ASSUME NEW z \in Stored(inner, root, leaf) \cup {e}
          PROVE  z \in Stored(inner', root, leaf')
        <3>1. CASE z = e \/ z \in PairsIn(leaf[p].entries)
            BY <1>2, <2>2, <2>4, <3>1
        <3>2. CASE z # e /\ z \notin PairsIn(leaf[p].entries)
            <4>1. PICK x \in Reached(inner, root) : z \in PairsIn(leaf[x].entries)
                BY <2>3, <3>2
            <4>2. x \in Reached(inner, root) \ {p}
                BY <3>2, <4>1
            <4> QED
                BY <2>1, <2>2, <4>1, <4>2
        <3> QED
            BY <3>1, <3>2
    <2> QED
        BY <2>5, <2>6
<1> QED
    BY <1>1, <1>11, <1>12 DEF e

\* The upper half is lost.
LEMMA SplitThrowsKeeps ==
    ASSUME BInv, NEW k \in Keys, NEW r \in Rids, SplitThrows(k, r)
    PROVE  /\ BInv'
           /\ Stored(inner', root', leaf') \subseteq
                Stored(inner, root, leaf) \cup {PairOf(k, r)}
<1> DEFINE i == Child(k)
           p == inner[i].child
           q == pageCount
           a == MaxKey(leaf', p)
           e == PairOf(k, r)
           in == WithKey(inner, i, a)
<1>1. /\ MayInsert(k)
      /\ inner # <<>> /\ Full(p)
      /\ pageCount < MaxPages
      /\ leaf' = Split(p, q, k, r)
      /\ inner' = in
      /\ pageCount' = pageCount + 1
      /\ threw' = TRUE
      /\ UNCHANGED <<root, removed>>
    BY DEF SplitThrows, WithKey
<1>2. /\ p \in Reached(inner, root)
      /\ q \in Pages /\ q \notin Reached(inner, root)
      /\ Divides(p, q, e, leaf')
      /\ Tree(in, root, leaf')
      /\ Lowers(inner, i, a, in)
      /\ Reached(in, root) = Reached(inner, root)
    BY <1>1, SplitLowers
<1>3. /\ \A x \in Pages \ {p, q} : leaf'[x] = leaf[x]
      /\ \A x \in {p, q} : Len(leaf'[x].entries) <= LeafMax
      /\ PairsIn(leaf'[p].entries) \subseteq PairsIn(leaf[p].entries) \cup {e}
    BY <1>2 DEF Divides
<1> HIDE DEF i, p, q, a, e, in
<1>4. BInv'
    <2>1. \A x \in Pages : Len(leaf'[x].entries) <= LeafMax
        BY <1>3, InvBasics
    <2>2. \A x \in Reached(inner', root') : x < pageCount'
        <3>1. \A x \in Reached(inner, root) : x < pageCount /\ x \in Nat
            BY InvBasics DEF Pages
        <3> QED
            BY <1>1, <1>2, <3>1, InvBasics
    <2>3. Len(inner') <= InnerMax
        BY <1>1, <1>2, InvBasics DEF Lowers
    <2>4. pageCount' \in 2 .. MaxPages
        BY <1>1, InvBasics
    <2> QED
        BY <1>1, <1>2, <2>1, <2>2, <2>3, <2>4, InvBasics, NextTree
<1>5. Stored(in, root, leaf') \subseteq Stored(inner, root, leaf) \cup {e}
    <2>1. \A x \in Reached(inner, root) \ {p} : leaf'[x] = leaf[x]
        BY <1>2, <1>3, InvBasics
    <2> QED
        BY <1>2, <1>3, <2>1 DEF Stored
<1> QED
    BY <1>1, <1>4, <1>5 DEF e

\* The leaf p is the one of key k, and pages are the leaves without its pair.
TakesOut(p, k, pages) ==
    /\ p \in Reached(inner, root) /\ p \in Pages
    /\ p = LeafIn(inner, root, k)
    /\ pages \in [Pages -> LeafPage]
    /\ \A x \in Pages \ {p} : pages[x] = leaf[x]
    /\ Ascending(pages[p].entries)
    /\ Len(leaf[p].entries) \in Nat
    /\ Len(pages[p].entries) = Len(leaf[p].entries) - 1
    /\ PairsIn(pages[p].entries) =
         {e \in PairsIn(leaf[p].entries) : e.key # k}
    /\ \E e \in PairsIn(leaf[p].entries) : e.key = k

\* The leaf without the pair of the key.
LEMMA TakenEffect ==
    ASSUME BInv, NEW k \in Keys, Lookup(k) # NoRid, NEW p, p = LeafOf(k),
           NEW pages, pages = Taken(p, k)
    PROVE  TakesOut(p, k, pages)
<1> DEFINE s == leaf[p].entries
           t == RemoveAt(s, LowerBound(s, k, 1))
<1>1. Tree(inner, root, leaf) /\ leaf \in [Pages -> LeafPage]
    BY InvBasics
<1>2. p \in Reached(inner, root) /\ p \in Pages /\ p = LeafIn(inner, root, k)
    BY <1>1, TreeOperators, LookupFinds, TreeBasics
<1>3. s \in Seq(Pair) /\ Ascending(s) /\ Len(s) \in Nat
    BY <1>2, InvBasics
<1>4. PICK e \in PairsIn(s) : e.key = k
    BY IsStored DEF PairOf
<1>5. /\ t \in Seq(Pair)
      /\ Ascending(t)
      /\ Len(t) = Len(s) - 1
      /\ PairsIn(t) = {x \in PairsIn(s) : x.key # k}
    BY <1>3, <1>4, TakenFromLeaf
<1>6. pages = [leaf EXCEPT ![p].entries = t]
    BY DEF Taken
<1> HIDE DEF s, t
<1>7. /\ pages \in [Pages -> LeafPage]
      /\ pages[p].entries = t
      /\ \A x \in Pages \ {p} : pages[x] = leaf[x]
    <2>1. [leaf[p] EXCEPT !.entries = t] \in LeafPage
          /\ [leaf[p] EXCEPT !.entries = t].entries = t
        BY <1>1, <1>2, <1>5 DEF LeafPage
    <2>2. pages = [leaf EXCEPT ![p] = [leaf[p] EXCEPT !.entries = t]]
        BY <1>6
    <2> QED
        BY <1>1, <1>2, <2>1, <2>2
<1> QED
    BY <1>2, <1>3, <1>4, <1>5, <1>7 DEF s, TakesOut

\* Taking a leaf out of the chain changes no pair.
LEMMA UnlinkedKeeps ==
    ASSUME NEW pages \in [Pages -> LeafPage], NEW p \in Pages
    PROVE  /\ Unlinked(pages, p) \in [Pages -> LeafPage]
           /\ \A x \in Pages : Unlinked(pages, p)[x].entries = pages[x].entries
<1> SUFFICES ASSUME NEW x \in Pages
             PROVE  /\ Unlinked(pages, p)[x] \in LeafPage
                    /\ Unlinked(pages, p)[x].entries = pages[x].entries
    BY DEF Unlinked
<1> DEFINE next == IF x = pages[p].prev THEN pages[p].next ELSE pages[x].next
           prev == IF x = pages[p].next THEN pages[p].prev ELSE pages[x].prev
<1>1. pages[x] \in LeafPage /\ pages[p] \in LeafPage
    OBVIOUS
<1>2. next \in Pages \cup {InvalidPage} /\ prev \in Pages \cup {InvalidPage}
    BY <1>1 DEF LeafPage
<1>3. Unlinked(pages, p)[x] = [pages[x] EXCEPT !.next = next, !.prev = prev]
    BY DEF Unlinked
<1> HIDE DEF next, prev
<1> QED
    BY <1>1, <1>2, <1>3 DEF LeafPage

LEMMA RemovePairKeeps ==
    ASSUME BInv, NEW k \in Keys, RemovePair(k)
    PROVE  /\ BInv'
           /\ Stored(inner', root', leaf') =
                {e \in Stored(inner, root, leaf) : e.key # k}
<1> DEFINE p == LeafOf(k)
           s == leaf[p].entries
           t == leaf'[p].entries
<1>1. /\ Lookup(k) # NoRid
      /\ Len(s) > 1 \/ inner = <<>>
      /\ leaf' = Taken(p, k)
      /\ removed' = TRUE /\ threw' = FALSE
      /\ UNCHANGED <<root, inner, pageCount>>
    BY DEF RemovePair
<1>2. /\ p \in Reached(inner, root) /\ p \in Pages
      /\ p = LeafIn(inner, root, k)
      /\ leaf' \in [Pages -> LeafPage]
      /\ \A x \in Pages \ {p} : leaf'[x] = leaf[x]
      /\ Ascending(t)
      /\ Len(s) \in Nat
      /\ Len(t) = Len(s) - 1
      /\ PairsIn(t) = {e \in PairsIn(s) : e.key # k}
    <2>1. p = LeafOf(k) /\ leaf' = Taken(p, k) /\ Lookup(k) # NoRid
        BY <1>1
    <2> HIDE DEF p
    <2>2. TakesOut(p, k, leaf')
        BY <2>1, TakenEffect
    <2> QED
        BY <2>2 DEF TakesOut
<1> HIDE DEF p, s, t
<1>3. Tree(inner, root, leaf)
    BY InvBasics
<1>4. Tree(inner, root, leaf')
    <2>1. \A x \in Pages : Ascending(leaf'[x].entries)
        BY <1>2, InvBasics DEF t
    <2>2. \A x \in Reached(inner, root) \ {p} : leaf'[x].entries = leaf[x].entries
        BY <1>2, InvBasics
    <2>3. ASSUME NEW i \in 2 .. Len(inner), inner[i].child = p
          PROVE  /\ leaf'[p].entries # <<>>
                 /\ \A e \in PairsIn(leaf'[p].entries) : Bounds(inner, i, e)
        <3>1. inner # <<>> /\ Len(<<>>) = 0
            <4>1. Len(<<>>) = 0
                OBVIOUS
            <4> QED
                BY <4>1, InvBasics
        <3>2. \A e \in PairsIn(s) : Bounds(inner, i, e)
            BY <1>3, <2>3, <3>1 DEF Tree, Fits, s
        <3>3. t # <<>>
            BY <1>1, <1>2, <3>1
        <3> QED
            BY <1>2, <3>2, <3>3 DEF t
    <2>4. leaf' \in [Pages -> LeafPage]
        BY <1>2
    <2> QED
        BY <1>3, <2>1, <2>2, <2>3, <2>4, LeafReplaced
<1>5. BInv'
    <2>1. \A x \in Pages : Len(leaf'[x].entries) <= LeafMax
        <3>1. Len(s) <= LeafMax
            BY <1>2, InvBasics DEF s
        <3>2. Len(t) <= LeafMax
            BY <1>2, <3>1
        <3> QED
            BY <1>2, <3>2, InvBasics DEF t
    <2> QED
        BY <1>1, <1>4, <2>1, InvBasics, NextTree
<1>6. Stored(inner, root, leaf') = {e \in Stored(inner, root, leaf) : e.key # k}
    <2>1. \A x \in Reached(inner, root) \ {p} : leaf'[x] = leaf[x]
        BY <1>2, InvBasics
    <2>2. \A x \in Reached(inner, root) \ {p} : \A e \in PairsIn(leaf[x].entries) :
             e.key # k
        BY <1>2, <1>3, OnlyLeaf
    <2>3. PairsIn(leaf'[p].entries) = {e \in PairsIn(leaf[p].entries) : e.key # k}
        BY <1>2 DEF s, t
    <2>4. \A z : z \in Stored(inner, root, leaf') <=>
            \E x \in Reached(inner, root) : z \in PairsIn(leaf'[x].entries)
        BY DEF Stored
    <2>5. \A z : z \in Stored(inner, root, leaf) <=>
            \E x \in Reached(inner, root) : z \in PairsIn(leaf[x].entries)
        BY DEF Stored
    <2>6. ASSUME NEW x \in Reached(inner, root)
          PROVE  \A z : z \in PairsIn(leaf'[x].entries) <=>
                          z \in PairsIn(leaf[x].entries) /\ z.key # k
        <3>1. CASE x = p
            BY <2>3, <3>1
        <3>2. CASE x # p
            BY <2>1, <2>2, <3>2
        <3> QED
            BY <3>1, <3>2
    <2> QED
        BY <2>4, <2>5, <2>6
<1> QED
    BY <1>1, <1>5, <1>6

\* What is stored is what the leaves that stay hold.
LEMMA LeafDropped ==
    ASSUME BInv, NEW k \in Keys, EmptiesLeaf(k)
    PROVE  LET p == LeafOf(k) IN
           /\ inner # <<>>
           /\ Child(k) \in 2 .. Len(inner)
           /\ p = inner[Child(k)].child
           /\ p \in Reached(inner, root) /\ p \in Pages
           /\ Unlinked(Taken(p, k), p) \in [Pages -> LeafPage]
           /\ \A x \in Pages \ {p} :
                Unlinked(Taken(p, k), p)[x].entries = leaf[x].entries
           /\ Unlinked(Taken(p, k), p)[p].entries = <<>>
           /\ {e \in Stored(inner, root, leaf) : e.key # k} =
                UNION {PairsIn(leaf[x].entries) : x \in Reached(inner, root) \ {p}}
<1> DEFINE p == LeafOf(k)
           pages == Taken(p, k)
<1>1. /\ Lookup(k) # NoRid
      /\ inner # <<>>
      /\ Len(leaf[p].entries) = 1
    BY DEF EmptiesLeaf
<1>2. Child(k) \in 2 .. Len(inner)
    BY <1>1, InvBasics, TreeOperators, DescentEnds
<1>3. p = inner[Child(k)].child
    BY <1>1 DEF LeafOf
<1>4. /\ p \in Reached(inner, root) /\ p \in Pages
      /\ p = LeafIn(inner, root, k)
      /\ pages \in [Pages -> LeafPage]
      /\ \A x \in Pages \ {p} : pages[x] = leaf[x]
      /\ Len(pages[p].entries) = Len(leaf[p].entries) - 1
      /\ \E e \in PairsIn(leaf[p].entries) : e.key = k
    <2>1. p = LeafOf(k) /\ pages = Taken(p, k)
        OBVIOUS
    <2>2. Lookup(k) # NoRid
        BY <1>1
    <2> HIDE DEF p, pages
    <2>3. TakesOut(p, k, pages)
        BY <2>1, <2>2, TakenEffect
    <2> QED
        BY <2>3 DEF TakesOut
<1> HIDE DEF p, pages
<1>5. pages[p].entries = <<>>
    <2>1. pages[p].entries \in Seq(Pair)
        BY <1>4 DEF LeafPage
    <2> QED
        BY <1>1, <1>4, <2>1
<1>6. /\ Unlinked(pages, p) \in [Pages -> LeafPage]
      /\ \A x \in Pages \ {p} : Unlinked(pages, p)[x].entries = leaf[x].entries
      /\ Unlinked(pages, p)[p].entries = <<>>
    <2>1. /\ Unlinked(pages, p) \in [Pages -> LeafPage]
          /\ \A x \in Pages : Unlinked(pages, p)[x].entries = pages[x].entries
        BY <1>4, UnlinkedKeeps
    <2> QED
        BY <1>4, <1>5, <2>1
<1>7. \A z \in PairsIn(leaf[p].entries) : z.key = k
    <2>1. PairsIn(leaf[p].entries) = {leaf[p].entries[1]}
        BY <1>1 DEF PairsIn
    <2> QED
        BY <1>4, <2>1
<1>8. \A x \in Reached(inner, root) \ {p} : \A e \in PairsIn(leaf[x].entries) :
         e.key # k
    BY <1>4, InvBasics, OnlyLeaf
<1>9. {e \in Stored(inner, root, leaf) : e.key # k} =
        UNION {PairsIn(leaf[x].entries) : x \in Reached(inner, root) \ {p}}
    <2>1. \A z : z \in Stored(inner, root, leaf) <=>
            \E x \in Reached(inner, root) : z \in PairsIn(leaf[x].entries)
        BY DEF Stored
    <2>2. \A z : z \in UNION {PairsIn(leaf[x].entries) :
                                x \in Reached(inner, root) \ {p}} <=>
            \E x \in Reached(inner, root) \ {p} : z \in PairsIn(leaf[x].entries)
        OBVIOUS
    <2>3. ASSUME NEW z
          PROVE  z \in Stored(inner, root, leaf) /\ z.key # k <=>
                   \E x \in Reached(inner, root) \ {p} : z \in PairsIn(leaf[x].entries)
        BY <1>7, <1>8, <2>1
    <2> QED
        BY <2>2, <2>3
<1> QED
    BY <1>1, <1>2, <1>3, <1>4, <1>6, <1>9 DEF p, pages

LEMMA RemoveLeafKeeps ==
    ASSUME BInv, NEW k \in Keys, RemoveLeaf(k)
    PROVE  /\ BInv'
           /\ Stored(inner', root', leaf') =
                {e \in Stored(inner, root, leaf) : e.key # k}
<1> DEFINE p == LeafOf(k)
           i == Child(k)
           R == Reached(inner, root)
<1>1. /\ EmptiesLeaf(k)
      /\ Len(inner) > 2
      /\ leaf' = Unlinked(Taken(p, k), p)
      /\ inner' = RemoveAt(inner, i)
      /\ removed' = TRUE /\ threw' = FALSE
      /\ UNCHANGED <<root, pageCount>>
    BY DEF RemoveLeaf, WithoutEntry
<1>2. /\ inner # <<>>
      /\ i \in 2 .. Len(inner)
      /\ p = inner[i].child
      /\ p \in R /\ p \in Pages
      /\ leaf' \in [Pages -> LeafPage]
      /\ \A x \in Pages \ {p} : leaf'[x].entries = leaf[x].entries
      /\ leaf'[p].entries = <<>>
      /\ {e \in Stored(inner, root, leaf) : e.key # k} =
           UNION {PairsIn(leaf[x].entries) : x \in R \ {p}}
    BY <1>1, LeafDropped
<1> HIDE DEF p, i, R
<1>3. Tree(inner, root, leaf) /\ R \subseteq Pages
    BY InvBasics DEF R
<1>4. /\ Tree(inner', root, leaf)
      /\ Len(inner') = Len(inner) - 1
      /\ Reached(inner', root) = R \ {p}
    <2>1. /\ Tree(RemoveAt(inner, i), root, leaf)
          /\ Len(RemoveAt(inner, i)) = Len(inner) - 1
          /\ Reached(RemoveAt(inner, i), root) = Reached(inner, root) \ {inner[i].child}
        BY <1>1, <1>2, <1>3, EntryDropped
    <2> QED
        BY <1>1, <1>2, <2>1 DEF R
<1>5. \A x \in Pages : /\ Ascending(leaf'[x].entries)
                       /\ Len(leaf'[x].entries) <= LeafMax
    <2>1. Ascending(<<>>) /\ Len(<<>>) = 0
        BY DEF Ascending
    <2> QED
        BY <1>2, <2>1, InvBasics
<1>6. Tree(inner', root, leaf')
    <2>1. \A x \in Reached(inner', root) \ {p} : leaf'[x].entries = leaf[x].entries
        BY <1>2, <1>3, <1>4
    <2>2. \A j \in 2 .. Len(inner') : inner'[j].child # p
        <3>1. inner' # <<>>
            <4>1. Len(<<>>) = 0
                OBVIOUS
            <4> QED
                BY <1>1, <1>4, <4>1, InvBasics
        <3> QED
            BY <1>4, <3>1 DEF Reached
    <2>3. \A x \in Pages : Ascending(leaf'[x].entries)
        BY <1>5
    <2> QED
        BY <1>2, <1>4, <2>1, <2>2, <2>3, LeafReplaced
<1>7. BInv'
    <2>1. \A x \in Reached(inner', root') : x < pageCount'
        BY <1>1, <1>4, InvBasics DEF R
    <2>2. Len(inner') <= InnerMax
        BY <1>4, InvBasics
    <2> QED
        BY <1>1, <1>5, <1>6, <2>1, <2>2, InvBasics, NextTree
<1>8. Stored(inner', root, leaf') =
        UNION {PairsIn(leaf[x].entries) : x \in R \ {p}}
    <2>1. \A x \in R \ {p} : PairsIn(leaf'[x].entries) = PairsIn(leaf[x].entries)
        BY <1>2, <1>3
    <2> QED
        BY <1>4, <2>1 DEF Stored
<1> QED
    BY <1>1, <1>2, <1>7, <1>8

LEMMA RemoveLastKeeps ==
    ASSUME BInv, NEW k \in Keys, RemoveLast(k)
    PROVE  /\ BInv'
           /\ Stored(inner', root', leaf') =
                {e \in Stored(inner, root, leaf) : e.key # k}
<1> DEFINE p == LeafOf(k)
           q == pageCount
           pages == Unlinked(Taken(p, k), p)
<1>1. /\ EmptiesLeaf(k)
      /\ Len(inner) = 2
      /\ pageCount < MaxPages
      /\ leaf' = [pages EXCEPT ![q] = FreshRoot]
      /\ inner' = <<>>
      /\ root' = q
      /\ pageCount' = pageCount + 1
      /\ removed' = TRUE /\ threw' = FALSE
    BY DEF RemoveLast
<1>2. /\ inner # <<>>
      /\ Child(k) \in 2 .. Len(inner)
      /\ p = inner[Child(k)].child
      /\ pages \in [Pages -> LeafPage]
      /\ \A x \in Pages \ {p} : pages[x].entries = leaf[x].entries
      /\ pages[p].entries = <<>>
      /\ {e \in Stored(inner, root, leaf) : e.key # k} =
           UNION {PairsIn(leaf[x].entries) : x \in Reached(inner, root) \ {p}}
    BY <1>1, LeafDropped
<1> HIDE DEF p, pages
<1>3. Reached(inner, root) = {p}
    BY <1>1, <1>2 DEF Reached
<1>4. {e \in Stored(inner, root, leaf) : e.key # k} = {}
    BY <1>2, <1>3
<1>5. q \in Pages /\ pageCount' \in 2 .. MaxPages /\ q \in Nat
    BY <1>1, InvBasics DEF Pages
<1>6. FreshRoot \in LeafPage /\ FreshRoot.entries = <<>>
    <2>1. <<>> \in Seq(Pair)
        OBVIOUS
    <2> QED
        BY <2>1 DEF FreshRoot, LeafPage
<1>7. /\ leaf' \in [Pages -> LeafPage]
      /\ leaf'[q].entries = <<>>
      /\ \A x \in Pages \ {q} : leaf'[x] = pages[x]
    BY <1>1, <1>2, <1>5, <1>6
<1>8. Ascending(<<>>) /\ Len(<<>>) = 0 /\ PairsIn(<<>>) = {}
    BY DEF Ascending, PairsIn
<1>9. \A x \in Pages : /\ Ascending(leaf'[x].entries)
                       /\ Len(leaf'[x].entries) <= LeafMax
    <2>1. \A x \in Pages : leaf'[x].entries \in {<<>>, leaf[x].entries}
        BY <1>2, <1>7
    <2> QED
        BY <1>8, <2>1, InvBasics
<1>10. Tree(inner', root', leaf')
    <2>1. inner' \in Seq(InnerEntry)
        BY <1>1
    <2> QED
        BY <1>1, <1>5, <1>7, <1>9, <2>1 DEF Tree, Fits
<1>11. Reached(inner', root') = {q}
    BY <1>1 DEF Reached
<1>12. BInv'
    <2>1. Len(inner') <= InnerMax
        BY <1>1, <1>8
    <2>2. \A x \in Reached(inner', root') : x < pageCount'
        BY <1>1, <1>5, <1>11
    <2> QED
        BY <1>1, <1>5, <1>9, <1>10, <2>1, <2>2, NextTree
<1>13. Stored(inner', root', leaf') = {}
    BY <1>7, <1>8, <1>11 DEF Stored
<1> QED
    BY <1>4, <1>12, <1>13

-----------------------------------------------------------------------------
(* The invariant and the map                                               *)

LEMMA InitBInv == Init => BInv /\ Stored(inner, root, leaf) = {}
<1> SUFFICES ASSUME Init PROVE BInv /\ Stored(inner, root, leaf) = {}
    OBVIOUS
<1>1. /\ root = 1 /\ inner = <<>> /\ pageCount = 2
      /\ removed = FALSE /\ threw = FALSE
      /\ leaf = [p \in Pages |-> IF p = 1 THEN FreshRoot ELSE ZeroPage]
      /\ 0 \in Pages /\ 1 \in Pages
    BY DEF Init, Pages
<1>2. /\ FreshRoot \in LeafPage /\ FreshRoot.entries = <<>>
      /\ ZeroPage \in LeafPage /\ ZeroPage.entries = <<>>
    <2>1. <<>> \in Seq(Pair)
        OBVIOUS
    <2> QED
        BY <1>1, <2>1 DEF FreshRoot, ZeroPage, LeafPage
<1>3. leaf \in [Pages -> LeafPage] /\ \A p \in Pages : leaf[p].entries = <<>>
    BY <1>1, <1>2
<1>4. Ascending(<<>>) /\ Len(<<>>) = 0 /\ PairsIn(<<>>) = {}
    BY DEF Ascending, PairsIn
<1>5. Tree(inner, root, leaf)
    <2>1. inner \in Seq(InnerEntry)
        BY <1>1
    <2> QED
        BY <1>1, <1>3, <1>4, <2>1 DEF Tree, Fits
<1>6. Reached(inner, root) = {root}
    BY <1>1 DEF Reached
<1>7. TypeOK
    <2>1. /\ inner \in Seq([key : Keys \cup {InvalidKey}, child : Pages])
          /\ Len(inner) <= InnerMax
        BY <1>1, <1>4
    <2>2. /\ \A p \in Pages : Len(leaf[p].entries) <= LeafMax
          /\ pageCount \in 2 .. MaxPages
        BY <1>1, <1>3, <1>4
    <2> QED
        BY <1>1, <1>3, <2>1, <2>2 DEF TypeOK, LeafPage
<1> QED
    BY <1>1, <1>3, <1>4, <1>5, <1>6, <1>7 DEF BInv, Stored

\* Every step keeps the invariant.
LEMMA NextKeeps == BInv /\ [Next]_vars => BInv'
<1> SUFFICES ASSUME BInv, [Next]_vars PROVE BInv'
    OBVIOUS
<1>1. ASSUME NEW k \in Keys, NEW r \in Rids, InsertInLeaf(k, r) PROVE BInv'
    BY <1>1, InsertInLeafKeeps
<1>2. ASSUME NEW k \in Keys, NEW r \in Rids, SplitRoot(k, r) PROVE BInv'
    BY <1>2, SplitRootKeeps
<1>3. ASSUME NEW k \in Keys, NEW r \in Rids, SplitLeaf(k, r) PROVE BInv'
    BY <1>3, SplitLeafKeeps
<1>4. ASSUME NEW k \in Keys, NEW r \in Rids, SplitThrows(k, r) PROVE BInv'
    BY <1>4, SplitThrowsKeeps
<1>5. ASSUME NEW k \in Keys, RemoveNothing(k) PROVE BInv'
    BY <1>5, InvBasics, NextTree DEF RemoveNothing
<1>6. ASSUME NEW k \in Keys, RemovePair(k) PROVE BInv'
    BY <1>6, RemovePairKeeps
<1>7. ASSUME NEW k \in Keys, RemoveLeaf(k) PROVE BInv'
    BY <1>7, RemoveLeafKeeps
<1>8. ASSUME NEW k \in Keys, RemoveLast(k) PROVE BInv'
    BY <1>8, RemoveLastKeeps
<1>9. CASE UNCHANGED vars
    BY <1>9, InvBasics, NextTree DEF vars
<1> QED
    BY <1>1, <1>2, <1>3, <1>4, <1>5, <1>6, <1>7, <1>8, <1>9 DEF Next

\* BInv is an invariant of every history of inserts and removes.
THEOREM Invariance == Spec => []BInv
<1>1. Init => BInv
    BY InitBInv
<1> QED
    BY <1>1, NextKeeps, PTL DEF Spec

\* The ranges of the tree's state, of BTree and of its pages: no leaf and no
\* inner page ever holds more than fits.
THEOREM TypeCorrect == Spec => []TypeOK
<1>1. BInv => TypeOK
    BY DEF BInv
<1> QED
    BY <1>1, Invariance, PTL

\* Below the root every leaf lies between its separator and the one before,
\* and none is empty or reached twice.
LEMMA FitsBound == BInv => SeparatorsBound
<1> SUFFICES ASSUME BInv, inner # <<>>
             PROVE  /\ Len(inner) >= 2
                    /\ \A i, j \in 2 .. Len(inner) :
                          i < j => /\ inner[i].key < inner[j].key
                                   /\ inner[i].child # inner[j].child
                    /\ \A i \in 2 .. Len(inner) :
                          LET s == leaf[inner[i].child].entries IN
                          /\ s # <<>>
                          /\ i > 2 => inner[i - 1].key < s[1].key
                          /\ i < Len(inner) => Last(s).key <= inner[i].key
    BY DEF SeparatorsBound
<1>1. Tree(inner, root, leaf) /\ Fits(inner, leaf)
    BY InvBasics DEF Tree
<1>2. ASSUME NEW i \in 2 .. Len(inner), NEW s, s = leaf[inner[i].child].entries
      PROVE  /\ s # <<>>
             /\ i > 2 => inner[i - 1].key < s[1].key
             /\ i < Len(inner) => Last(s).key <= inner[i].key
    <2>1. s # <<>> /\ \A e \in PairsIn(s) : Bounds(inner, i, e)
        BY <1>1, <1>2 DEF Fits
    <2>2. s \in Seq(Pair) /\ Ascending(s)
        <3>1. inner[i].child \in Pages
            BY <1>1, InvBasics, TreeBasics
        <3> QED
            BY <1>2, <3>1, InvBasics
    <2>3. Last(s) \in PairsIn(s)
        BY <2>1, <2>2, LastIsMax
    <2>4. s[1] \in PairsIn(s)
        BY <2>1, <2>2 DEF PairsIn
    <2> QED
        BY <2>1, <2>3, <2>4 DEF Bounds
<1> QED
    BY <1>1, <1>2 DEF Fits

\* Every descent ends where its key belongs, after any splits, dropped leaves
\* and inserts that threw.
THEOREM DescentsEndRight == Spec => []SeparatorsBound
BY FitsBound, Invariance, PTL

-----------------------------------------------------------------------------
(* The tree implements the map                                             *)

Map == MapOf(inner, root, leaf)

LEMMA LookupIsMap ==
    /\ [k \in Keys |-> Lookup(k)] = Map
    /\ [k \in Keys |-> Lookup(k)]' = Map'
<1>1. \A k \in Keys : Lookup(k) = LookupIn(inner, root, leaf, k)
    BY TreeOperators
<1>2. \A k \in Keys : Lookup(k)' = LookupIn(inner', root', leaf', k)
    BY TreeOperators
<1> QED
    BY <1>1, <1>2 DEF Map, MapOf

LEMMA InitImplements == Init => Promise!Init
<1> SUFFICES ASSUME Init PROVE Promise!Init
    OBVIOUS
<1>1. BInv /\ Stored(inner, root, leaf) = {}
    BY InitBInv
<1>2. Map \in [Keys -> Rids \cup {NoRid}]
      /\ \A k \in Keys, r \in Rids : Map[k] # r
    BY <1>1, MapIs DEF BInv, Map
<1>3. Map = [k \in Keys |-> NoRid]
    BY <1>2
<1> QED
    BY <1>3, LookupIsMap DEF Init, Promise!Init

\* A step that adds the pair of a new key, whatever it did to the pages.
LEMMA AddImplements ==
    ASSUME BInv, BInv', NEW k \in Keys, NEW r \in Rids, MayInsert(k),
           Stored(inner', root', leaf') =
             Stored(inner, root, leaf) \cup {PairOf(k, r)},
           threw' = FALSE, removed' = removed
    PROVE  Promise!Next
<1>1. Map' = [Map EXCEPT ![k] = r]
    BY PairAdded DEF BInv, Map
<1>2. Map[k] = NoRid /\ Map \in [Keys -> Rids \cup {NoRid}]
    BY NotStored, MapIs DEF BInv, Map
<1>3. Map'[k] = r
    BY <1>1, <1>2
<1>4. Promise!Insert(k, r)
    BY <1>1, <1>2, <1>3, LookupIsMap DEF Promise!Insert, Promise!Becomes
<1> QED
    BY <1>4 DEF Promise!Next

\* A step that takes the pair of a key out.
LEMMA RemoveImplements ==
    ASSUME BInv, BInv', NEW k \in Keys, Lookup(k) # NoRid,
           Stored(inner', root', leaf') =
             {e \in Stored(inner, root, leaf) : e.key # k},
           threw' = FALSE, removed' = TRUE
    PROVE  Promise!Next
<1>1. Map' = [Map EXCEPT ![k] = NoRid]
    BY KeyRemoved DEF BInv, Map
<1>2. Map[k] # NoRid /\ Map \in [Keys -> Rids \cup {NoRid}]
    BY TreeOperators, MapIs DEF BInv, Map, MapOf
<1>3. Map'[k] = NoRid
    BY <1>1, <1>2
<1>4. Promise!Remove(k)
    BY <1>1, <1>2, <1>3, LookupIsMap DEF Promise!Remove, Promise!Becomes
<1> QED
    BY <1>4 DEF Promise!Next

LEMMA ThrowImplements ==
    ASSUME BInv, NEW k \in Keys, NEW r \in Rids, SplitThrows(k, r)
    PROVE  Promise!Next
<1>1. /\ BInv'
      /\ Stored(inner', root', leaf') \subseteq
           Stored(inner, root, leaf) \cup {PairOf(k, r)}
    BY SplitThrowsKeeps
<1>2. MayInsert(k) /\ threw' = TRUE /\ removed' = removed
    BY DEF SplitThrows
<1>3. Map[k] = NoRid
    BY <1>2, NotStored DEF Map
<1>4. Map' \in [Keys -> Rids \cup {NoRid}]
    BY <1>1, MapIs DEF BInv, Map
<1>5. \A x \in Keys :
        Map'[x] # NoRid => Map'[x] = IF x = k THEN r ELSE Map[x]
    BY <1>1, <1>3, PairsLost DEF BInv, Map
<1>6. Promise!InsertThrows(k, r)
    BY <1>2, <1>3, <1>4, <1>5, LookupIsMap DEF Promise!InsertThrows
<1> QED
    BY <1>6 DEF Promise!Next

LEMMA NothingImplements ==
    ASSUME BInv, NEW k \in Keys, RemoveNothing(k)
    PROVE  Promise!Next
<1>1. /\ Lookup(k) = NoRid /\ removed' = FALSE /\ threw' = FALSE
      /\ UNCHANGED <<root, inner, leaf>>
    BY DEF RemoveNothing
<1>2. Map' = Map
    BY <1>1 DEF Map
<1>3. Map[k] = NoRid /\ Map \in [Keys -> Rids \cup {NoRid}]
    BY <1>1, TreeOperators, MapIs DEF BInv, Map, MapOf
<1>4. Map' = [Map EXCEPT ![k] = NoRid] /\ Map'[k] = NoRid
    BY <1>2, <1>3
<1>5. Promise!Remove(k)
    BY <1>1, <1>3, <1>4, LookupIsMap DEF Promise!Remove, Promise!Becomes
<1> QED
    BY <1>5 DEF Promise!Next

LEMMA NextImplements == BInv /\ [Next]_vars => [Promise!Next]_Promise!vars
<1> SUFFICES ASSUME BInv, [Next]_vars
             PROVE  Promise!Next \/ UNCHANGED Promise!vars
    OBVIOUS
<1>1. ASSUME NEW k \in Keys, NEW r \in Rids, InsertInLeaf(k, r)
      PROVE  Promise!Next
    BY <1>1, InsertInLeafKeeps, AddImplements DEF InsertInLeaf
<1>2. ASSUME NEW k \in Keys, NEW r \in Rids, SplitRoot(k, r)
      PROVE  Promise!Next
    BY <1>2, SplitRootKeeps, AddImplements DEF SplitRoot
<1>3. ASSUME NEW k \in Keys, NEW r \in Rids, SplitLeaf(k, r)
      PROVE  Promise!Next
    BY <1>3, SplitLeafKeeps, AddImplements DEF SplitLeaf
<1>4. ASSUME NEW k \in Keys, RemovePair(k) PROVE Promise!Next
    BY <1>4, RemovePairKeeps, RemoveImplements DEF RemovePair
<1>5. ASSUME NEW k \in Keys, RemoveLeaf(k) PROVE Promise!Next
    BY <1>5, RemoveLeafKeeps, RemoveImplements DEF RemoveLeaf, EmptiesLeaf
<1>6. ASSUME NEW k \in Keys, RemoveLast(k) PROVE Promise!Next
    BY <1>6, RemoveLastKeeps, RemoveImplements DEF RemoveLast, EmptiesLeaf
<1>7. CASE UNCHANGED vars
    <2>1. Map' = Map /\ removed' = removed /\ threw' = threw
        BY <1>7 DEF vars, Map
    <2> QED
        BY <2>1, LookupIsMap DEF Promise!vars
<1> QED
    BY <1>1, <1>2, <1>3, <1>4, <1>5, <1>6, <1>7, ThrowImplements,
       NothingImplements DEF Next

\* The index is a map: every insert and remove changes the pairs lookup finds
\* as module Index says, and one that throws only loses pairs.
THEOREM Refinement == Spec => ImplementsIndex
<1>1. BInv /\ [Next]_vars => [Promise!Next]_Promise!vars
    BY NextImplements
<1>2. Init => Promise!Init
    BY InitImplements
<1> QED
    BY <1>1, <1>2, Invariance, PTL DEF Spec, ImplementsIndex, Promise!Spec
-----------------------------------------------------------------------------
(* The chain of leaves                                                     *)

\* The links between the leaves below the root follow the entries of the root,
\* whatever removals have cut out between them.
Ordered(in, lf) ==
    \A i, j \in 2 .. Len(in) :
        /\ lf[in[i].child].next = in[j].child => i < j
        /\ lf[in[i].child].prev = in[j].child => j < i

\* The pages of a tree that has dropped no leaf, the metadata page included.
InUse(in) == IF in = <<>> THEN 2 ELSE Len(in) + 1

\* The chain starts with the first leaf and leaves none out.
Whole(in, lf) ==
    in # <<>> =>
        /\ in[1].child = in[2].child
        /\ \A i \in 2 .. Len(in) - 1 : lf[in[i].child].next = in[i + 1].child

\* A split takes the number of pages for its new leaf: no link leads there and
\* it has no pairs.  The root above the leaves has no pairs either, so it ends
\* a scan.  A tree whose chain is not whole has used more pages.
Links(in, rt, lf, count) ==
    /\ rt < count
    /\ \A p \in Pages : lf[p].prev < count /\ lf[p].next < count
    /\ \A p \in Pages : p >= count => lf[p].entries = <<>>
    /\ in = <<>> => lf[rt].prev = InvalidPage /\ lf[rt].next = InvalidPage
    /\ in # <<>> => lf[rt].entries = <<>>
    /\ Ordered(in, lf)
    /\ count >= InUse(in)
    /\ count = InUse(in) => Whole(in, lf)

Chain == Links(inner, root, leaf, pageCount)
SInv == BInv /\ Chain

\* What the following proofs need to know of the pages.
LEMMA ChainBasics ==
    ASSUME SInv
    PROVE  /\ pageCount \in Nat /\ root \in Pages /\ Len(inner) \in Nat
           /\ inner # <<>> <=> Len(inner) >= 2
           /\ \A x \in Pages : /\ x \in Nat
                               /\ leaf[x] \in LeafPage
                               /\ leaf[x].prev \in Int /\ leaf[x].next \in Int
                               /\ leaf[x].prev < pageCount /\ leaf[x].next < pageCount
           /\ \A i \in 1 .. Len(inner) : inner[i].child \in Pages
           /\ \A i \in 2 .. Len(inner) :
                /\ inner[i].child \in Pages /\ inner[i].child < pageCount
                /\ inner[i].child # root /\ inner[i].child \in Reached(inner, root)
           /\ \A i, j \in 2 .. Len(inner) : inner[i].child = inner[j].child => i = j
<1>1. BInv /\ Links(inner, root, leaf, pageCount)
    BY DEF SInv, Chain
<1>2. Tree(inner, root, leaf) /\ Len(inner) \in Nat /\ pageCount \in 2 .. MaxPages
      /\ leaf \in [Pages -> LeafPage] /\ root \in Pages
    BY <1>1, InvBasics DEF Tree
<1>3. ASSUME NEW x \in Pages
      PROVE  /\ x \in Nat
             /\ leaf[x] \in LeafPage
             /\ leaf[x].prev \in Int /\ leaf[x].next \in Int
             /\ leaf[x].prev < pageCount /\ leaf[x].next < pageCount
    <2>1. leaf[x] \in LeafPage
        BY <1>2
    <2>2. leaf[x].prev \in Pages \cup {InvalidPage}
          /\ leaf[x].next \in Pages \cup {InvalidPage}
        BY <2>1 DEF LeafPage
    <2>3. Pages \cup {InvalidPage} \subseteq Int /\ x \in Nat
        BY DEF Pages, InvalidPage
    <2> QED
        BY <1>1, <2>1, <2>2, <2>3 DEF Links
<1>4. inner # <<>> <=> Len(inner) >= 2
    <2>1. Len(<<>>) = 0
        OBVIOUS
    <2> QED
        BY <1>2, <2>1, TreeBasics
<1>5. \A i \in 1 .. Len(inner) : inner[i].child \in Pages
    BY <1>2, TreeBasics
<1>6. ASSUME NEW i \in 2 .. Len(inner)
      PROVE  /\ inner[i].child \in Pages /\ inner[i].child < pageCount
             /\ inner[i].child # root /\ inner[i].child \in Reached(inner, root)
    <2>1. inner # <<>> /\ i \in 1 .. Len(inner)
        BY <1>2, <1>4
    <2>2. inner[i].child \in Reached(inner, root)
        BY <2>1 DEF Reached
    <2>3. leaf[inner[i].child].entries # <<>>
        BY <1>2, <2>1 DEF Tree, Fits
    <2>4. leaf[root].entries = <<>>
        BY <1>1, <2>1 DEF Links
    <2> QED
        BY <1>1, <1>5, <2>1, <2>2, <2>3, <2>4 DEF BInv
<1>7. ASSUME NEW i \in 2 .. Len(inner), NEW j \in 2 .. Len(inner),
             inner[i].child = inner[j].child
      PROVE  i = j
    <2>1. inner # <<>>
        BY <1>2, <1>4
    <2>2. ~(i < j) /\ ~(j < i)
        BY <1>2, <1>7, <2>1 DEF Tree, Fits
    <2> QED
        BY <2>2
<1> QED
    BY <1>2, <1>3, <1>4, <1>5, <1>6, <1>7

\* What of the links a split leaves alone: those of the other pages.
LEMMA SplitLinks ==
    ASSUME leaf \in [Pages -> LeafPage], NEW p \in Pages, NEW q \in Pages, p # q,
           NEW k, NEW r, NEW pages, pages = Split(p, q, k, r)
    PROVE  /\ pages[p].prev = leaf[p].prev /\ pages[p].next = q
           /\ pages[q].prev = p /\ pages[q].next = leaf[p].next
           /\ \A x \in Pages \ {p, q} : pages[x] = leaf[x]
<1> DEFINE s == leaf[p].entries
           lo == IF Last(Low(s)).key < k THEN Low(s) ELSE Put(Low(s), k, r)
           hi == IF Last(Low(s)).key < k THEN Put(High(s), k, r) ELSE High(s)
<1>1. pages = [leaf EXCEPT ![p] = [leaf[p] EXCEPT !.entries = lo, !.next = q],
                           ![q] = [entries |-> hi, prev |-> p,
                                   next |-> leaf[p].next]]
    BY DEF Split
<1> HIDE DEF s, lo, hi
<1>2. leaf[p] \in LeafPage
    OBVIOUS
<1>3. /\ pages[p] = [leaf[p] EXCEPT !.entries = lo, !.next = q]
      /\ pages[q] = [entries |-> hi, prev |-> p, next |-> leaf[p].next]
      /\ \A x \in Pages \ {p, q} : pages[x] = leaf[x]
    BY <1>1
<1>4. pages[p].prev = leaf[p].prev /\ pages[p].next = q
    BY <1>2, <1>3 DEF LeafPage
<1>5. pages[q].prev = p /\ pages[q].next = leaf[p].next
    BY <1>3
<1> QED
    BY <1>3, <1>4, <1>5

\* Pairs are put into a leaf or taken out: no link changes.
LEMMA PairsChanged ==
    ASSUME SInv, NEW p \in Reached(inner, root), NEW lf,
           \A x \in Pages : lf[x].prev = leaf[x].prev /\ lf[x].next = leaf[x].next,
           \A x \in Pages \ {p} : lf[x].entries = leaf[x].entries
    PROVE  Links(inner, root, lf, pageCount)
<1>1. Links(inner, root, leaf, pageCount) /\ root \in Pages
      /\ p \in Pages /\ p < pageCount /\ (inner # <<>> => p # root)
    <2>1. inner = <<>> => p = root
        BY DEF Reached
    <2>2. inner # <<>> => \E i \in 2 .. Len(inner) : p = inner[i].child
        BY DEF Reached
    <2> QED
        BY <2>1, <2>2, ChainBasics DEF SInv, Chain, Links
<1>2. \A i \in 2 .. Len(inner) : inner[i].child \in Pages
    BY ChainBasics
<1>3. Ordered(inner, lf)
    BY <1>1, <1>2 DEF Links, Ordered
<1>4. Whole(inner, leaf) => Whole(inner, lf)
    <2>1. \A i \in 2 .. Len(inner) - 1 : i \in 2 .. Len(inner)
        BY ChainBasics
    <2> QED
        BY <1>2, <2>1 DEF Whole
<1>5. \A x \in Pages : x >= pageCount => lf[x].entries = <<>>
    <2>1. \A x \in Pages : x >= pageCount => x # p
        BY <1>1, ChainBasics
    <2> QED
        BY <1>1, <2>1 DEF Links
<1> QED
    BY <1>1, <1>3, <1>4, <1>5 DEF Links

LEMMA SplitRootLinks ==
    ASSUME SInv, NEW k \in Keys, NEW r \in Rids, SplitRoot(k, r)
    PROVE  Links(inner', root', leaf', pageCount')
<1> DEFINE p == root
           q == pageCount
<1>1. /\ inner = <<>>
      /\ pageCount + 2 <= MaxPages
      /\ leaf' = Split(p, q, k, r)
      /\ inner' = <<Entry(InvalidKey, p), Entry(MaxKey(leaf', p), p),
                    Entry(MaxKey(leaf', q), q)>>
      /\ root' = pageCount + 1
      /\ pageCount' = pageCount + 2
    BY DEF SplitRoot
<1>2. Links(inner, root, leaf, pageCount) /\ leaf \in [Pages -> LeafPage]
    BY InvBasics DEF SInv, Chain
<1>3. /\ pageCount \in Nat /\ p \in Pages /\ p \in Nat /\ p < pageCount
      /\ q \in Pages /\ p # q /\ root' \in Pages /\ root' # q /\ root' # p
    BY <1>1, <1>2, ChainBasics DEF Links, Pages
<1>4. leaf[p].prev = InvalidPage /\ leaf[p].next = InvalidPage
    BY <1>1, <1>2 DEF Links
<1> HIDE DEF p, q
<1>5. /\ leaf'[p].prev = InvalidPage /\ leaf'[p].next = q
      /\ leaf'[q].prev = p /\ leaf'[q].next = InvalidPage
      /\ \A x \in Pages \ {p, q} : leaf'[x] = leaf[x]
    BY <1>1, <1>2, <1>3, <1>4, SplitLinks
<1>6. /\ Len(inner') = 3 /\ inner' # <<>>
      /\ inner'[1].child = p /\ inner'[2].child = p /\ inner'[3].child = q
    BY <1>1 DEF Entry
<1>7. \A x \in Pages : leaf'[x].prev < pageCount' /\ leaf'[x].next < pageCount'
    <2> SUFFICES ASSUME NEW x \in Pages
                 PROVE  leaf'[x].prev < pageCount' /\ leaf'[x].next < pageCount'
        OBVIOUS
    <2>1. CASE x \in {p, q}
        BY <1>1, <1>3, <1>5, <2>1 DEF InvalidPage, q
    <2>2. CASE x \notin {p, q}
        <3>1. /\ leaf'[x] = leaf[x]
              /\ leaf[x].prev < pageCount /\ leaf[x].prev \in Int
              /\ leaf[x].next < pageCount /\ leaf[x].next \in Int
            BY <1>5, <2>2, ChainBasics
        <3> QED
            BY <1>1, <1>3, <3>1
    <2> QED
        BY <2>1, <2>2
<1>8. \A x \in Pages : x >= pageCount' => leaf'[x].entries = <<>>
    <2>1. \A x \in Pages : x >= pageCount' =>
             x >= pageCount /\ x # p /\ x # q
        BY <1>1, <1>3, ChainBasics DEF q
    <2> QED
        BY <1>2, <1>5, <2>1 DEF Links
<1>9. leaf'[root'].entries = <<>>
    BY <1>1, <1>2, <1>3, <1>5 DEF Links
<1>10. Ordered(inner', leaf')
    <2>1. 2 .. Len(inner') = {2, 3}
        BY <1>6
    <2>2. InvalidPage # p /\ InvalidPage # q
        BY <1>3 DEF InvalidPage, q
    <2>3. ASSUME NEW i, NEW j, i = 2 \/ i = 3, j = 2 \/ j = 3
          PROVE  /\ leaf'[inner'[i].child].next = inner'[j].child => i < j
                 /\ leaf'[inner'[i].child].prev = inner'[j].child => j < i
        BY <1>3, <1>5, <1>6, <2>2, <2>3
    <2> QED
        BY <2>1, <2>3 DEF Ordered
<1>11. Whole(inner', leaf')
    <2>1. \A i \in 2 .. Len(inner') - 1 : i = 2 /\ i + 1 = 3
        BY <1>6
    <2> QED
        BY <1>5, <1>6, <2>1 DEF Whole
<1>12. root' < pageCount' /\ pageCount' >= InUse(inner')
    <2>1. pageCount >= 2
        BY InvBasics DEF SInv, Chain
    <2> QED
        BY <1>1, <1>3, <1>6, <2>1 DEF InUse
<1> QED
    BY <1>6, <1>7, <1>8, <1>9, <1>10, <1>11, <1>12 DEF Links

\* The links after the leaf of entry i was split, whatever becomes of the root.
SplitBelow(i, p, q, pages) ==
    /\ i \in 2 .. Len(inner) /\ p = inner[i].child /\ p \in Pages
    /\ q \in Pages /\ q = pageCount
    /\ pages[p].prev = leaf[p].prev /\ pages[p].next = q
    /\ pages[q].prev = p /\ pages[q].next = leaf[p].next
    /\ \A x \in Pages \ {p, q} : pages[x] = leaf[x]
    /\ \A x \in Pages : pages[x].prev < q + 1 /\ pages[x].next < q + 1
    /\ \A x \in Pages : x >= q + 1 => pages[x].entries = <<>>
    /\ pages[root].entries = <<>> /\ root < q + 1

LEMMA SplitBelowLinks ==
    ASSUME SInv, NEW k \in Keys, NEW r \in Rids, MayInsert(k), inner # <<>>,
           NEW i, i = Child(k), NEW p, p = inner[i].child, Full(p),
           pageCount < MaxPages,
           leaf' = Split(p, pageCount, k, r)
    PROVE  SplitBelow(i, p, pageCount, leaf')
<1> DEFINE q == pageCount
<1>1. BInv /\ Links(inner, root, leaf, pageCount) /\ leaf \in [Pages -> LeafPage]
    BY InvBasics DEF SInv, Chain
<1>2. i \in 2 .. Len(inner)
    BY <1>1, InvBasics, TreeOperators, DescentEnds
<1>3. /\ q \in Nat /\ q \in Pages /\ p \in Pages /\ p < q /\ p # q /\ p # root
      /\ root \in Pages /\ root < q /\ root # q
    BY <1>1, <1>2, ChainBasics DEF Links, Pages
<1>4. /\ leaf'[p].prev = leaf[p].prev /\ leaf'[p].next = q
      /\ leaf'[q].prev = p /\ leaf'[q].next = leaf[p].next
      /\ \A x \in Pages \ {p, q} : leaf'[x] = leaf[x]
    <2>1. leaf' = Split(p, q, k, r) /\ leaf \in [Pages -> LeafPage]
          /\ p \in Pages /\ q \in Pages /\ p # q
        BY <1>1, <1>3
    <2> HIDE DEF q
    <2> QED
        BY <2>1, SplitLinks
<1>5. \A x \in Pages : /\ leaf[x].prev < q /\ leaf[x].prev \in Int
                       /\ leaf[x].next < q /\ leaf[x].next \in Int
                       /\ x \in Int
    BY ChainBasics
<1>6. \A x \in Pages : x >= q => leaf[x].entries = <<>>
    BY <1>1 DEF Links
<1>7. leaf[root].entries = <<>>
    BY <1>1 DEF Links
<1>8. q = pageCount
    OBVIOUS
<1> HIDE DEF q
<1>9. ASSUME NEW x \in Pages
      PROVE  leaf'[x].prev < q + 1 /\ leaf'[x].next < q + 1
    <2>1. CASE x = p
        BY <1>3, <1>4, <1>5, <2>1
    <2>2. CASE x = q
        BY <1>3, <1>4, <1>5, <2>2
    <2>3. CASE x \notin {p, q}
        BY <1>3, <1>4, <1>5, <2>3
    <2> QED
        BY <2>1, <2>2, <2>3
<1>10. ASSUME NEW x \in Pages, x >= q + 1 PROVE leaf'[x].entries = <<>>
    <2>1. x >= q /\ x # p /\ x # q
        BY <1>3, <1>5, <1>10
    <2> QED
        BY <1>4, <1>6, <2>1
<1>11. root < q + 1
    BY <1>3, <1>5
<1> QED
    BY <1>2, <1>3, <1>4, <1>7, <1>8, <1>9, <1>10, <1>11 DEF SplitBelow

LEMMA SplitThrowsLinks ==
    ASSUME SInv, NEW k \in Keys, NEW r \in Rids, SplitThrows(k, r)
    PROVE  Links(inner', root', leaf', pageCount')
<1> DEFINE i == Child(k)
           p == inner[i].child
           q == pageCount
           a == MaxKey(leaf', p)
           in == WithKey(inner, i, a)
<1>1. /\ MayInsert(k)
      /\ inner # <<>> /\ Full(p)
      /\ pageCount < MaxPages
      /\ leaf' = Split(p, q, k, r)
      /\ inner' = in
      /\ pageCount' = pageCount + 1
      /\ root' = root
    BY DEF SplitThrows, WithKey
<1>2. SplitBelow(i, p, q, leaf')
    BY <1>1, SplitBelowLinks
<1>3. Lowers(inner, i, a, in)
    BY <1>1, SplitLowers DEF SInv, Chain
<1> HIDE DEF i, p, q, a, in
<1>4. /\ Len(inner') = Len(inner) /\ inner' # <<>>
      /\ \A j \in 1 .. Len(inner) : inner'[j].child = inner[j].child
    <2>1. Len(<<>>) = 0
        OBVIOUS
    <2> QED
        BY <1>1, <1>3, <2>1, ChainBasics DEF Lowers
<1>5. Ordered(inner, leaf) /\ pageCount >= InUse(inner)
    BY DEF SInv, Chain, Links
<1>6. Ordered(inner', leaf')
    <2> SUFFICES ASSUME NEW x \in 2 .. Len(inner), NEW y \in 2 .. Len(inner)
                 PROVE  /\ leaf'[inner[x].child].next = inner[y].child => x < y
                        /\ leaf'[inner[x].child].prev = inner[y].child => y < x
        <3>1. \A j \in 2 .. Len(inner) : j \in 1 .. Len(inner)
            BY ChainBasics
        <3> QED
            BY <1>4, <3>1 DEF Ordered
    <2>1. /\ inner[x].child \in Pages /\ inner[x].child # q /\ inner[y].child # q
        <3>1. /\ inner[x].child \in Pages /\ inner[x].child < pageCount
              /\ inner[y].child < pageCount /\ pageCount \in Nat
            BY ChainBasics
        <3> QED
            BY <1>2, <3>1 DEF SplitBelow
    <2>2. /\ leaf[inner[x].child].next = inner[y].child => x < y
          /\ leaf[inner[x].child].prev = inner[y].child => y < x
        BY <1>5 DEF Ordered
    <2>3. CASE inner[x].child = p
        BY <1>2, <2>1, <2>2, <2>3 DEF SplitBelow
    <2>4. CASE inner[x].child # p
        BY <1>2, <2>1, <2>2, <2>4 DEF SplitBelow
    <2> QED
        BY <2>3, <2>4
<1>7. pageCount' >= InUse(inner') /\ pageCount' # InUse(inner')
    <2>1. InUse(inner') = InUse(inner) /\ InUse(inner) \in Nat /\ pageCount \in Nat
        BY <1>1, <1>4, ChainBasics DEF InUse
    <2> QED
        BY <1>1, <1>5, <2>1
<1>8. q + 1 = pageCount'
    BY <1>1 DEF q
<1> QED
    BY <1>1, <1>2, <1>4, <1>6, <1>7, <1>8 DEF Links, SplitBelow

\* The children of a root that gets the entry of page q behind entry i.
LEMMA ChildAdded ==
    ASSUME NEW in \in Seq(InnerEntry), NEW i \in 2 .. Len(in),
           NEW b \in Keys, NEW q \in Pages,
           NEW in2, in2 = WithEntry(in, i + 1, b, q)
    PROVE  /\ Len(in2) = Len(in) + 1
           /\ \A j \in 1 .. Len(in) + 1 :
                /\ j <= i => in2[j].child = in[j].child
                /\ j = i + 1 => in2[j].child = q
                /\ j > i + 1 => in2[j].child = in[j - 1].child
<1> DEFINE m == i + 1
           x == Entry(b, q)
<1>1. Len(in) \in Nat /\ m \in 1 .. Len(in) + 1 /\ i \in Nat
    OBVIOUS
<1>2. x \in InnerEntry /\ x.child = q /\ in2 = InsertAt(in, m, x)
    BY DEF WithEntry, Entry, InnerEntry
<1> HIDE DEF m, x
<1>3. Inserts(in, m, x, in2, InnerEntry)
    BY <1>1, <1>2, InsertedAt
<1>4. \A j \in 1 .. Len(in) + 1 : j <= i <=> j < m
    BY <1>1 DEF m
<1> QED
    BY <1>2, <1>3, <1>4 DEF Inserts, m

LEMMA SplitLeafLinks ==
    ASSUME SInv, NEW k \in Keys, NEW r \in Rids, SplitLeaf(k, r)
    PROVE  Links(inner', root', leaf', pageCount')
<1> DEFINE i == Child(k)
           p == inner[i].child
           q == pageCount
           a == MaxKey(leaf', p)
           b == MaxKey(leaf', q)
           in == WithKey(inner, i, a)
           n == Len(inner)
<1>1. /\ MayInsert(k)
      /\ inner # <<>> /\ Full(p)
      /\ pageCount < MaxPages
      /\ leaf' = Split(p, q, k, r)
      /\ inner' = WithEntry(in, i + 1, b, q)
      /\ pageCount' = pageCount + 1
      /\ root' = root
    BY DEF SplitLeaf, WithKey
<1>2. SplitBelow(i, p, q, leaf')
    BY <1>1, SplitBelowLinks
<1>3. Lowers(inner, i, a, in) /\ b \in Keys /\ Tree(in, root, leaf')
    BY <1>1, SplitLowers DEF SInv, Chain
<1>4. i \in 2 .. n /\ n \in Nat /\ q \in Pages
      /\ p = inner[i].child /\ q = pageCount
    BY <1>2, ChainBasics DEF SplitBelow
<1>5. Ordered(inner, leaf) /\ pageCount >= InUse(inner)
      /\ (pageCount = InUse(inner) => Whole(inner, leaf))
    BY DEF SInv, Chain, Links
<1>6. /\ \A j \in 2 .. n : /\ inner[j].child \in Pages /\ inner[j].child < q
                           /\ inner[j].child # q
      /\ \A j \in 2 .. n : inner[j].child = p => j = i
    <2>1. \A j \in 2 .. n : /\ inner[j].child \in Pages /\ inner[j].child < q
                            /\ inner[j].child \in Nat
        BY ChainBasics
    <2>2. \A j \in 2 .. n : inner[j].child = p => j = i
        BY <1>4, ChainBasics
    <2> QED
        BY <2>1, <2>2
<1>7. n = Len(inner)
    OBVIOUS
<1> HIDE DEF i, p, q, a, b, in, n
<1>8. /\ Len(inner') = n + 1
      /\ \A j \in 1 .. n + 1 :
           /\ j <= i => inner'[j].child = inner[j].child
           /\ j = i + 1 => inner'[j].child = q
           /\ j > i + 1 => inner'[j].child = inner[j - 1].child
    <2>1. in \in Seq(InnerEntry) /\ Len(in) = n
          /\ \A j \in 1 .. n : in[j].child = inner[j].child
        BY <1>3, <1>7 DEF Lowers, Tree
    <2>2. /\ Len(inner') = Len(in) + 1
          /\ \A j \in 1 .. Len(in) + 1 :
                /\ j <= i => inner'[j].child = in[j].child
                /\ j = i + 1 => inner'[j].child = q
                /\ j > i + 1 => inner'[j].child = in[j - 1].child
        <3>1. /\ i \in 2 .. Len(in) /\ b \in Keys /\ q \in Pages
              /\ in \in Seq(InnerEntry) /\ inner' = WithEntry(in, i + 1, b, q)
            BY <1>1, <1>3, <1>4, <2>1
        <3> QED
            BY <3>1, ChildAdded
    <2>3. \A j \in 1 .. n + 1 : /\ j <= i => j \in 1 .. n
                                /\ j > i + 1 => j - 1 \in 1 .. n
        BY <1>4
    <2> QED
        BY <2>1, <2>2, <2>3
\* Where an entry was before: all but that of the new leaf.
<1> DEFINE Old(j) == IF j <= i THEN j ELSE j - 1
<1>9. ASSUME NEW j \in 2 .. n + 1, j # i + 1
      PROVE  Old(j) \in 2 .. n /\ inner'[j].child = inner[Old(j)].child
             /\ (Old(j) = i <=> j = i)
    BY <1>4, <1>8, <1>9
<1>10. \A x, y \in 2 .. n + 1 :
         x # i + 1 /\ y # i + 1 /\ Old(x) < Old(y) => x < y
    BY <1>4
<1>11. \A x \in 2 .. n + 1 : x # i + 1 =>
         /\ i < Old(x) => i + 1 < x
         /\ Old(x) < i => x < i
    BY <1>4
<1>a. i + 1 \in 2 .. n + 1 /\ i + 1 # i /\ i < i + 1 /\ i \in 2 .. n + 1
      /\ inner'[i + 1].child = q
    BY <1>4, <1>8
<1> HIDE DEF Old
<1>12. ASSUME NEW x \in 2 .. n + 1, NEW y \in 2 .. n + 1
       PROVE  /\ leaf'[inner'[x].child].next = inner'[y].child => x < y
              /\ leaf'[inner'[x].child].prev = inner'[y].child => y < x
    <2>0. \A z \in Pages : leaf[z].next # q /\ leaf[z].prev # q
        <3>1. \A z \in Pages : /\ leaf[z].next < pageCount /\ leaf[z].next \in Int
                               /\ leaf[z].prev < pageCount /\ leaf[z].prev \in Int
            BY ChainBasics
        <3> QED
            BY <1>4, <3>1 DEF Pages
    <2>1. CASE x = i + 1
        <3>1. /\ leaf'[inner'[x].child].next = leaf[p].next
              /\ leaf'[inner'[x].child].prev = p
            BY <1>2, <1>a, <2>1 DEF SplitBelow
        <3>2. CASE y = i + 1
            BY <1>2, <1>4, <1>6, <1>a, <2>0, <3>1, <3>2 DEF SplitBelow
        <3>3. CASE y # i + 1
            <4>1. /\ Old(y) \in 2 .. n /\ inner'[y].child = inner[Old(y)].child
                  /\ (Old(y) = i <=> y = i)
                BY <1>9, <3>3
            <4>2. leaf[p].next = inner[Old(y)].child => i < Old(y)
                BY <1>4, <1>5, <1>7, <4>1 DEF Ordered
            <4>3. p = inner[Old(y)].child => y = i
                BY <1>6, <4>1
            <4> QED
                BY <1>11, <1>a, <2>1, <3>1, <3>3, <4>1, <4>2, <4>3
        <3> QED
            BY <3>2, <3>3
    <2>2. CASE x = i
        <3>1. /\ leaf'[inner'[x].child].next = q
              /\ leaf'[inner'[x].child].prev = leaf[p].prev
            <4>1. inner'[x].child = p
                <5>1. i \in 1 .. n + 1 /\ i <= i
                    BY <1>4
                <5> QED
                    BY <1>4, <1>8, <2>2, <5>1
            <4> QED
                BY <1>2, <4>1 DEF SplitBelow
        <3>2. CASE y = i + 1
            BY <1>2, <1>4, <1>a, <2>0, <2>2, <3>1, <3>2 DEF SplitBelow
        <3>3. CASE y # i + 1
            <4>1. /\ Old(y) \in 2 .. n /\ inner'[y].child = inner[Old(y)].child
                BY <1>9, <3>3
            <4>2. leaf[p].prev = inner[Old(y)].child => Old(y) < i
                BY <1>4, <1>5, <1>7, <4>1 DEF Ordered
            <4>3. inner[Old(y)].child # q
                BY <1>6, <4>1
            <4> QED
                BY <1>11, <2>2, <3>1, <3>3, <4>1, <4>2, <4>3
        <3> QED
            BY <3>2, <3>3
    <2>3. CASE x # i + 1 /\ x # i
        <3>1. /\ Old(x) \in 2 .. n /\ inner'[x].child = inner[Old(x)].child
              /\ Old(x) # i
            BY <1>9, <2>3
        <3> DEFINE c == inner[Old(x)].child
        <3>2. c \in Pages /\ c # p /\ c # q
            BY <1>6, <3>1
        <3>3. leaf'[c] = leaf[c]
            BY <1>2, <3>2 DEF SplitBelow
        <3>4. CASE y = i + 1
            BY <1>a, <2>0, <3>1, <3>2, <3>3, <3>4
        <3>5. CASE y # i + 1
            <4>1. /\ Old(y) \in 2 .. n /\ inner'[y].child = inner[Old(y)].child
                BY <1>9, <3>5
            <4>2. /\ leaf[c].next = inner[Old(y)].child => Old(x) < Old(y)
                  /\ leaf[c].prev = inner[Old(y)].child => Old(y) < Old(x)
                BY <1>5, <1>7, <3>1, <4>1 DEF Ordered
            <4> QED
                BY <1>10, <2>3, <3>1, <3>3, <3>5, <4>1, <4>2
        <3> QED
            BY <3>4, <3>5
    <2> QED
        BY <2>1, <2>2, <2>3
<1>13. Ordered(inner', leaf')
    BY <1>8, <1>12 DEF Ordered
<1>14. inner' # <<>> /\ InUse(inner') = n + 2 /\ InUse(inner) = n + 1
    <2>1. Len(<<>>) = 0
        OBVIOUS
    <2>2. inner' # <<>>
        BY <1>4, <1>8, <2>1
    <2>3. inner # <<>> /\ Len(inner') = n + 1 /\ Len(inner) = n
        BY <1>1, <1>7, <1>8
    <2>4. InUse(inner') = (n + 1) + 1 /\ InUse(inner) = n + 1
        BY <2>2, <2>3 DEF InUse
    <2> QED
        BY <1>4, <2>2, <2>4
<1>15. /\ pageCount' >= InUse(inner')
       /\ pageCount' = InUse(inner') => pageCount = InUse(inner)
    <2>1. pageCount \in Nat
        BY ChainBasics
    <2> QED
        BY <1>1, <1>4, <1>5, <1>14, <2>1
<1>16. ASSUME Whole(inner, leaf) PROVE Whole(inner', leaf')
    <2>1. /\ inner[1].child = inner[2].child
          /\ \A j \in 2 .. n - 1 : leaf[inner[j].child].next = inner[j + 1].child
        BY <1>1, <1>7, <1>16 DEF Whole
    <2>2. inner'[1].child = inner'[2].child
        <3>1. 1 \in 1 .. n + 1 /\ 2 \in 1 .. n + 1 /\ 1 <= i /\ 2 <= i
            BY <1>4
        <3> QED
            BY <1>8, <2>1, <3>1
    <2>3. ASSUME NEW j \in 2 .. n
          PROVE  leaf'[inner'[j].child].next = inner'[j + 1].child
        <3>0. j \in 2 .. n + 1 /\ j + 1 \in 2 .. n + 1 /\ j \in 1 .. n + 1
              /\ j + 1 \in 1 .. n + 1
            BY <1>4
        <3>1. CASE j = i
            <4>1. inner'[j].child = p
                BY <1>4, <1>8, <3>0, <3>1
            <4> QED
                BY <1>2, <1>a, <3>1, <4>1 DEF SplitBelow
        <3>2. CASE j = i + 1
            <4>1. j - 1 = i /\ (j + 1) - 1 = j /\ j + 1 > i + 1 /\ i \in 2 .. n - 1
                BY <1>4, <3>2
            <4>2. leaf'[inner'[j].child].next = leaf[p].next
                BY <1>2, <1>a, <3>2 DEF SplitBelow
            <4>3. leaf[p].next = inner[i + 1].child
                BY <1>4, <2>1, <4>1
            <4>4. inner'[j + 1].child = inner[j].child
                BY <1>8, <3>0, <4>1
            <4> QED
                BY <3>2, <4>2, <4>3, <4>4
        <3>3. CASE j < i
            <4>1. /\ j \in 2 .. n - 1 /\ j \in 2 .. n /\ j + 1 <= i /\ j <= i /\ j # i
                BY <1>4, <3>3
            <4>2. inner'[j].child = inner[j].child
                  /\ inner'[j + 1].child = inner[j + 1].child
                BY <1>8, <3>0, <4>1
            <4>3. leaf'[inner[j].child] = leaf[inner[j].child]
                BY <1>2, <1>6, <4>1 DEF SplitBelow
            <4> QED
                BY <2>1, <4>1, <4>2, <4>3
        <3>4. CASE j > i + 1
            <4> DEFINE m == j - 1
            <4>1. /\ m \in 2 .. n - 1 /\ m \in 2 .. n /\ m # i /\ m + 1 = j
                  /\ (j + 1) - 1 = j /\ j + 1 > i + 1
                BY <1>4, <3>4
            <4>2. inner'[j].child = inner[m].child
                  /\ inner'[j + 1].child = inner[j].child
                BY <1>8, <3>0, <3>4, <4>1
            <4> HIDE DEF m
            <4>3. leaf'[inner[m].child] = leaf[inner[m].child]
                BY <1>2, <1>6, <4>1 DEF SplitBelow
            <4>4. leaf[inner[m].child].next = inner[m + 1].child
                BY <2>1, <4>1
            <4> QED
                BY <4>1, <4>2, <4>3, <4>4
        <3>5. j = i \/ j = i + 1 \/ j < i \/ j > i + 1
            BY <1>4
        <3> QED
            BY <3>1, <3>2, <3>3, <3>4, <3>5
    <2>4. Len(inner') - 1 = n
        BY <1>4, <1>8
    <2> QED
        BY <2>2, <2>3, <2>4 DEF Whole
<1>17. q + 1 = pageCount'
    BY <1>1, <1>4
<1> QED
    BY <1>1, <1>2, <1>5, <1>13, <1>14, <1>15, <1>16, <1>17 DEF Links, SplitBelow

\* The neighbours leaf p knows get each other for p.
LEMMA DropLinks ==
    ASSUME leaf \in [Pages -> LeafPage], NEW p \in Pages, NEW k,
           NEW pages, pages = Unlinked(Taken(p, k), p)
    PROVE  \A x \in Pages :
             /\ pages[x].next = IF x = leaf[p].prev THEN leaf[p].next
                                                    ELSE leaf[x].next
             /\ pages[x].prev = IF x = leaf[p].next THEN leaf[p].prev
                                                    ELSE leaf[x].prev
<1> DEFINE t == RemoveAt(leaf[p].entries, LowerBound(leaf[p].entries, k, 1))
           taken == Taken(p, k)
<1>1. taken = [leaf EXCEPT ![p] = [leaf[p] EXCEPT !.entries = t]]
    BY DEF Taken
<1> HIDE DEF t
<1>2. \A x \in Pages : taken[x] = IF x = p THEN [leaf[p] EXCEPT !.entries = t]
                                           ELSE leaf[x]
    BY <1>1
<1> HIDE DEF taken
<1>3. /\ [leaf[p] EXCEPT !.entries = t].prev = leaf[p].prev
      /\ [leaf[p] EXCEPT !.entries = t].next = leaf[p].next
      /\ [leaf[p] EXCEPT !.entries = t]
            \in [entries : {t}, prev : Pages \cup {InvalidPage},
                 next : Pages \cup {InvalidPage}]
    <2>1. leaf[p] \in LeafPage
        OBVIOUS
    <2> QED
        BY <2>1 DEF LeafPage
<1>4. \A x \in Pages :
        /\ taken[x].prev = leaf[x].prev /\ taken[x].next = leaf[x].next
        /\ \E E : taken[x] \in [entries : E, prev : Pages \cup {InvalidPage},
                                next : Pages \cup {InvalidPage}]
    <2> SUFFICES ASSUME NEW x \in Pages
                 PROVE  /\ taken[x].prev = leaf[x].prev
                        /\ taken[x].next = leaf[x].next
                        /\ \E E : taken[x] \in [entries : E,
                                                prev : Pages \cup {InvalidPage},
                                                next : Pages \cup {InvalidPage}]
        OBVIOUS
    <2>1. CASE x = p
        BY <1>2, <1>3, <2>1
    <2>2. CASE x # p
        <3>1. taken[x] = leaf[x] /\ leaf[x] \in LeafPage
            BY <1>2, <2>2
        <3> QED
            BY <3>1 DEF LeafPage
    <2> QED
        BY <2>1, <2>2
<1>5. ASSUME NEW x \in Pages
      PROVE  /\ pages[x].next = IF x = leaf[p].prev THEN leaf[p].next
                                                    ELSE leaf[x].next
             /\ pages[x].prev = IF x = leaf[p].next THEN leaf[p].prev
                                                    ELSE leaf[x].prev
    <2> DEFINE next == IF x = taken[p].prev THEN taken[p].next ELSE taken[x].next
               prev == IF x = taken[p].next THEN taken[p].prev ELSE taken[x].prev
    <2>1. pages[x] = [taken[x] EXCEPT !.next = next, !.prev = prev]
        BY DEF Unlinked, taken
    <2>2. PICK E : taken[x] \in [entries : E, prev : Pages \cup {InvalidPage},
                                 next : Pages \cup {InvalidPage}]
        BY <1>4
    <2> HIDE DEF next, prev
    <2>3. pages[x].next = next /\ pages[x].prev = prev
        BY <2>1, <2>2
    <2> QED
        BY <1>4, <2>3 DEF next, prev
<1> QED
    BY <1>5

\* What is left of the chain when the leaf of entry i is dropped.
DropBelow(i, p, pages) ==
    /\ inner # <<>> /\ i \in 2 .. Len(inner) /\ p = inner[i].child
    /\ p \in Pages /\ p # root
    /\ \A x \in Pages :
         /\ pages[x].next = IF x = leaf[p].prev THEN leaf[p].next ELSE leaf[x].next
         /\ pages[x].prev = IF x = leaf[p].next THEN leaf[p].prev ELSE leaf[x].prev
         /\ pages[x].next < pageCount /\ pages[x].prev < pageCount
         /\ pages[x].next \in Int /\ pages[x].prev \in Int
    /\ \A x \in Pages : x >= pageCount => pages[x].entries = <<>>
    /\ pages[root].entries = <<>>

LEMMA DropBelowLinks ==
    ASSUME SInv, NEW k \in Keys, EmptiesLeaf(k),
           NEW pages, pages = Unlinked(Taken(LeafOf(k), k), LeafOf(k))
    PROVE  DropBelow(Child(k), LeafOf(k), pages)
<1> DEFINE p == LeafOf(k)
           i == Child(k)
<1>1. BInv /\ Links(inner, root, leaf, pageCount) /\ leaf \in [Pages -> LeafPage]
    BY InvBasics DEF SInv, Chain
<1>2. /\ inner # <<>> /\ i \in 2 .. Len(inner) /\ p = inner[i].child /\ p \in Pages
      /\ \A x \in Pages \ {p} : pages[x].entries = leaf[x].entries
      /\ pages[p].entries = <<>>
    BY <1>1, LeafDropped
<1>3. pages = Unlinked(Taken(p, k), p)
    OBVIOUS
<1> HIDE DEF p, i
<1>4. p # root
    BY <1>2, ChainBasics
<1>5. \A x \in Pages :
         /\ pages[x].next = IF x = leaf[p].prev THEN leaf[p].next ELSE leaf[x].next
         /\ pages[x].prev = IF x = leaf[p].next THEN leaf[p].prev ELSE leaf[x].prev
    BY <1>1, <1>2, <1>3, DropLinks
<1>6. \A x \in Pages :
         /\ pages[x].next < pageCount /\ pages[x].prev < pageCount
         /\ pages[x].next \in Int /\ pages[x].prev \in Int
    BY <1>2, <1>5, ChainBasics
<1>7. \A x \in Pages : leaf[x].entries = <<>> => pages[x].entries = <<>>
    BY <1>2
<1>8. /\ root \in Pages /\ leaf[root].entries = <<>>
      /\ \A x \in Pages : x >= pageCount => leaf[x].entries = <<>>
    BY <1>1, <1>2, ChainBasics DEF Links
<1>9. DropBelow(i, p, pages)
    BY <1>2, <1>4, <1>5, <1>6, <1>7, <1>8 DEF DropBelow
<1> QED
    BY <1>9 DEF p, i

LEMMA RemoveLeafLinks ==
    ASSUME SInv, NEW k \in Keys, RemoveLeaf(k)
    PROVE  Links(inner', root', leaf', pageCount')
<1> DEFINE p == LeafOf(k)
           i == Child(k)
           n == Len(inner)
<1>1. /\ EmptiesLeaf(k)
      /\ n > 2
      /\ leaf' = Unlinked(Taken(p, k), p)
      /\ inner' = RemoveAt(inner, i)
      /\ root' = root /\ pageCount' = pageCount
    BY DEF RemoveLeaf, WithoutEntry
<1>2. DropBelow(i, p, leaf')
    BY <1>1, DropBelowLinks
<1> HIDE DEF p, i
<1>3. /\ n \in Nat /\ i \in 2 .. n /\ p = inner[i].child /\ p \in Pages
      /\ \A j \in 2 .. n : inner[j].child \in Pages
      /\ pageCount \in Nat
    BY <1>2, ChainBasics DEF DropBelow
<1>4. Links(inner, root, leaf, pageCount)
    BY DEF SInv, Chain
<1>5. /\ Len(inner') = n - 1
      /\ \A j \in 1 .. n - 1 : inner'[j] = IF j < i THEN inner[j] ELSE inner[j + 1]
    <2>1. i \in 1 .. Len(inner) /\ inner \in Seq(InnerEntry)
        BY <1>3, InvBasics DEF Tree, SInv, Chain
    <2>2. Drops(inner, i, inner', InnerEntry)
        BY <1>1, <2>1, RemovedAt
    <2> QED
        BY <1>3, <2>2 DEF Drops
<1> HIDE DEF n
<1> DEFINE Old(j) == IF j < i THEN j ELSE j + 1
<1>6. \A j \in 2 .. n - 1 : /\ Old(j) \in 2 .. n
                            /\ inner'[j] = inner[Old(j)]
    BY <1>3, <1>5
<1>7. \A x, y \in 2 .. n - 1 : Old(x) < Old(y) => x < y
    BY <1>3
<1> HIDE DEF Old
<1>8. \A x, y \in 2 .. n : /\ leaf[inner[x].child].next = inner[y].child => x < y
                           /\ leaf[inner[x].child].prev = inner[y].child => y < x
    BY <1>4 DEF Links, Ordered, n
<1>9. ASSUME NEW x \in 2 .. n, NEW y \in 2 .. n
      PROVE  /\ leaf'[inner[x].child].next = inner[y].child => x < y
             /\ leaf'[inner[x].child].prev = inner[y].child => y < x
    <2> DEFINE c == inner[x].child
    <2>1. /\ leaf'[c].next = IF c = leaf[p].prev THEN leaf[p].next ELSE leaf[c].next
          /\ leaf'[c].prev = IF c = leaf[p].next THEN leaf[p].prev ELSE leaf[c].prev
        BY <1>2, <1>3 DEF DropBelow
    <2>2. /\ leaf[p].prev = inner[x].child => x < i
          /\ leaf[p].prev = inner[y].child => y < i
          /\ leaf[p].next = inner[x].child => i < x
          /\ leaf[p].next = inner[y].child => i < y
        BY <1>3, <1>8
    <2>3. /\ leaf[c].next = inner[y].child => x < y
          /\ leaf[c].prev = inner[y].child => y < x
        BY <1>8
    <2>4. x \in Int /\ y \in Int /\ i \in Int
        BY <1>3
    <2> QED
        BY <2>1, <2>2, <2>3, <2>4
<1>10. Ordered(inner', leaf')
    <2> SUFFICES ASSUME NEW x \in 2 .. n - 1, NEW y \in 2 .. n - 1
                 PROVE  /\ leaf'[inner'[x].child].next = inner'[y].child => x < y
                        /\ leaf'[inner'[x].child].prev = inner'[y].child => y < x
        BY <1>5 DEF Ordered
    <2>1. /\ inner'[x] = inner[Old(x)] /\ Old(x) \in 2 .. n
          /\ inner'[y] = inner[Old(y)] /\ Old(y) \in 2 .. n
        BY <1>6
    <2>2. /\ leaf'[inner'[x].child].next = inner'[y].child => Old(x) < Old(y)
          /\ leaf'[inner'[x].child].prev = inner'[y].child => Old(y) < Old(x)
        BY <1>9, <2>1
    <2> QED
        BY <1>7, <2>2
<1>11. inner' # <<>> /\ pageCount' > InUse(inner')
    <2>1. Len(<<>>) = 0
        OBVIOUS
    <2>2. inner' # <<>>
        BY <1>1, <1>3, <1>5, <2>1 DEF n
    <2>3. InUse(inner') = n /\ InUse(inner) = n + 1 /\ pageCount >= n + 1
        BY <1>2, <1>3, <1>4, <1>5, <2>2 DEF InUse, DropBelow, Links, n
    <2> QED
        BY <1>1, <1>3, <2>2, <2>3
<1>12. InUse(inner') \in Nat /\ pageCount' \in Nat /\ root < pageCount
    BY <1>1, <1>3, <1>4, <1>5, <1>11 DEF InUse, Links
<1>13. pageCount' >= InUse(inner') /\ pageCount' # InUse(inner')
    BY <1>11, <1>12
<1> QED
    BY <1>1, <1>2, <1>10, <1>11, <1>12, <1>13 DEF Links, DropBelow

LEMMA RemoveLastLinks ==
    ASSUME SInv, NEW k \in Keys, RemoveLast(k)
    PROVE  Links(inner', root', leaf', pageCount')
<1> DEFINE p == LeafOf(k)
           i == Child(k)
           q == pageCount
           pages == Unlinked(Taken(p, k), p)
<1>1. /\ EmptiesLeaf(k)
      /\ q < MaxPages
      /\ leaf' = [pages EXCEPT ![q] = FreshRoot]
      /\ inner' = <<>>
      /\ root' = q
      /\ pageCount' = q + 1
    BY DEF RemoveLast
<1>2. DropBelow(i, p, pages)
    BY <1>1, DropBelowLinks
<1>3. /\ q \in Nat /\ q \in Pages /\ q >= 2
      /\ pages \in [Pages -> LeafPage]
    <2>1. pages \in [Pages -> LeafPage]
        BY <1>1, LeafDropped DEF SInv, Chain
    <2>2. q \in 2 .. MaxPages
        BY InvBasics DEF SInv, Chain
    <2> QED
        BY <1>1, <2>1, <2>2 DEF Pages
<1>4. q = pageCount
    OBVIOUS
<1> HIDE DEF p, i, q, pages
<1>5. /\ leaf'[q] = FreshRoot
      /\ \A x \in Pages \ {q} : leaf'[x] = pages[x]
    BY <1>1, <1>3
<1>6. /\ FreshRoot.entries = <<>>
      /\ FreshRoot.prev = InvalidPage /\ FreshRoot.next = InvalidPage
    BY DEF FreshRoot
<1>7. ASSUME NEW x \in Pages
      PROVE  leaf'[x].prev < q + 1 /\ leaf'[x].next < q + 1
    <2>1. CASE x = q
        BY <1>3, <1>5, <1>6, <2>1 DEF InvalidPage
    <2>2. CASE x # q
        <3>1. /\ leaf'[x].prev < q /\ leaf'[x].prev \in Int
              /\ leaf'[x].next < q /\ leaf'[x].next \in Int
            BY <1>2, <1>4, <1>5, <2>2 DEF DropBelow
        <3> QED
            BY <1>3, <3>1
    <2> QED
        BY <2>1, <2>2
<1>8. ASSUME NEW x \in Pages, x >= q + 1 PROVE leaf'[x].entries = <<>>
    <2>1. x # q /\ x >= q
        BY <1>3, <1>8 DEF Pages
    <2> QED
        BY <1>2, <1>4, <1>5, <2>1 DEF DropBelow
<1>9. InUse(inner') = 2 /\ Ordered(inner', leaf') /\ Whole(inner', leaf')
    BY <1>1 DEF InUse, Ordered, Whole
<1>10. q < q + 1 /\ q + 1 >= 2
    BY <1>3
<1> QED
    BY <1>1, <1>5, <1>6, <1>7, <1>8, <1>9, <1>10 DEF Links

\* Other pairs in a page change neither its links nor another page.
LEMMA PairsOnly ==
    ASSUME leaf \in [Pages -> LeafPage], NEW p \in Pages, NEW t,
           NEW pages, pages = [leaf EXCEPT ![p].entries = t]
    PROVE  /\ \A x \in Pages : /\ pages[x].prev = leaf[x].prev
                               /\ pages[x].next = leaf[x].next
           /\ \A x \in Pages \ {p} : pages[x].entries = leaf[x].entries
<1>1. leaf[p] \in LeafPage
    OBVIOUS
<1>2. /\ \A x \in Pages \ {p} : pages[x] = leaf[x]
      /\ pages[p] = [leaf[p] EXCEPT !.entries = t]
    OBVIOUS
<1>3. pages[p].prev = leaf[p].prev /\ pages[p].next = leaf[p].next
    BY <1>1, <1>2 DEF LeafPage
<1> QED
    BY <1>2, <1>3

LEMMA InsertInLeafLinks ==
    ASSUME SInv, NEW k \in Keys, NEW r \in Rids, InsertInLeaf(k, r)
    PROVE  Links(inner', root', leaf', pageCount')
<1> DEFINE p == LeafOf(k)
           t == Put(leaf[p].entries, k, r)
<1>1. /\ leaf' = [leaf EXCEPT ![p].entries = t]
      /\ UNCHANGED <<root, inner, pageCount>>
    BY DEF InsertInLeaf
<1>2. leaf \in [Pages -> LeafPage] /\ p \in Reached(inner, root) /\ p \in Pages
    BY InvBasics, TreeOperators, LookupFinds DEF SInv, Chain
<1> HIDE DEF p, t
<1>3. /\ \A x \in Pages : /\ leaf'[x].prev = leaf[x].prev
                          /\ leaf'[x].next = leaf[x].next
      /\ \A x \in Pages \ {p} : leaf'[x].entries = leaf[x].entries
    BY <1>1, <1>2, PairsOnly
<1> QED
    BY <1>1, <1>2, <1>3, PairsChanged

LEMMA RemovePairLinks ==
    ASSUME SInv, NEW k \in Keys, RemovePair(k)
    PROVE  Links(inner', root', leaf', pageCount')
<1> DEFINE p == LeafOf(k)
           t == RemoveAt(leaf[p].entries, LowerBound(leaf[p].entries, k, 1))
<1>1. /\ leaf' = [leaf EXCEPT ![p].entries = t]
      /\ UNCHANGED <<root, inner, pageCount>>
    BY DEF RemovePair, Taken
<1>2. leaf \in [Pages -> LeafPage] /\ p \in Reached(inner, root) /\ p \in Pages
    BY InvBasics, TreeOperators, LookupFinds DEF SInv, Chain
<1> HIDE DEF p, t
<1>3. /\ \A x \in Pages : /\ leaf'[x].prev = leaf[x].prev
                          /\ leaf'[x].next = leaf[x].next
      /\ \A x \in Pages \ {p} : leaf'[x].entries = leaf[x].entries
    BY <1>1, <1>2, PairsOnly
<1> QED
    BY <1>1, <1>2, <1>3, PairsChanged

LEMMA InitSInv == Init => SInv
<1> SUFFICES ASSUME Init PROVE SInv
    OBVIOUS
<1>1. /\ root = 1 /\ inner = <<>> /\ pageCount = 2
      /\ leaf = [p \in Pages |-> IF p = 1 THEN FreshRoot ELSE ZeroPage]
      /\ 1 \in Pages
    BY DEF Init, Pages
<1>2. \A p \in Pages : leaf[p] = IF p = 1 THEN FreshRoot ELSE ZeroPage
    BY <1>1
<1>3. /\ FreshRoot.entries = <<>> /\ FreshRoot.prev = -1 /\ FreshRoot.next = -1
      /\ ZeroPage.entries = <<>> /\ ZeroPage.prev = 0 /\ ZeroPage.next = 0
    BY DEF FreshRoot, ZeroPage, InvalidPage
<1>4. \A p \in Pages : /\ leaf[p].entries = <<>>
                       /\ leaf[p].prev < pageCount /\ leaf[p].next < pageCount
    BY <1>1, <1>2, <1>3
<1>5. leaf[root].prev = InvalidPage /\ leaf[root].next = InvalidPage
    BY <1>1, <1>2, <1>3 DEF InvalidPage
<1>6. InUse(inner) = 2 /\ Ordered(inner, leaf) /\ Whole(inner, leaf)
    BY <1>1 DEF InUse, Ordered, Whole
<1>7. root < pageCount /\ pageCount >= 2
    BY <1>1
<1> QED
    BY <1>1, <1>4, <1>5, <1>6, <1>7, InitBInv DEF SInv, Chain, Links

LEMMA NextLinks == SInv /\ [Next]_vars => SInv'
<1> SUFFICES ASSUME SInv, [Next]_vars PROVE Chain'
    BY NextKeeps DEF SInv
<1>1. ASSUME NEW k \in Keys, NEW r \in Rids, InsertInLeaf(k, r) PROVE Chain'
    BY <1>1, InsertInLeafLinks DEF Chain
<1>2. ASSUME NEW k \in Keys, NEW r \in Rids, SplitRoot(k, r) PROVE Chain'
    BY <1>2, SplitRootLinks DEF Chain
<1>3. ASSUME NEW k \in Keys, NEW r \in Rids, SplitLeaf(k, r) PROVE Chain'
    BY <1>3, SplitLeafLinks DEF Chain
<1>4. ASSUME NEW k \in Keys, NEW r \in Rids, SplitThrows(k, r) PROVE Chain'
    BY <1>4, SplitThrowsLinks DEF Chain
<1>5. ASSUME NEW k \in Keys, RemoveNothing(k) PROVE Chain'
    BY <1>5 DEF RemoveNothing, SInv, Chain
<1>6. ASSUME NEW k \in Keys, RemovePair(k) PROVE Chain'
    BY <1>6, RemovePairLinks DEF Chain
<1>7. ASSUME NEW k \in Keys, RemoveLeaf(k) PROVE Chain'
    BY <1>7, RemoveLeafLinks DEF Chain
<1>8. ASSUME NEW k \in Keys, RemoveLast(k) PROVE Chain'
    BY <1>8, RemoveLastLinks DEF Chain
<1>9. CASE UNCHANGED vars
    BY <1>9 DEF vars, SInv, Chain
<1> QED
    BY <1>1, <1>2, <1>3, <1>4, <1>5, <1>6, <1>7, <1>8, <1>9 DEF Next

\* The order and the reach of the links is an invariant of every history.
THEOREM ChainInvariance == Spec => []SInv
BY InitSInv, NextLinks, PTL DEF Spec

-----------------------------------------------------------------------------
(* The scan                                                                *)

\* What one leaf after the other holds.
LEMMA PairsOfBoth ==
    ASSUME NEW s \in Seq(Pair), NEW t \in Seq(Pair)
    PROVE  /\ s \o t \in Seq(Pair)
           /\ PairsIn(s \o t) = PairsIn(s) \cup PairsIn(t)
<1>1. /\ s \o t \in Seq(Pair) /\ Len(s \o t) = Len(s) + Len(t)
      /\ \A i \in 1 .. Len(s) + Len(t) :
            (s \o t)[i] = IF i <= Len(s) THEN s[i] ELSE t[i - Len(s)]
      /\ Len(s) \in Nat /\ Len(t) \in Nat
    BY ConcatProperties
<1>2. ASSUME NEW e \in PairsIn(s) PROVE e \in PairsIn(s \o t)
    <2>1. PICK i \in 1 .. Len(s) : s[i] = e
        BY DEF PairsIn
    <2>2. i \in 1 .. Len(s) + Len(t) /\ i <= Len(s)
        BY <1>1
    <2> QED
        BY <1>1, <2>1, <2>2 DEF PairsIn
<1>3. ASSUME NEW e \in PairsIn(t) PROVE e \in PairsIn(s \o t)
    <2>1. PICK i \in 1 .. Len(t) : t[i] = e
        BY DEF PairsIn
    <2>2. Len(s) + i \in 1 .. Len(s) + Len(t) /\ ~(Len(s) + i <= Len(s))
          /\ Len(s) + i - Len(s) = i
        BY <1>1
    <2>3. (s \o t)[Len(s) + i] = e
        BY <1>1, <2>1, <2>2
    <2> QED
        BY <1>1, <2>2, <2>3 DEF PairsIn
<1>4. ASSUME NEW e \in PairsIn(s \o t) PROVE e \in PairsIn(s) \cup PairsIn(t)
    <2>1. PICK i \in 1 .. Len(s) + Len(t) : (s \o t)[i] = e
        BY <1>1 DEF PairsIn
    <2>2. CASE i <= Len(s)
        <3>1. i \in 1 .. Len(s) /\ s[i] = e
            BY <1>1, <2>1, <2>2
        <3> QED
            BY <3>1 DEF PairsIn
    <2>3. CASE ~(i <= Len(s))
        <3>1. i - Len(s) \in 1 .. Len(t) /\ t[i - Len(s)] = e
            BY <1>1, <2>1, <2>3
        <3> QED
            BY <3>1 DEF PairsIn
    <2> QED
        BY <2>2, <2>3
<1> QED
    BY <1>1, <1>2, <1>3, <1>4

LEMMA BothAscend ==
    ASSUME NEW s \in Seq(Pair), NEW t \in Seq(Pair), Ascending(s), Ascending(t),
           \A a \in PairsIn(s), b \in PairsIn(t) : a.key < b.key
    PROVE  Ascending(s \o t)
<1>1. /\ Len(s \o t) = Len(s) + Len(t)
      /\ \A i \in 1 .. Len(s) + Len(t) :
            (s \o t)[i] = IF i <= Len(s) THEN s[i] ELSE t[i - Len(s)]
      /\ Len(s) \in Nat /\ Len(t) \in Nat
    BY ConcatProperties
<1>2. SUFFICES ASSUME NEW i \in 1 .. Len(s) + Len(t),
                      NEW j \in 1 .. Len(s) + Len(t), i < j
               PROVE  (s \o t)[i].key < (s \o t)[j].key
    BY <1>1 DEF Ascending
<1>3. CASE j <= Len(s)
    <2>1. i \in 1 .. Len(s) /\ j \in 1 .. Len(s) /\ i <= Len(s)
        BY <1>1, <1>2, <1>3
    <2> QED
        BY <1>1, <1>2, <1>3, <2>1 DEF Ascending
<1>4. CASE i <= Len(s) /\ ~(j <= Len(s))
    <2>1. i \in 1 .. Len(s) /\ j - Len(s) \in 1 .. Len(t)
        BY <1>1, <1>4
    <2>2. s[i] \in PairsIn(s) /\ t[j - Len(s)] \in PairsIn(t)
        BY <2>1 DEF PairsIn
    <2> QED
        BY <1>1, <1>4, <2>2
<1>5. CASE ~(i <= Len(s))
    <2>1. /\ i - Len(s) \in 1 .. Len(t) /\ j - Len(s) \in 1 .. Len(t)
          /\ i - Len(s) < j - Len(s) /\ ~(j <= Len(s))
        BY <1>1, <1>2, <1>5
    <2>2. t[i - Len(s)].key < t[j - Len(s)].key
        BY <2>1 DEF Ascending
    <2> QED
        BY <1>1, <1>5, <2>1, <2>2
<1>6. j <= Len(s) \/ (i <= Len(s) /\ ~(j <= Len(s))) \/ ~(i <= Len(s))
    OBVIOUS
<1> QED
    BY <1>3, <1>4, <1>5, <1>6

\* Leaves that follow one another in the order of their keys.
InOrder(seqs, N) ==
    /\ \A j \in 1 .. N : Ascending(seqs[j])
    /\ \A i, j \in 1 .. N :
          i < j => \A a \in PairsIn(seqs[i]), b \in PairsIn(seqs[j]) : a.key < b.key

LEMMA FlatPairs ==
    ASSUME NEW N \in Nat \ {0}, NEW seqs \in [1 .. N -> Seq(Pair)]
    PROVE  /\ FlattenSeq(seqs) \in Seq(Pair)
           /\ PairsIn(FlattenSeq(seqs)) = UNION {PairsIn(seqs[j]) : j \in 1 .. N}
           /\ InOrder(seqs, N) => Ascending(FlattenSeq(seqs))
<1>1. PICK f : FlatBy(f, seqs, N)
    BY Flattened
<1> DEFINE Right(i) == /\ f[i] \in Seq(Pair)
                       /\ PairsIn(f[i]) = UNION {PairsIn(seqs[j]) : j \in 1 .. i}
                       /\ InOrder(seqs, N) => Ascending(f[i])
           S == {n \in Nat : Right(n + 1)}
<1>2. N - 1 \in Nat /\ 1 \in 1 .. N /\ N - 1 + 1 = N
    OBVIOUS
<1>3. 0 \in S
    <2>1. f[1] = seqs[1] /\ seqs[1] \in Seq(Pair)
        BY <1>1, <1>2 DEF FlatBy
    <2>2. 1 .. 1 = {1}
        OBVIOUS
    <2>3. InOrder(seqs, N) => Ascending(f[1])
        BY <1>2, <2>1 DEF InOrder
    <2>4. PairsIn(f[1]) = UNION {PairsIn(seqs[j]) : j \in 1 .. 1}
        BY <2>1, <2>2
    <2>5. Right(1) /\ 0 + 1 = 1
        BY <2>1, <2>3, <2>4
    <2> HIDE DEF Right
    <2> QED
        BY <2>5
<1>4. ASSUME NEW n \in 0 .. N - 1 - 1, n \in S PROVE n + 1 \in S
    <2>1. PICK i \in 1 .. N - 1 : i = n + 1
        BY <1>2
    <2>2. f[i + 1] = f[i] \o seqs[i + 1] /\ i + 1 \in 1 .. N
        <3>1. i + 1 \in 1 .. N
            OBVIOUS
        <3>2. f[i + 1] = f[i] \o seqs[i + 1]
            BY <1>1 DEF FlatBy
        <3> QED
            BY <3>1, <3>2
    <2>3. Right(i) /\ seqs[i + 1] \in Seq(Pair)
        BY <1>4, <2>1, <2>2
    <2>4. /\ f[i + 1] \in Seq(Pair)
          /\ PairsIn(f[i + 1]) = PairsIn(f[i]) \cup PairsIn(seqs[i + 1])
        BY <2>2, <2>3, PairsOfBoth
    <2>5. 1 .. i + 1 = (1 .. i) \cup {i + 1}
        OBVIOUS
    <2>6. PairsIn(f[i + 1]) = UNION {PairsIn(seqs[j]) : j \in 1 .. i + 1}
        BY <2>3, <2>4, <2>5
    <2>7. ASSUME InOrder(seqs, N) PROVE Ascending(f[i + 1])
        <3>1. ASSUME NEW a \in PairsIn(f[i]), NEW b \in PairsIn(seqs[i + 1])
              PROVE  a.key < b.key
            <4>1. PICK j \in 1 .. i : a \in PairsIn(seqs[j])
                BY <2>3
            <4>2. j \in 1 .. N /\ j < i + 1
                OBVIOUS
            <4> QED
                BY <2>2, <2>7, <4>1, <4>2 DEF InOrder
        <3>2. Ascending(f[i]) /\ Ascending(seqs[i + 1])
            BY <2>2, <2>3, <2>7 DEF InOrder
        <3> QED
            BY <2>2, <2>3, <3>1, <3>2, BothAscend
    <2>8. Right(i + 1)
        BY <2>4, <2>6, <2>7
    <2> HIDE DEF Right
    <2> QED
        BY <2>1, <2>8
<1> HIDE DEF Right
<1> HIDE DEF S
<1>5. \A n \in 0 .. N - 1 : n \in S
    BY <1>2, <1>3, <1>4, BoundedInduction
<1>6. Right(N)
    <2>1. N - 1 \in S
        BY <1>2, <1>5
    <2> QED
        BY <1>2, <2>1 DEF S
<1> QED
    BY <1>1, <1>6 DEF Right, FlatBy

\* A leaf without pairs, and one without a leaf behind it, ends a scan.
Ends(p) == leaf[p].entries = <<>> \/ leaf[p].next = InvalidPage

\* The leaves of w follow the links from the first leaf, and nothing but the
\* n-th round stopped them.
Follows(w, n) ==
    /\ w \in Seq(Pages) /\ Len(w) \in Nat \ {0}
    /\ w[1] = FirstLeaf
    /\ \A m \in 1 .. Len(w) - 1 : /\ leaf[w[m]].entries # <<>>
                                  /\ w[m + 1] = leaf[w[m]].next
    /\ Len(w) <= n
    /\ Len(w) < n => Ends(Last(w))

LEMMA FollowsNext ==
    ASSUME leaf \in [Pages -> LeafPage], NEW n \in Nat, NEW w, Follows(w, n),
           Len(w) = n, ~Ends(Last(w))
    PROVE  Follows(Append(w, leaf[Last(w)].next), n + 1)
<1> DEFINE q == leaf[Last(w)].next
           v == Append(w, q)
<1>1. /\ w \in Seq(Pages) /\ Len(w) \in Nat /\ n \in 1 .. Len(w)
      /\ Last(w) = w[n] /\ w[n] \in Pages
    <2>1. w \in Seq(Pages) /\ Len(w) = n /\ Len(w) \in Nat \ {0}
        BY DEF Follows
    <2>2. n \in 1 .. Len(w)
        BY <2>1
    <2> QED
        BY <2>1, <2>2 DEF Last
<1>2. q \in Pages /\ leaf[w[n]].entries # <<>> /\ q = leaf[w[n]].next
    <2>1. leaf[w[n]] \in LeafPage
        BY <1>1
    <2> QED
        BY <1>1, <2>1 DEF Ends, LeafPage
<1> HIDE DEF q
<1>3. /\ v \in Seq(Pages) /\ Len(v) = n + 1
      /\ \A m \in 1 .. n : v[m] = w[m]
      /\ v[n + 1] = q
    BY <1>1, <1>2
<1> HIDE DEF v
<1>4. ASSUME NEW m \in 1 .. n
      PROVE  leaf[v[m]].entries # <<>> /\ v[m + 1] = leaf[v[m]].next
    <2>1. CASE m = n
        BY <1>2, <1>3, <2>1
    <2>2. CASE m # n
        <3>1. m \in 1 .. Len(w) - 1 /\ m + 1 \in 1 .. n
            BY <2>2
        <3> QED
            BY <1>3, <3>1 DEF Follows
    <2> QED
        BY <2>1, <2>2
<1>5. v[1] = FirstLeaf
    BY <1>1, <1>3 DEF Follows
<1>6. n + 1 \in Nat \ {0} /\ n + 1 - 1 = n /\ n + 1 <= n + 1 /\ ~(n + 1 < n + 1)
    OBVIOUS
<1>7. Follows(v, n + 1)
    BY <1>3, <1>4, <1>5, <1>6 DEF Follows
<1> QED
    BY <1>7 DEF v, q

\* The rounds of the scan.
Rounds(path, N) ==
    path = [n \in 0 .. N |->
              IF n = 0 THEN <<FirstLeaf>>
              ELSE IF /\ Len(path[n - 1]) = n
                      /\ leaf[Last(path[n - 1])].entries # <<>>
                      /\ leaf[Last(path[n - 1])].next # InvalidPage
                   THEN Append(path[n - 1], leaf[Last(path[n - 1])].next)
                   ELSE path[n - 1]]

LEMMA RoundsExist ==
    ASSUME leaf \in [Pages -> LeafPage], FirstLeaf \in Pages, NEW N \in Nat
    PROVE  \E path : Rounds(path, N)
<1> DEFINE A == Seq(Pages) \ {<<>>}
           Goes(n, w) == /\ Len(w) = n
                         /\ leaf[Last(w)].entries # <<>>
                         /\ leaf[Last(w)].next # InvalidPage
           F == [z \in Nat \X A |->
                    IF Goes(z[1], z[2]) THEN Append(z[2], leaf[Last(z[2])].next)
                    ELSE z[2]]
<1>1. ASSUME NEW n \in Nat, NEW w \in A, Goes(n, w)
      PROVE  Append(w, leaf[Last(w)].next) \in A
    <2>1. w \in Seq(Pages) /\ Len(w) \in 1 .. Len(w)
        <3>1. w \in Seq(Pages) /\ w # <<>>
            OBVIOUS
        <3> HIDE DEF A
        <3> QED
            BY <3>1
    <2>2. Last(w) \in Pages
        BY <2>1 DEF Last
    <2>3. leaf[Last(w)] \in LeafPage
        BY <2>2
    <2>4. leaf[Last(w)].next \in Pages
        BY <1>1, <2>3 DEF LeafPage
    <2>5. Append(w, leaf[Last(w)].next) \in Seq(Pages)
          /\ Len(Append(w, leaf[Last(w)].next)) = Len(w) + 1
        BY <2>1, <2>4
    <2>6. Len(w) + 1 # 0 /\ Len(<<>>) = 0
        BY <2>1
    <2> QED
        BY <2>5, <2>6
<1>2. <<FirstLeaf>> \in A
    OBVIOUS
<1>3. F \in [Nat \X A -> A]
    <2> HIDE DEF A, Goes
    <2> QED
        BY <1>1
<1>4. \A n \in Nat, w \in A :
        F[<<n, w>>] = IF Goes(n, w) THEN Append(w, leaf[Last(w)].next) ELSE w
    OBVIOUS
<1> HIDE DEF F
<1> HIDE DEF A
<1>5. PICK path \in [0 .. N -> A] : Iterates(path, <<FirstLeaf>>, F, N)
    BY <1>2, <1>3, IterationExists
<1>6. ASSUME NEW n \in 1 .. N
      PROVE  F[<<n, path[n - 1]>>] = IF Goes(n, path[n - 1])
                                     THEN Append(path[n - 1], leaf[Last(path[n - 1])].next)
                                     ELSE path[n - 1]
    <2>1. n \in Nat /\ n - 1 \in 0 .. N
        OBVIOUS
    <2>2. path[n - 1] \in A
        BY <1>5, <2>1
    <2> HIDE DEF Goes
    <2> QED
        BY <1>4, <2>1, <2>2
<1>7. path = [n \in 0 .. N |-> IF n = 0 THEN <<FirstLeaf>> ELSE F[<<n, path[n - 1]>>]]
    BY <1>5 DEF Iterates
<1>8. \A n \in 0 .. N : n = 0 \/ n \in 1 .. N
    OBVIOUS
<1> DEFINE g == [n \in 0 .. N |->
                   IF n = 0 THEN <<FirstLeaf>>
                   ELSE IF Goes(n, path[n - 1])
                        THEN Append(path[n - 1], leaf[Last(path[n - 1])].next)
                        ELSE path[n - 1]]
<1>9. ASSUME NEW n \in 0 .. N PROVE path[n] = g[n]
    <2> HIDE DEF Goes
    <2>1. CASE n = 0
        BY <1>7, <2>1
    <2>2. CASE n # 0
        <3>1. n \in 1 .. N
            BY <1>8, <2>2
        <3>2. path[n] = F[<<n, path[n - 1]>>]
            BY <1>7, <2>2
        <3> QED
            BY <1>6, <2>2, <3>1, <3>2
    <2> QED
        BY <2>1, <2>2
<1>10. path = g
    <2>1. DOMAIN path = 0 .. N /\ path = [n \in 0 .. N |-> path[n]]
        BY <1>5
    <2>2. g = [n \in 0 .. N |-> g[n]]
        OBVIOUS
    <2> HIDE DEF g
    <2> QED
        BY <1>9, <2>1, <2>2
<1>11. Rounds(path, N)
    BY <1>10 DEF Rounds
<1> QED
    BY <1>11

\* The scan visits the leaves that the links lead to.
LEMMA ScanFollows ==
    ASSUME leaf \in [Pages -> LeafPage], FirstLeaf \in Pages
    PROVE  Follows(Visited, MaxPages)
<1> DEFINE N == MaxPages - 1
           path == CHOOSE h : Rounds(h, N)
<1>1. N \in Nat /\ N + 1 = MaxPages /\ N \in 0 .. N
    OBVIOUS
<1> HIDE DEF N
<1>2. Rounds(path, N)
    BY <1>1, RoundsExist
<1>3. Visited = path[N]
    BY DEF Visited, Rounds, N
<1> HIDE DEF path
<1> DEFINE T == {n \in Nat : n <= N => Follows(path[n], n + 1)}
<1>4. 0 \in T
    <2>1. path[0] = <<FirstLeaf>>
        BY <1>1, <1>2 DEF Rounds
    <2>2. /\ <<FirstLeaf>> \in Seq(Pages) /\ Len(<<FirstLeaf>>) = 1
          /\ <<FirstLeaf>>[1] = FirstLeaf
        OBVIOUS
    <2>3. 1 \in Nat \ {0} /\ 1 .. 1 - 1 = {} /\ 1 <= 0 + 1 /\ ~(1 < 0 + 1)
        OBVIOUS
    <2>4. Follows(path[0], 0 + 1)
        BY <2>1, <2>2, <2>3 DEF Follows
    <2> QED
        BY <2>4
<1>5. ASSUME NEW n \in Nat, n \in T, n + 1 <= N
      PROVE  Follows(path[n + 1], n + 1 + 1)
    <2>1. /\ n + 1 \in 0 .. N /\ n + 1 # 0 /\ n + 1 - 1 = n
          /\ n <= N /\ n + 1 \in Nat
        BY <1>1, <1>5
    <2>2. Follows(path[n], n + 1)
        BY <1>5, <2>1
    <2> HIDE DEF T
    <2>3. path[n + 1] = IF Len(path[n]) = n + 1 /\ ~Ends(Last(path[n]))
                        THEN Append(path[n], leaf[Last(path[n])].next)
                        ELSE path[n]
        <3> DEFINE w == path[n]
        <3>1. path[n + 1] = IF /\ Len(w) = n + 1
                               /\ leaf[Last(w)].entries # <<>>
                               /\ leaf[Last(w)].next # InvalidPage
                            THEN Append(w, leaf[Last(w)].next)
                            ELSE w
            <4>1. PICK m \in 0 .. N : m = n + 1 /\ m # 0 /\ m - 1 = n
                BY <2>1
            <4>2. path[m] = IF /\ Len(path[m - 1]) = m
                               /\ leaf[Last(path[m - 1])].entries # <<>>
                               /\ leaf[Last(path[m - 1])].next # InvalidPage
                            THEN Append(path[m - 1], leaf[Last(path[m - 1])].next)
                            ELSE path[m - 1]
                BY <1>2, <4>1 DEF Rounds
            <4> QED
                BY <4>1, <4>2
        <3> HIDE DEF w
        <3>2. Ends(Last(w)) <=> \/ leaf[Last(w)].entries = <<>>
                                \/ leaf[Last(w)].next = InvalidPage
            BY DEF Ends
        <3>3. path[n + 1] = IF Len(w) = n + 1 /\ ~Ends(Last(w))
                            THEN Append(w, leaf[Last(w)].next) ELSE w
            BY <3>1, <3>2
        <3> QED
            BY <3>3 DEF w
    <2>4. CASE Len(path[n]) = n + 1 /\ ~Ends(Last(path[n]))
        BY <2>1, <2>2, <2>3, <2>4, FollowsNext
    <2>5. CASE ~(Len(path[n]) = n + 1 /\ ~Ends(Last(path[n])))
        <3>1. path[n + 1] = path[n]
            BY <2>3, <2>5
        <3>2. /\ Len(path[n]) \in Nat /\ Len(path[n]) <= n + 1
              /\ Len(path[n]) < n + 1 => Ends(Last(path[n]))
            BY <2>2 DEF Follows
        <3>3. Len(path[n]) <= n + 1 + 1
            BY <3>2
        <3>4. Ends(Last(path[n]))
            <4>1. Len(path[n]) < n + 1 \/ Len(path[n]) = n + 1
                BY <3>2
            <4> QED
                BY <2>5, <3>2, <4>1
        <3> QED
            BY <2>2, <3>1, <3>3, <3>4 DEF Follows
    <2> QED
        BY <2>4, <2>5
<1>6. \A n \in Nat : n \in T => n + 1 \in T
    <2>1. ASSUME NEW n \in Nat, n \in T PROVE n + 1 \in T
        <3>1. n + 1 <= N => Follows(path[n + 1], n + 1 + 1)
            BY <1>5, <2>1
        <3> QED
            BY <3>1
    <2> HIDE DEF T
    <2> QED
        BY <2>1
<1> HIDE DEF T
<1>7. N \in T
    BY <1>1, <1>4, <1>6, SetInduction
<1>8. N <= N
    BY <1>1
<1> QED
    BY <1>1, <1>3, <1>7, <1>8 DEF T

LEMMA VisitedIs ==
    ASSUME SInv
    PROVE  /\ Follows(Visited, MaxPages)
           /\ Len(Visited) \in Nat \ {0}
           /\ \A m \in 1 .. Len(Visited) : Visited[m] \in Pages
           /\ Scan \in Seq(Pair)
           /\ PairsIn(Scan) = UNION {PairsIn(leaf[Visited[m]].entries) :
                                        m \in 1 .. Len(Visited)}
           /\ InOrder([m \in 1 .. Len(Visited) |-> leaf[Visited[m]].entries],
                      Len(Visited)) => Ascending(Scan)
<1>1. leaf \in [Pages -> LeafPage] /\ FirstLeaf \in Pages
    <2>1. leaf \in [Pages -> LeafPage]
        BY InvBasics DEF SInv
    <2>2. inner # <<>> => 1 \in 1 .. Len(inner)
        BY ChainBasics
    <2> QED
        BY <2>1, <2>2, ChainBasics DEF FirstLeaf
<1>2. Follows(Visited, MaxPages)
    BY <1>1, ScanFollows
<1> DEFINE v == Visited
           seqs == [m \in 1 .. Len(v) |-> leaf[v[m]].entries]
<1>3. v \in Seq(Pages) /\ Len(v) \in Nat \ {0}
    BY <1>2 DEF Follows
<1>4. Scan = FlattenSeq([m \in DOMAIN v |-> leaf[v[m]].entries])
    BY DEF Scan
<1> HIDE DEF v
<1>5. \A m \in 1 .. Len(v) : v[m] \in Pages
    BY <1>3
<1>6. DOMAIN v = 1 .. Len(v)
    BY <1>3
<1>7. seqs \in [1 .. Len(v) -> Seq(Pair)]
    BY <1>5, InvBasics DEF SInv
<1>8. Scan = FlattenSeq(seqs)
    BY <1>4, <1>6
<1>9. \A m \in 1 .. Len(v) : seqs[m] = leaf[v[m]].entries
    OBVIOUS
<1> DEFINE s == seqs
<1>10. s \in [1 .. Len(v) -> Seq(Pair)] /\ Scan = FlattenSeq(s)
       /\ \A m \in 1 .. Len(v) : s[m] = leaf[v[m]].entries
    BY <1>7, <1>8, <1>9
<1> HIDE DEF s
<1>11. /\ Scan \in Seq(Pair)
       /\ PairsIn(Scan) = UNION {PairsIn(s[j]) : j \in 1 .. Len(v)}
       /\ InOrder(s, Len(v)) => Ascending(Scan)
    BY <1>3, <1>10, FlatPairs
<1>12. {PairsIn(s[j]) : j \in 1 .. Len(v)}
         = {PairsIn(leaf[v[m]].entries) : m \in 1 .. Len(v)}
    BY <1>10
<1>13. InOrder(seqs, Len(v)) => Ascending(Scan)
    BY <1>11 DEF s
<1> HIDE DEF seqs
<1>14. /\ Len(v) \in Nat \ {0}
       /\ \A m \in 1 .. Len(v) : v[m] \in Pages
       /\ PairsIn(Scan) = UNION {PairsIn(leaf[v[m]].entries) : m \in 1 .. Len(v)}
    BY <1>3, <1>5, <1>11, <1>12
<1> QED
    BY <1>2, <1>11, <1>13, <1>14 DEF v, seqs

\* Leaves with pairs are where a descent can end.
LEMMA KeptInTree ==
    ASSUME SInv, NoLeafLost, NEW p \in Pages, leaf[p].entries # <<>>
    PROVE  /\ p \in Reached(inner, root)
           /\ inner # <<>> => \E i \in 2 .. Len(inner) : p = inner[i].child
<1>1. inner # <<>> => leaf[root].entries = <<>>
    BY DEF SInv, Chain, Links
<1>2. p # root => \E i \in 2 .. Len(inner) : p = inner[i].child
    BY DEF NoLeafLost
<1>3. CASE inner = <<>>
    <2>1. Len(inner) = 0
        BY <1>3
    <2>2. 2 .. Len(inner) = {}
        BY <2>1
    <2> QED
        BY <1>2, <1>3, <2>2 DEF Reached
<1>4. CASE inner # <<>>
    BY <1>1, <1>2, <1>4 DEF Reached
<1> QED
    BY <1>3, <1>4

\* From one leaf of the tree the chain leads to leaves behind it only.
LEMMA ChainLeadsOn ==
    ASSUME SInv, NoLeafLost, inner # <<>>,
           NEW m \in 1 .. Len(Visited), NEW l \in 1 .. Len(Visited), m < l,
           NEW i \in 2 .. Len(inner), NEW j \in 2 .. Len(inner),
           Visited[m] = inner[i].child, Visited[l] = inner[j].child
    PROVE  i < j
<1> DEFINE v == Visited
           c(x) == inner[x].child
           T == {d \in Nat : m + d + 1 <= Len(v) =>
                    \A x \in 2 .. Len(inner) : v[m + d + 1] = c(x) => i < x}
<1>1. /\ Len(v) \in Nat \ {0}
      /\ \A y \in 1 .. Len(v) : v[y] \in Pages
      /\ \A y \in 1 .. Len(v) - 1 : /\ leaf[v[y]].entries # <<>>
                                    /\ v[y + 1] = leaf[v[y]].next
    BY VisitedIs DEF Follows
<1>2. \A x, y \in 2 .. Len(inner) : leaf[c(x)].next = c(y) => x < y
    BY DEF SInv, Chain, Links, Ordered
<1>3. v[m] = c(i) /\ v[l] = c(j) /\ m \in 1 .. Len(v) /\ l \in 1 .. Len(v)
    OBVIOUS
<1>4. \A y \in 1 .. Len(v) - 1 : \E x \in 2 .. Len(inner) : v[y] = c(x)
    <2>1. \A y \in 1 .. Len(v) - 1 : y \in 1 .. Len(v)
        BY <1>1
    <2> QED
        BY <1>1, <2>1, KeptInTree
<1> HIDE DEF v, c
<1>5. 0 \in T
    <2>1. ASSUME m + 0 + 1 <= Len(v), NEW x \in 2 .. Len(inner),
                 v[m + 0 + 1] = c(x)
          PROVE  i < x
        <3>1. m \in 1 .. Len(v) - 1 /\ m + 0 + 1 = m + 1
            BY <1>1, <1>3, <2>1
        <3>2. leaf[c(i)].next = c(x)
            BY <1>1, <1>3, <2>1, <3>1
        <3> QED
            BY <1>2, <3>2
    <2> QED
        BY <2>1
<1>6. ASSUME NEW d \in Nat, d \in T PROVE d + 1 \in T
    <2>1. ASSUME m + (d + 1) + 1 <= Len(v), NEW x \in 2 .. Len(inner),
                 v[m + (d + 1) + 1] = c(x)
          PROVE  i < x
        <3>1. PICK y \in 1 .. Len(v) - 1 : y = m + d + 1 /\ y + 1 = m + (d + 1) + 1
            BY <1>1, <1>3, <2>1
        <3>2. PICK z \in 2 .. Len(inner) : v[y] = c(z)
            BY <1>4
        <3>3. y <= Len(v)
            BY <1>1
        <3>4. i < z
            BY <1>6, <3>1, <3>2, <3>3
        <3>5. v[y + 1] = leaf[v[y]].next
            BY <1>1
        <3>6. leaf[c(z)].next = c(x)
            BY <2>1, <3>1, <3>2, <3>5
        <3>7. z < x
            BY <1>2, <3>6
        <3>8. i \in Int /\ z \in Int /\ x \in Int
            OBVIOUS
        <3> HIDE DEF T
        <3> QED
            BY <3>4, <3>7, <3>8
    <2> QED
        BY <2>1
<1> HIDE DEF T
<1>7. \A d \in Nat : d \in T
    BY <1>5, <1>6, SetInduction
<1>8. PICK d \in Nat : d = l - m - 1 /\ m + d + 1 = l
    BY <1>1, <1>3
<1>9. l <= Len(v)
    BY <1>1, <1>3
<1> QED
    BY <1>3, <1>7, <1>8, <1>9 DEF T

\* The keys below one entry of the root are below those of a later entry.
LEMMA ChildrenInOrder ==
    ASSUME SInv, NEW i \in 2 .. Len(inner), NEW j \in 2 .. Len(inner), i < j,
           NEW a \in PairsIn(leaf[inner[i].child].entries),
           NEW b \in PairsIn(leaf[inner[j].child].entries)
    PROVE  a.key < b.key
<1>1. Tree(inner, root, leaf) /\ Len(inner) \in Nat /\ inner # <<>>
    BY ChainBasics DEF SInv, BInv
<1>2. Bounds(inner, i, a) /\ Bounds(inner, j, b)
    BY <1>1 DEF Tree, Fits
<1>3. a \in Pair /\ b \in Pair
    BY <1>1, ChainBasics, TreeBasics, LeafBasics
<1>4. a.key \in Nat /\ b.key \in Nat
    BY <1>3 DEF Pair
<1>5. j - 1 \in 2 .. Len(inner) /\ j > 2 /\ i < Len(inner) /\ (i = j - 1 \/ i < j - 1)
    BY <1>1
<1>6. a.key <= inner[i].key /\ inner[j - 1].key < b.key
    BY <1>2, <1>5 DEF Bounds
<1>7. inner[i].key \in Nat /\ inner[j - 1].key \in Nat
    <2>1. i \in 1 .. Len(inner) /\ j - 1 \in 1 .. Len(inner)
        BY <1>1, <1>5
    <2> QED
        BY <1>1, <2>1, TreeBasics
<1>8. i = j - 1 \/ inner[i].key < inner[j - 1].key
    BY <1>1, <1>5 DEF Tree, Fits
<1> DEFINE x == inner[i].key
           y == inner[j - 1].key
<1>9. x \in Nat /\ y \in Nat /\ a.key <= x /\ y < b.key /\ x <= y
    BY <1>6, <1>7, <1>8
<1> HIDE DEF x, y
<1> QED
    BY <1>4, <1>9

\* As long as no leaf is lost, a scan returns pairs of the index, in the order
\* of the keys.
LEMMA ScanAscends ==
    ASSUME SInv, NoLeafLost
    PROVE  /\ Ascending(Scan)
           /\ PairsIn(Scan) \subseteq Stored(inner, root, leaf)
<1> DEFINE v == Visited
           s == [m \in 1 .. Len(v) |-> leaf[v[m]].entries]
<1>1. /\ Len(v) \in Nat \ {0}
      /\ \A m \in 1 .. Len(v) : v[m] \in Pages
      /\ PairsIn(Scan) = UNION {PairsIn(leaf[v[m]].entries) : m \in 1 .. Len(v)}
      /\ InOrder(s, Len(v)) => Ascending(Scan)
    BY VisitedIs
<1>2. ASSUME NEW m \in 1 .. Len(v), NEW e \in PairsIn(leaf[v[m]].entries)
      PROVE  /\ v[m] \in Reached(inner, root)
             /\ inner # <<>> => \E i \in 2 .. Len(inner) : v[m] = inner[i].child
    <2>1. v[m] \in Pages
        BY <1>1
    <2>2. leaf[v[m]].entries # <<>>
        BY <2>1, InvBasics, LeafBasics DEF SInv
    <2> HIDE DEF v
    <2> QED
        BY <2>1, <2>2, KeptInTree
<1>3. PairsIn(Scan) \subseteq Stored(inner, root, leaf)
    <2> HIDE DEF v
    <2> QED
        BY <1>1, <1>2 DEF Stored
<1>4. ASSUME NEW m \in 1 .. Len(v), NEW l \in 1 .. Len(v), m < l,
             NEW a \in PairsIn(leaf[v[m]].entries),
             NEW b \in PairsIn(leaf[v[l]].entries)
      PROVE  a.key < b.key
    <2>1. CASE inner = <<>>
        <3>1. v[1] = root /\ \A y \in 1 .. Len(v) - 1 : v[y + 1] = leaf[v[y]].next
            BY <2>1, VisitedIs DEF Follows, FirstLeaf
        <3>2. leaf[root].next = InvalidPage
            BY <2>1 DEF SInv, Chain, Links
        <3>3. 1 \in 1 .. Len(v) - 1 /\ 1 + 1 \in 1 .. Len(v)
            <4> HIDE DEF v
            <4> QED
                BY <1>1, <1>4
        <3>4. InvalidPage \in Pages
            BY <1>1, <3>1, <3>2, <3>3
        <3> QED
            BY <3>4 DEF InvalidPage, Pages
    <2>2. CASE inner # <<>>
        <3>1. PICK i \in 2 .. Len(inner) : v[m] = inner[i].child
            BY <1>2, <2>2
        <3>2. PICK j \in 2 .. Len(inner) : v[l] = inner[j].child
            BY <1>2, <2>2
        <3>3. i < j
            BY <1>4, <2>2, <3>1, <3>2, ChainLeadsOn
        <3> HIDE DEF v
        <3> QED
            BY <3>1, <3>2, <3>3, ChildrenInOrder
    <2> QED
        BY <2>1, <2>2
<1>5. \A m \in 1 .. Len(v) : Ascending(leaf[v[m]].entries)
    BY <1>1, InvBasics DEF SInv
<1>6. InOrder(s, Len(v))
    <2> HIDE DEF v
    <2>1. \A m \in 1 .. Len(v) : s[m] = leaf[v[m]].entries
        OBVIOUS
    <2> HIDE DEF s
    <2> QED
        BY <1>4, <1>5, <2>1 DEF InOrder
<1> QED
    BY <1>1, <1>3, <1>6

\* While no leaf was dropped, the scan comes to every leaf of the tree.
LEMMA AllVisited ==
    ASSUME SInv, AllPagesInUse, NEW p \in Reached(inner, root)
    PROVE  \E m \in 1 .. Len(Visited) : Visited[m] = p
<1> DEFINE v == Visited
           c(x) == inner[x].child
<1>1. /\ Len(v) \in Nat \ {0} /\ Follows(v, MaxPages) /\ v[1] = FirstLeaf
      /\ \A y \in 1 .. Len(v) - 1 : v[y + 1] = leaf[v[y]].next
      /\ Len(v) < MaxPages => Ends(Last(v))
      /\ 1 \in 1 .. Len(v)
    <2>1. /\ Len(v) \in Nat \ {0} /\ Follows(v, MaxPages)
        BY VisitedIs
    <2> HIDE DEF v
    <2> QED
        BY <2>1 DEF Follows
<1>2. CASE inner = <<>>
    BY <1>1, <1>2 DEF FirstLeaf, Reached
<1>3. CASE inner # <<>>
    <2> DEFINE n == Len(inner)
               T == {d \in Nat : d <= n - 2 => d + 1 <= Len(v) /\ v[d + 1] = c(d + 2)}
    <2>1. Whole(inner, leaf)
        <3>1. pageCount = InUse(inner)
            BY DEF AllPagesInUse, InUse
        <3> QED
            BY <3>1 DEF SInv, Chain, Links
    <2>2. c(1) = c(2) /\ \A x \in 2 .. n - 1 : leaf[c(x)].next = c(x + 1)
        BY <1>3, <2>1 DEF Whole
    <2>3. n \in Nat /\ n >= 2 /\ n + 1 <= MaxPages
        <3>1. n \in Nat /\ n >= 2
            BY <1>3, ChainBasics
        <3>2. pageCount = n + 1 /\ pageCount \in 2 .. MaxPages
            BY <1>3, InvBasics DEF AllPagesInUse, SInv
        <3> QED
            BY <3>1, <3>2
    <2>4. \A x \in 2 .. n : c(x) \in Pages /\ leaf[c(x)].entries # <<>>
        <3>1. Tree(inner, root, leaf)
            BY DEF SInv, BInv
        <3> QED
            BY <1>3, <3>1, ChainBasics DEF Tree, Fits
    <2>5. v[1] = c(1)
        BY <1>1, <1>3 DEF FirstLeaf
    <2>6. p \in {c(x) : x \in 2 .. n}
        BY <1>3 DEF Reached
    <2> HIDE DEF v, c, n
    <2>7. 0 \in T
        <3>1. v[0 + 1] = c(0 + 2) /\ 0 + 1 <= Len(v)
            BY <1>1, <2>2, <2>5
        <3> QED
            BY <3>1
    <2>8. ASSUME NEW d \in Nat, d \in T PROVE d + 1 \in T
        <3>1. ASSUME d + 1 <= n - 2
              PROVE  d + 1 + 1 <= Len(v) /\ v[d + 1 + 1] = c(d + 1 + 2)
            <4>1. d <= n - 2
                BY <2>3, <3>1
            <4>2. d + 1 <= Len(v) /\ v[d + 1] = c(d + 2)
                BY <2>8, <4>1
            <4>3. /\ d + 2 \in 2 .. n - 1 /\ d + 2 \in 2 .. n /\ d + 2 + 1 \in 2 .. n
                  /\ d + 2 + 1 = d + 1 + 2
                BY <2>3, <3>1
            <4>4. leaf[v[d + 1]].next = c(d + 1 + 2)
                  /\ c(d + 1 + 2) \in Pages /\ leaf[v[d + 1]].entries # <<>>
                BY <2>2, <2>4, <4>2, <4>3
            <4>5. ~Ends(v[d + 1])
                BY <4>4 DEF Ends, InvalidPage, Pages
            <4>6. Len(v) # d + 1
                <5>1. ASSUME Len(v) = d + 1 PROVE FALSE
                    <6>1. Len(v) < MaxPages
                        BY <2>3, <3>1, <5>1
                    <6>2. Last(v) = v[d + 1]
                        BY <5>1 DEF Last
                    <6> QED
                        BY <1>1, <4>5, <6>1, <6>2
                <5> QED
                    BY <5>1
            <4>7. d + 1 + 1 <= Len(v) /\ d + 1 \in 1 .. Len(v) - 1
                BY <1>1, <4>2, <4>6
            <4>8. v[d + 1 + 1] = leaf[v[d + 1]].next
                BY <1>1, <4>7
            <4> QED
                BY <4>4, <4>7, <4>8
        <3> QED
            BY <3>1
    <2> HIDE DEF T
    <2>9. \A d \in Nat : d \in T
        BY <2>7, <2>8, SetInduction
    <2>10. PICK x \in 2 .. n : p = c(x)
        BY <2>6
    <2>11. PICK d \in Nat : d = x - 2 /\ d + 2 = x /\ d <= n - 2
        BY <2>3
    <2>12. d + 1 <= Len(v) /\ v[d + 1] = c(d + 2)
        BY <2>9, <2>11 DEF T
    <2>13. d + 1 \in 1 .. Len(v)
        BY <1>1, <2>12
    <2>14. v[d + 1] = p
        BY <2>10, <2>11, <2>12
    <2> QED
        BY <2>13, <2>14 DEF v
<1> QED
    BY <1>2, <1>3

LEMMA SoundScan == SInv => ScanIsSound
<1> SUFFICES ASSUME SInv PROVE ScanIsSound
    OBVIOUS
<1> DEFINE s == Scan
<1>1. s \in Seq(Pair) /\ Len(s) \in Nat /\ DOMAIN s = 1 .. Len(s)
    BY VisitedIs
<1>2. Tree(inner, root, leaf)
    BY DEF SInv, BInv
<1>3. ASSUME NoLeafLost, NEW i \in DOMAIN s
      PROVE  Lookup(s[i].key) = s[i].rid
    <2>1. i \in 1 .. Len(s)
        BY <1>1
    <2>2. s[i] \in Stored(inner, root, leaf)
        <3>1. PairsIn(s) \subseteq Stored(inner, root, leaf)
            BY <1>3, ScanAscends
        <3> QED
            BY <2>1, <3>1 DEF PairsIn
    <2> HIDE DEF s
    <2>3. /\ s[i].key \in Keys /\ s[i].rid \in Rids
          /\ s[i] = PairOf(s[i].key, s[i].rid)
        BY <1>1, <2>1, LeafBasics
    <2>4. PICK k \in Keys, r \in Rids : k = s[i].key /\ r = s[i].rid
        BY <2>3
    <2>5. PairOf(k, r) \in Stored(inner, root, leaf)
        BY <2>2, <2>3, <2>4
    <2>6. LookupIn(inner, root, leaf, k) = r
        BY <1>2, <2>5, LookupFinds
    <2> QED
        BY <2>4, <2>6, TreeOperators
<1>4. ASSUME NoLeafLost, NEW i \in 1 .. Len(s) - 1
      PROVE  s[i].key < s[i + 1].key
    <2>1. Ascending(s)
        BY <1>4, ScanAscends
    <2> HIDE DEF s
    <2>2. i \in 1 .. Len(s) /\ i + 1 \in 1 .. Len(s) /\ i < i + 1
        BY <1>1
    <2> QED
        BY <2>1, <2>2 DEF Ascending
<1>5. ASSUME AllPagesInUse, NEW k \in Keys, Lookup(k) # NoRid
      PROVE  k \in {e.key : e \in ToSet(s)}
    <2> DEFINE e == PairOf(k, Lookup(k))
    <2>1. e \in PairsIn(leaf[LeafOf(k)].entries)
        BY <1>5, IsStored DEF SInv
    <2>2. LeafOf(k) \in Reached(inner, root)
        BY <1>2, TreeOperators, LookupFinds
    <2>3. PICK m \in 1 .. Len(Visited) : Visited[m] = LeafOf(k)
        BY <1>5, <2>2, AllVisited
    <2>4. e \in PairsIn(s)
        BY <2>1, <2>3, VisitedIs
    <2>5. e.key = k
        BY DEF PairOf
    <2> HIDE DEF s, e
    <2>6. e \in ToSet(s)
        BY <1>1, <2>4 DEF PairsIn, ToSet
    <2> QED
        BY <2>5, <2>6
<1>6. AllPagesInUse => FullScan
    BY <1>5 DEF FullScan
<1> QED
    BY <1>3, <1>4, <1>6 DEF ScanIsSound

\* A scan returns pairs of the index only, in the order of their keys, and all
\* of them as long as no leaf was dropped.
THEOREM ScansAreSound == Spec => []ScanIsSound
BY ChainInvariance, SoundScan, PTL
=============================================================================
