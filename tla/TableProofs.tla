----------------------------- MODULE TableProofs -----------------------------
(***************************************************************************)
(* Theorems about tables: a row that is inserted is read back under its id *)
(* whatever the pages held before, no id is given out twice, and a scan    *)
(* comes to every row but the last slot's.                                 *)
(*                                                                         *)
(* The way there: a row is what is read of its cells (RowReadBack) and of  *)
(* its text (RowSent), a schema what is read of its text (SchemaSent); a   *)
(* row that is written leaves the other slots of a fixed page (SlotFilled) *)
(* and the other rows of a flexible one (RowAdded) as they are; so the     *)
(* flags and row counts of the pages say which ids are taken (Inv).  A     *)
(* scan goes page by page (PageByPage), and what it finds in a slot is a   *)
(* row of the schema whatever the slot held before (SlotRead).             *)
(***************************************************************************)
EXTENDS Table, Iteration, SequenceTheorems

USE ByteAssumption, PageAssumption

-----------------------------------------------------------------------------
(* Sequences put one after the other                                       *)

\* t has the sequences one after the other, the i-th behind position o[i - 1].
Lays(t, seqs, N, o) ==
    /\ o \in [0 .. N -> Nat] /\ o[0] = 0 /\ Len(t) = o[N]
    /\ \A i \in 0 .. N : o[i] <= Len(t)
    /\ \A i \in 1 .. N :
         /\ o[i] = o[i - 1] + Len(seqs[i])
         /\ \A j \in 1 .. Len(seqs[i]) : t[o[i - 1] + j] = seqs[i][j]

LEMMA OneLaid ==
    ASSUME NEW T, NEW t \in Seq(T), NEW N \in Nat, NEW seqs, NEW o,
           Lays(t, seqs, N, o), seqs[N + 1] \in Seq(T)
    PROVE  \E q : Lays(t \o seqs[N + 1], seqs, N + 1, q)
<1> DEFINE s == seqs[N + 1]
           u == t \o s
           q == [i \in 0 .. N + 1 |-> IF i = N + 1 THEN o[N] + Len(s) ELSE o[i]]
<1>1. /\ u \in Seq(T) /\ Len(u) = Len(t) + Len(s)
      /\ \A i \in 1 .. Len(t) + Len(s) :
            u[i] = IF i <= Len(t) THEN t[i] ELSE s[i - Len(t)]
      /\ Len(s) \in Nat /\ Len(t) \in Nat
    BY ConcatProperties
<1>2. /\ o \in [0 .. N -> Nat] /\ o[0] = 0 /\ Len(t) = o[N]
      /\ \A i \in 0 .. N : o[i] \in Nat /\ o[i] <= Len(t)
    BY DEF Lays
<1>3. /\ q \in [0 .. N + 1 -> Nat]
      /\ \A i \in 0 .. N : q[i] = o[i]
      /\ q[N + 1] = Len(t) + Len(s)
    BY <1>1, <1>2
<1> HIDE DEF u, q
<1>4. \A i \in 0 .. N + 1 : q[i] <= Len(u)
    <2>1. \A i \in 0 .. N + 1 : i = N + 1 \/ i \in 0 .. N
        OBVIOUS
    <2>2. \A i \in 0 .. N : q[i] <= Len(t) /\ q[i] \in Nat
        BY <1>2, <1>3
    <2>3. \A x \in Nat : x <= Len(t) => x <= Len(u)
        BY <1>1
    <2>4. q[N + 1] <= Len(u)
        BY <1>1, <1>3
    <2> QED
        BY <2>1, <2>2, <2>3, <2>4
<1>5. ASSUME NEW i \in 1 .. N + 1
      PROVE  /\ q[i] = q[i - 1] + Len(seqs[i])
             /\ \A j \in 1 .. Len(seqs[i]) : u[q[i - 1] + j] = seqs[i][j]
    <2>1. CASE i = N + 1
        <3>1. q[i - 1] = Len(t) /\ i - 1 = N /\ seqs[i] = s
            BY <1>2, <1>3, <2>1
        <3>2. ASSUME NEW j \in 1 .. Len(s) PROVE u[Len(t) + j] = s[j]
            <4>1. /\ Len(t) + j \in 1 .. Len(t) + Len(s)
                  /\ ~(Len(t) + j <= Len(t)) /\ Len(t) + j - Len(t) = j
                BY <1>1
            <4> QED
                BY <1>1, <4>1
        <3> QED
            BY <1>3, <2>1, <3>1, <3>2
    <2>2. CASE i # N + 1
        <3>1. i \in 1 .. N /\ i \in 0 .. N /\ i - 1 \in 0 .. N
            BY <2>2
        <3>2. o[i] = o[i - 1] + Len(seqs[i])
              /\ \A j \in 1 .. Len(seqs[i]) : t[o[i - 1] + j] = seqs[i][j]
            BY <3>1 DEF Lays
        <3>3. o[i] \in Nat /\ o[i - 1] \in Nat /\ o[i] <= Len(t)
            BY <1>2, <3>1
        <3>4. ASSUME NEW j \in 1 .. Len(seqs[i])
              PROVE  u[o[i - 1] + j] = seqs[i][j]
            <4>1. PICK l : l = Len(seqs[i]) /\ o[i] = o[i - 1] + l
                BY <3>2
            <4>2. CASE l \in Int
                <5>1. j \in Int /\ 1 <= j /\ j <= l
                    BY <4>1, <4>2
                <5>2. o[i - 1] + j \in 1 .. Len(t) + Len(s) /\ o[i - 1] + j <= Len(t)
                    <6>1. PICK x \in Nat, y \in Nat : x = o[i] /\ y = o[i - 1]
                        BY <3>3
                    <6>2. x = y + l /\ x <= Len(t)
                        BY <3>3, <4>1, <6>1
                    <6>3. y + j <= x /\ y + j >= 1 /\ y + j \in Int
                        BY <4>2, <5>1, <6>2
                    <6>4. y + j <= Len(t) /\ y + j <= Len(t) + Len(s)
                        BY <1>1, <6>2, <6>3
                    <6> QED
                        BY <6>1, <6>3, <6>4
                <5> QED
                    BY <1>1, <3>2, <5>2
            <4>3. l \in Int
                BY <3>1, <3>3, <4>1
            <4> QED
                BY <4>2, <4>3
        <3> QED
            BY <1>3, <3>1, <3>2, <3>4
    <2> QED
        BY <2>1, <2>2
<1>6. Lays(u, seqs, N + 1, q)
    <2>1. Len(u) = q[N + 1] /\ q[0] = 0
        BY <1>1, <1>2, <1>3
    <2> QED
        BY <1>3, <1>4, <1>5, <2>1 DEF Lays
<1> QED
    BY <1>6 DEF u

LEMMA Laid ==
    ASSUME NEW T, NEW N \in Nat \ {0}, NEW seqs \in [1 .. N -> Seq(T)]
    PROVE  /\ FlattenSeq(seqs) \in Seq(T)
           /\ \E o : Lays(FlattenSeq(seqs), seqs, N, o)
<1>1. PICK f : FlatBy(f, seqs, N)
    BY Flattened
<1> DEFINE Right(i) == f[i] \in Seq(T) /\ \E o : Lays(f[i], seqs, i, o)
           S == {n \in Nat : Right(n + 1)}
<1>2. N - 1 \in Nat /\ 1 \in 1 .. N /\ N - 1 + 1 = N
    OBVIOUS
<1>3. 0 \in S
    <2> DEFINE s == seqs[1]
    <2>1. s \in Seq(T) /\ f[1] = s
        BY <1>1, <1>2 DEF FlatBy
    <2> DEFINE none == [i \in 0 .. 0 |-> 0]
    <2>2. Lays(<<>>, seqs, 0, none)
        BY DEF Lays
    <2>3. <<>> \in Seq(T) /\ <<>> \o s = s /\ seqs[0 + 1] = s
        BY <2>1
    <2> HIDE DEF none, s
    <2>4. PICK q : Lays(<<>> \o seqs[0 + 1], seqs, 0 + 1, q)
        BY <2>1, <2>2, <2>3, OneLaid
    <2>5. Lays(f[1], seqs, 1, q)
        BY <2>1, <2>3, <2>4
    <2>6. Right(0 + 1)
        BY <2>1, <2>5
    <2> HIDE DEF Right
    <2> QED
        BY <2>6
<1>4. ASSUME NEW n \in 0 .. N - 1 - 1, n \in S PROVE n + 1 \in S
    <2>1. PICK i \in 1 .. N - 1 : i = n + 1
        BY <1>2
    <2>2. f[i + 1] = f[i] \o seqs[i + 1] /\ i + 1 \in 1 .. N
        <3>1. i + 1 \in 1 .. N
            OBVIOUS
        <3>2. f[i + 1] = f[i] \o seqs[i + 1]
            BY <1>1 DEF FlatBy
        <3> QED
            BY <3>1, <3>2
    <2>3. Right(i) /\ seqs[i + 1] \in Seq(T) /\ i \in Nat
        BY <1>4, <2>1, <2>2
    <2>4. PICK o : Lays(f[i], seqs, i, o)
        BY <2>3
    <2>5. PICK q : Lays(f[i] \o seqs[i + 1], seqs, i + 1, q)
        BY <2>3, <2>4, OneLaid
    <2>6. f[i + 1] \in Seq(T)
        BY <2>2, <2>3
    <2>7. Right(i + 1)
        BY <2>2, <2>5, <2>6
    <2> HIDE DEF Right
    <2> QED
        BY <2>1, <2>7
<1> HIDE DEF Right
<1> HIDE DEF S
<1>5. \A n \in 0 .. N - 1 : n \in S
    BY <1>2, <1>3, <1>4, BoundedInduction
<1>6. Right(N)
    <2>1. N - 1 \in S
        BY <1>2, <1>5
    <2> QED
        BY <1>2, <2>1 DEF S
<1> QED
    BY <1>1, <1>6 DEF Right, FlatBy

-----------------------------------------------------------------------------
(* The bits of the nulls                                                   *)

Bits(b, i) == b = [n \in 1 .. i |-> IF n = 1 THEN 1 ELSE 2 * b[n - 1]]

LEMMA BitsExist ==
    ASSUME NEW i \in Nat
    PROVE  \E b \in [1 .. i -> Nat] : Bits(b, i)
<1> DEFINE S == {n \in Nat : \E b \in [1 .. n -> Nat] : Bits(b, n)}
<1>1. 0 \in S
    <2> DEFINE b == [n \in 1 .. 0 |-> 0]
    <2>1. b \in [1 .. 0 -> Nat]
        OBVIOUS
    <2>2. b = [n \in 1 .. 0 |-> IF n = 1 THEN 1 ELSE 2 * b[n - 1]]
        <3>1. 1 .. 0 = {}
            OBVIOUS
        <3> QED
            BY <3>1
    <2> HIDE DEF b
    <2> QED
        BY <2>1, <2>2 DEF Bits
<1>2. ASSUME NEW n \in Nat, n \in S PROVE n + 1 \in S
    <2>1. PICK b \in [1 .. n -> Nat] : Bits(b, n)
        BY <1>2
    <2>2. \A m \in 1 .. n : b[m] = IF m = 1 THEN 1 ELSE 2 * b[m - 1]
        BY <2>1 DEF Bits
    <2> DEFINE new == IF n + 1 = 1 THEN 1 ELSE 2 * b[n]
               c == [m \in 1 .. n + 1 |-> IF m = n + 1 THEN new ELSE b[m]]
    <2>3. new \in Nat
        <3>1. n + 1 # 1 => n \in 1 .. n
            OBVIOUS
        <3>2. n + 1 # 1 => b[n] \in Nat
            BY <3>1
        <3> QED
            BY <3>2
    <2>4. c \in [1 .. n + 1 -> Nat]
        <3> HIDE DEF new
        <3> QED
            BY <2>3
    <2>5. ASSUME NEW m \in 1 .. n + 1
          PROVE  c[m] = IF m = 1 THEN 1 ELSE 2 * c[m - 1]
        <3>1. CASE m = n + 1
            <4>1. m # 1 => m - 1 \in 1 .. n + 1 /\ m - 1 # n + 1 /\ m - 1 = n
                BY <3>1
            <4> QED
                BY <3>1, <4>1
        <3>2. CASE m # n + 1
            <4>1. m \in 1 .. n /\ (m # 1 => m - 1 \in 1 .. n + 1 /\ m - 1 # n + 1)
                BY <3>2
            <4> QED
                BY <2>2, <3>2, <4>1
        <3> QED
            BY <3>1, <3>2
    <2> HIDE DEF new
    <2>6. Bits(c, n + 1)
        BY <2>5 DEF Bits
    <2> QED
        BY <2>4, <2>6
<1> HIDE DEF S
<1>3. \A n \in Nat : n \in S
    BY <1>1, <1>2, SetInduction
<1> QED
    BY <1>3 DEF S

LEMMA BitIs ==
    /\ Bit(1) = 1
    /\ \A i \in Nat \ {0} : /\ Bit(i) \in Nat \ {0}
                            /\ Bit(i + 1) = 2 * Bit(i)
<1> DEFINE of(i) == CHOOSE b : Bits(b, i)
<1>1. \A i \in Nat : Bits(of(i), i)
    BY BitsExist
<1>2. \A i : Bit(i) = of(i)[i]
    BY DEF Bit, Bits
<1> HIDE DEF of
<1>3. ASSUME NEW i \in Nat, NEW n \in 1 .. i
      PROVE  of(i)[n] = IF n = 1 THEN 1 ELSE 2 * of(i)[n - 1]
    <2>1. Bits(of(i), i)
        BY <1>1
    <2> QED
        BY <2>1 DEF Bits
<1>4. ASSUME NEW i \in Nat, NEW k \in Nat, i <= k
      PROVE  \A n \in 1 .. i : of(i)[n] = of(k)[n] /\ of(i)[n] \in Nat \ {0}
    <2> DEFINE S == {n \in Nat : n + 1 <= i =>
                        of(i)[n + 1] = of(k)[n + 1] /\ of(i)[n + 1] \in Nat \ {0}}
    <2>1. 0 \in S
        <3>1. 1 <= i => 1 \in 1 .. i /\ 1 \in 1 .. k
            BY <1>4
        <3>2. 1 <= i => of(i)[1] = 1 /\ of(k)[1] = 1
            BY <1>3, <3>1
        <3> QED
            BY <3>2
    <2>2. ASSUME NEW n \in Nat, n \in S PROVE n + 1 \in S
        <3>1. SUFFICES ASSUME n + 1 + 1 <= i
                       PROVE  /\ of(i)[n + 1 + 1] = of(k)[n + 1 + 1]
                              /\ of(i)[n + 1 + 1] \in Nat \ {0}
            OBVIOUS
        <3>2. of(i)[n + 1] = of(k)[n + 1] /\ of(i)[n + 1] \in Nat \ {0}
            BY <2>2, <3>1
        <3>3. PICK m \in 1 .. i : m = n + 1 + 1 /\ m # 1 /\ m - 1 = n + 1 /\ m \in 1 .. k
            BY <1>4, <3>1
        <3>4. of(i)[m] = 2 * of(i)[m - 1] /\ of(k)[m] = 2 * of(k)[m - 1]
            BY <1>3, <3>3
        <3> HIDE DEF S
        <3> QED
            BY <3>2, <3>3, <3>4
    <2> HIDE DEF S
    <2>3. \A n \in Nat : n \in S
        BY <2>1, <2>2, SetInduction
    <2>4. ASSUME NEW n \in 1 .. i
          PROVE  of(i)[n] = of(k)[n] /\ of(i)[n] \in Nat \ {0}
        <3>1. PICK m \in Nat : m = n - 1 /\ m + 1 = n /\ m + 1 <= i
            OBVIOUS
        <3> QED
            BY <2>3, <3>1 DEF S
    <2> QED
        BY <2>4
<1>5. Bit(1) = 1
    BY <1>2, <1>3
<1>6. ASSUME NEW i \in Nat \ {0}
      PROVE  Bit(i) \in Nat \ {0} /\ Bit(i + 1) = 2 * Bit(i)
    <2>1. /\ i \in Nat /\ i + 1 \in Nat /\ i \in 1 .. i /\ i <= i + 1
          /\ i + 1 \in 1 .. i + 1 /\ i + 1 # 1 /\ (i + 1) - 1 = i
        OBVIOUS
    <2>2. of(i)[i] = of(i + 1)[i] /\ of(i)[i] \in Nat \ {0}
        BY <1>4, <2>1
    <2>3. of(i + 1)[i + 1] = 2 * of(i + 1)[(i + 1) - 1]
        BY <1>3, <2>1
    <2> QED
        BY <1>2, <2>1, <2>2, <2>3
<1> QED
    BY <1>5, <1>6

LEMMA Dividing ==
    ASSUME NEW w \in Nat \ {0}, NEW m \in Nat, NEW r \in 0 .. w - 1,
           NEW x, x = r + w * m
    PROVE  x \div w = m
    BY SMT

\* A bit further up is twice a multiple of a bit.
LEMMA BitMultiple ==
    ASSUME NEW i \in Nat \ {0}, NEW d \in Nat
    PROVE  \E c \in Nat : Bit(i + d + 1) = Bit(i) * (2 * c)
<1> DEFINE S == {n \in Nat : \E c \in Nat : Bit(i + n + 1) = Bit(i) * (2 * c)}
<1>1. 0 \in S
    <2>1. i + 0 + 1 = i + 1 /\ Bit(i) \in Nat /\ Bit(i + 1) = 2 * Bit(i)
        BY BitIs
    <2>2. Bit(i + 0 + 1) = Bit(i) * (2 * 1)
        BY <2>1
    <2> QED
        BY <2>2
<1>2. ASSUME NEW n \in Nat, n \in S PROVE n + 1 \in S
    <2>1. PICK c \in Nat : Bit(i + n + 1) = Bit(i) * (2 * c)
        BY <1>2
    <2>2. i + n + 1 \in Nat \ {0} /\ i + (n + 1) + 1 = (i + n + 1) + 1
        OBVIOUS
    <2>3. Bit(i + (n + 1) + 1) = 2 * Bit(i + n + 1) /\ Bit(i) \in Nat
        BY <2>2, BitIs
    <2>4. PICK w \in Nat : w = Bit(i)
        BY <2>3
    <2>5. 2 * (w * (2 * c)) = w * (2 * (2 * c)) /\ 2 * c \in Nat
        OBVIOUS
    <2>6. Bit(i + (n + 1) + 1) = Bit(i) * (2 * (2 * c))
        BY <2>1, <2>3, <2>4, <2>5
    <2>7. PICK e \in Nat : e = 2 * c
        BY <2>5
    <2>8. Bit(i + (n + 1) + 1) = Bit(i) * (2 * e)
        BY <2>6, <2>7
    <2> QED
        BY <2>8
<1> HIDE DEF S
<1>3. \A n \in Nat : n \in S
    BY <1>1, <1>2, SetInduction
<1> QED
    BY <1>3 DEF S

LEMMA SumOfBits ==
    ASSUME NEW N \in Nat, NEW Z \in SUBSET (1 .. N), NEW b,
           \A i \in 1 .. N : b[i] = Bit(i)
    PROVE  /\ Total(b, Z) \in Nat /\ Total(b, Z) < Bit(N + 1)
           /\ \A i \in 1 .. N : IsNull(Total(b, Z), i) <=> i \in Z
<1> DEFINE Up(n) == Z \cap (1 .. n)
           S(n) == Total(b, Up(n))
           Right(n) == /\ S(n) \in Nat /\ S(n) < Bit(n + 1)
                       /\ \A i \in 1 .. n : \E r \in 0 .. Bit(i) - 1, m \in Nat :
                            S(n) = r + Bit(i) * (2 * m + (IF i \in Z THEN 1 ELSE 0))
           T == {n \in Nat : Right(n)}
<1>1. \A n \in Nat : IsFiniteSet(Up(n)) /\ \A x \in Up(n) : x \in 1 .. N
    <2>1. \A n \in Nat : IsFiniteSet(1 .. n)
        BY FS_Interval
    <2> QED
        BY <2>1, FS_Subset
<1>2. \A i \in 1 .. N : b[i] \in Nat /\ b[i] = Bit(i)
    BY BitIs
<1>3. \A i \in Nat \ {0} : Bit(i) \in Nat \ {0} /\ Bit(i + 1) = 2 * Bit(i)
    BY BitIs
<1>4. 0 \in T
    <2>1. Up(0) = {} /\ Bit(0 + 1) = 1 /\ 1 .. 0 = {}
        BY BitIs
    <2>2. S(0) = 0
        BY <2>1, SumOfNone
    <2>3. Right(0)
        BY <2>1, <2>2
    <2> HIDE DEF Right
    <2> QED
        BY <2>3
<1>5. ASSUME NEW n \in 0 .. N - 1, n \in T PROVE n + 1 \in T
    <2>0. n \in Nat /\ n + 1 \in 1 .. N /\ n + 1 \in Nat \ {0}
        OBVIOUS
    <2>1. /\ S(n) \in Nat /\ S(n) < Bit(n + 1)
          /\ \A i \in 1 .. n : \E r \in 0 .. Bit(i) - 1, m \in Nat :
                S(n) = r + Bit(i) * (2 * m + (IF i \in Z THEN 1 ELSE 0))
        BY <1>5
    <2> DEFINE c == IF n + 1 \in Z THEN 1 ELSE 0
               w == Bit(n + 1)
    <2>2. S(n + 1) = S(n) + w * c
        <3>1. CASE n + 1 \in Z
            <4>1. Up(n + 1) = Up(n) \cup {n + 1} /\ n + 1 \notin Up(n)
                BY <2>0, <3>1
            <4>2. \A x \in Up(n) : b[x] \in Nat
                BY <1>1, <1>2, <2>0
            <4>3. b[n + 1] \in Nat /\ b[n + 1] = w
                BY <1>2, <2>0
            <4>4. Total(b, Up(n) \cup {n + 1}) = b[n + 1] + Total(b, Up(n))
                <5> HIDE DEF Up
                <5> QED
                    BY <1>1, <2>0, <4>1, <4>2, <4>3, SumInsert
            <4>5. S(n + 1) = w + S(n)
                BY <4>1, <4>3, <4>4
            <4> QED
                BY <1>3, <2>0, <2>1, <3>1, <4>5
        <3>2. CASE n + 1 \notin Z
            <4>1. Up(n + 1) = Up(n)
                BY <2>0, <3>2
            <4>2. S(n + 1) = S(n) /\ c = 0
                BY <3>2, <4>1
            <4> QED
                BY <1>3, <2>0, <2>1, <4>2
        <3> QED
            BY <3>1, <3>2
    <2>3. w \in Nat \ {0} /\ Bit(n + 1 + 1) = 2 * w /\ c \in {0, 1}
        BY <1>3, <2>0
    <2>4. ASSUME NEW i \in 1 .. n
          PROVE  \E r \in 0 .. Bit(i) - 1, m \in Nat :
                    S(n + 1) = r + Bit(i) * (2 * m + (IF i \in Z THEN 1 ELSE 0))
        <3> DEFINE z == IF i \in Z THEN 1 ELSE 0
        <3>1. PICK r \in 0 .. Bit(i) - 1, m \in Nat : S(n) = r + Bit(i) * (2 * m + z)
            BY <2>1
        <3>2. PICK d \in Nat : i + d + 1 = n + 1
            BY <2>0
        <3>3. PICK e \in Nat : w = Bit(i) * (2 * e)
            <4>1. i \in Nat \ {0}
                OBVIOUS
            <4>2. \E e \in Nat : Bit(i + d + 1) = Bit(i) * (2 * e)
                BY <4>1, BitMultiple
            <4> QED
                BY <3>2, <4>2
        <3>4. PICK v \in Nat : v = Bit(i)
            BY <1>3
        <3> HIDE DEF S, w, z
        <3>5. CASE c = 0
            <4>1. S(n + 1) = r + Bit(i) * (2 * m + z)
                BY <2>1, <2>2, <2>3, <3>1, <3>5
            <4> QED
                BY <4>1 DEF z
        <3>6. CASE c = 1
            <4>1. S(n + 1) = r + v * (2 * m + z) + v * (2 * e)
                BY <2>1, <2>2, <2>3, <3>1, <3>3, <3>4, <3>6
            <4>2. z \in Int /\ r \in Int
                BY <1>3, <2>0 DEF z
            <4>3. v * (2 * m + z) + v * (2 * e) = v * (2 * (m + e) + z)
                BY <4>2
            <4>4. PICK y \in Nat : y = m + e
                OBVIOUS
            <4>5. S(n + 1) = r + v * (2 * y + z)
                <5>1. v * (2 * m + z) \in Int /\ v * (2 * e) \in Int
                    BY <4>2
                <5> QED
                    BY <4>1, <4>2, <4>3, <4>4, <5>1
            <4> QED
                BY <3>4, <4>5 DEF z
        <3> QED
            BY <2>3, <3>5, <3>6
    <2>5. \E r \in 0 .. w - 1, m \in Nat : S(n + 1) = r + w * (2 * m + c)
        <3> HIDE DEF S, w, c
        <3>1. S(n) \in 0 .. w - 1
            BY <2>1, <2>3 DEF w
        <3>2. 2 * 0 + c = c
            BY <2>3
        <3>3. S(n + 1) = S(n) + w * (2 * 0 + c)
            BY <2>2, <3>2
        <3> QED
            BY <3>1, <3>3
    <2>6. S(n + 1) \in Nat /\ S(n + 1) < Bit(n + 1 + 1)
        <3> HIDE DEF S, c
        <3>1. S(n) < w
            BY <2>1
        <3> HIDE DEF w
        <3>2. c = 0 \/ c = 1
            BY <2>3
        <3> QED
            BY <2>1, <2>2, <2>3, <3>1, <3>2
    <2>7. \A i \in 1 .. n + 1 : i = n + 1 \/ i \in 1 .. n
        OBVIOUS
    <2>8. Right(n + 1)
        <3> HIDE DEF S
        <3>1. ASSUME NEW i \in 1 .. n + 1
              PROVE  \E r \in 0 .. Bit(i) - 1, m \in Nat :
                        S(n + 1) = r + Bit(i) * (2 * m + (IF i \in Z THEN 1 ELSE 0))
            BY <2>4, <2>5, <2>7
        <3> QED
            BY <2>6, <3>1
    <2> HIDE DEF Right
    <2> QED
        BY <2>0, <2>8
<1> HIDE DEF Right
<1> HIDE DEF T
<1>6. Right(N)
    <2>1. \A n \in 0 .. N : n \in T
        BY <1>4, <1>5, BoundedInduction
    <2>2. N \in T
        BY <2>1
    <2> QED
        BY <2>2 DEF T
<1>7. Up(N) = Z
    OBVIOUS
<1>8. ASSUME NEW i \in 1 .. N PROVE IsNull(Total(b, Z), i) <=> i \in Z
    <2> DEFINE z == IF i \in Z THEN 1 ELSE 0
    <2>1. PICK r \in 0 .. Bit(i) - 1, m \in Nat : S(N) = r + Bit(i) * (2 * m + z)
        BY <1>6 DEF Right
    <2>2. Bit(i) \in Nat \ {0} /\ 2 * m + z \in Nat
        BY <1>3
    <2>3. PICK y \in Nat : y = 2 * m + z
        BY <2>2
    <2> HIDE DEF S, z
    <2>4. S(N) \div Bit(i) = y
        BY <2>1, <2>2, <2>3, Dividing
    <2>5. z = 1 \/ z = 0
        BY DEF z
    <2>6. y % 2 = z
        BY <2>3, <2>5
    <2>7. (S(N) \div Bit(i)) % 2 = 1 <=> i \in Z
        BY <2>4, <2>6 DEF z
    <2> QED
        BY <1>7, <2>7 DEF IsNull, S
<1> HIDE DEF Up
<1> QED
    BY <1>6, <1>7, <1>8 DEF Right

-----------------------------------------------------------------------------
(* Rows as cells                                                           *)

Cell == 0 .. Byte - 1

\* A value that a column takes, short enough for the length byte of a string.
OfColumn(column, v) ==
    \/ v = Null
    \/ /\ v \in Seq(Cell)
       /\ column.type \notin {"varchar", "string"} => Len(v) = 1
       /\ column.type = "varchar" => Len(v) <= column.length /\ 0 \notin ToSet(v)
       /\ column.type = "string" => Len(v) < Byte
OfSchema(s, r) ==
    /\ Len(s) \in Nat \ {0} /\ DOMAIN s = 1 .. Len(s) /\ 2 * Bit(Len(s)) <= Byte
    /\ \A i \in 1 .. Len(s) : s[i].length \in Nat
    /\ r = [i \in 1 .. Len(s) |-> r[i]]
    /\ \A i \in 1 .. Len(s) : OfColumn(s[i], r[i])

\* The cells of a value.
Space(column, v) ==
    IF v = Null THEN 0
    ELSE IF column.type = "varchar" THEN column.length
    ELSE IF column.type = "string" THEN 1 + Len(v)
    ELSE 1

LEMMA NullIsNone == \A v \in Seq(Cell) : v # Null
<1> SUFFICES ASSUME NEW v \in Seq(Cell), v = Null PROVE FALSE
    OBVIOUS
<1>1. Len(Null) = 1 /\ Null[1] = -1
    BY DEF Null
<1>2. v[1] \in Cell
    <2>1. 1 \in 1 .. Len(v)
        BY <1>1
    <2> QED
        BY <2>1
<1> QED
    BY <1>1, <1>2 DEF Cell

LEMMA ValueWritten ==
    ASSUME NEW column, column.length \in Nat, NEW v, OfColumn(column, v)
    PROVE  /\ SerializeValue(column, v) \in Seq(Cell)
           /\ Len(SerializeValue(column, v)) = Space(column, v)
           /\ Space(column, v) \in Nat
<1> DEFINE l == column.length
<1>0. 0 \in Cell /\ l \in Nat
    BY DEF Cell
<1>1. CASE v = Null
    BY <1>1 DEF SerializeValue, Space
<1>2. CASE v # Null /\ column.type = "varchar"
    <2>1. v \in Seq(Cell) /\ Len(v) <= l /\ Len(v) \in Nat
        BY <1>2 DEF OfColumn
    <2> DEFINE zeros == [n \in 1 .. l - Len(v) |-> 0]
    <2> HIDE DEF l
    <2>2. l - Len(v) \in Nat
        BY <1>0, <2>1
    <2>3. zeros \in Seq(Cell) /\ Len(zeros) = l - Len(v)
        BY <1>0, <2>2
    <2> HIDE DEF zeros
    <2>4. v \o zeros \in Seq(Cell) /\ Len(v \o zeros) = Len(v) + Len(zeros)
        BY <2>1, <2>3
    <2>5. Len(v) + Len(zeros) = l
        BY <1>0, <2>1, <2>3
    <2> QED
        BY <1>0, <1>2, <2>4, <2>5 DEF SerializeValue, Space, zeros, l
<1>3. CASE v # Null /\ column.type = "string"
    <2>1. v \in Seq(Cell) /\ Len(v) < Byte /\ Len(v) \in Nat
        BY <1>3 DEF OfColumn
    <2>2. Len(v) % Byte \in Cell
        BY <2>1 DEF Cell
    <2> DEFINE c == Len(v) % Byte
    <2> HIDE DEF c
    <2>3. <<c>> \o v \in Seq(Cell) /\ Len(<<c>> \o v) = 1 + Len(v)
        BY <2>1, <2>2 DEF c
    <2> QED
        BY <1>3, <2>1, <2>3 DEF SerializeValue, Space, c
<1>4. CASE v # Null /\ column.type \notin {"varchar", "string"}
    <2>1. v \in Seq(Cell) /\ Len(v) = 1
        BY <1>4 DEF OfColumn
    <2> QED
        BY <1>4, <2>1 DEF SerializeValue, Space
<1> QED
    BY <1>1, <1>2, <1>3, <1>4

\* Where the value of each column begins in a row.
Places(s, r, o) ==
    /\ o \in [0 .. Len(s) -> Nat] /\ o[0] = 0
    /\ \A i \in 0 .. Len(s) : o[i] <= o[Len(s)]
    /\ \A i \in 1 .. Len(s) : o[i] = o[i - 1] + Space(s[i], r[i])
    /\ \A i \in 1 .. Len(s) : \A j \in 1 .. Space(s[i], r[i]) :
         SerializeRow(s, r)[1 + o[i - 1] + j] = SerializeValue(s[i], r[i])[j]

LEMMA NullsCell ==
    ASSUME NEW s, NEW r, OfSchema(s, r)
    PROVE  /\ GetNulls(r) \in Cell
           /\ \A i \in 1 .. Len(s) : IsNull(GetNulls(r), i) <=> r[i] = Null
           /\ \A i \in 1 .. Len(s) : ~IsNull(0, i)
<1> DEFINE N == Len(s)
           b == [i \in 1 .. N |-> Bit(i)]
           Z == {i \in 1 .. N : r[i] = Null}
<1>1. N \in Nat \ {0} /\ 2 * Bit(N) <= Byte /\ r = [i \in 1 .. N |-> r[i]]
    BY DEF OfSchema
<1> HIDE DEF N
<1>2. DOMAIN r = 1 .. N
    BY <1>1
<1>3. GetNulls(r) = Total(b, Z)
    BY <1>2 DEF GetNulls, Total
<1>4. Z \in SUBSET (1 .. N) /\ \A i \in 1 .. N : b[i] = Bit(i)
    OBVIOUS
<1> HIDE DEF b
<1>5. {} \in SUBSET (1 .. N) /\ Total(b, {}) = 0
    BY SumOfNone
<1>6. /\ Total(b, Z) \in Nat /\ Total(b, Z) < Bit(N + 1)
      /\ \A i \in 1 .. N : IsNull(Total(b, Z), i) <=> i \in Z
    <2> HIDE DEF Z
    <2> QED
        BY <1>1, <1>4, SumOfBits
<1>7. \A i \in 1 .. N : IsNull(Total(b, {}), i) <=> i \in {}
    BY <1>1, <1>4, <1>5, SumOfBits
<1>8. Bit(N + 1) = 2 * Bit(N) /\ Bit(N) \in Nat
    BY <1>1, BitIs
<1>9. Total(b, Z) \in Cell
    <2> HIDE DEF Z
    <2>1. Total(b, Z) < Byte
        BY <1>1, <1>6, <1>8
    <2> QED
        BY <1>6, <2>1 DEF Cell
<1> QED
    BY <1>3, <1>5, <1>6, <1>7, <1>9 DEF N

LEMMA RowWritten ==
    ASSUME NEW s, NEW r, OfSchema(s, r)
    PROVE  /\ SerializeRow(s, r) \in Seq(Cell)
           /\ SerializeRow(s, r)[1] = GetNulls(r)
           /\ \E o : Places(s, r, o) /\ Len(SerializeRow(s, r)) = 1 + o[Len(s)]
<1> DEFINE N == Len(s)
           seqs == [i \in 1 .. N |-> SerializeValue(s[i], r[i])]
           t == FlattenSeq(seqs)
           c == GetNulls(r)
           u == SerializeRow(s, r)
<1>1. N \in Nat \ {0} /\ DOMAIN r = 1 .. N
    BY DEF OfSchema
<1>2. \A i \in 1 .. N : /\ SerializeValue(s[i], r[i]) \in Seq(Cell)
                        /\ Len(SerializeValue(s[i], r[i])) = Space(s[i], r[i])
                        /\ Space(s[i], r[i]) \in Nat
    BY ValueWritten DEF OfSchema
<1>3. u = <<c>> \o t
    BY <1>1 DEF SerializeRow
<1> HIDE DEF N
<1>4. seqs \in [1 .. N -> Seq(Cell)]
    BY <1>2
<1>5. \A i \in 1 .. N : seqs[i] = SerializeValue(s[i], r[i])
    OBVIOUS
<1> HIDE DEF seqs
<1>6. t \in Seq(Cell)
    BY <1>1, <1>4, Laid
<1>7. PICK o : Lays(t, seqs, N, o)
    BY <1>1, <1>4, Laid
<1>8. c \in Cell
    BY NullsCell
<1> HIDE DEF t, c, u
<1>9. /\ u \in Seq(Cell) /\ Len(u) = 1 + Len(t) /\ u[1] = c
      /\ Len(t) \in Nat
      /\ \A j \in 1 .. Len(t) : u[1 + j] = t[j]
    <2>1. <<c>> \in Seq(Cell) /\ Len(<<c>>) = 1
        BY <1>8
    <2>2. /\ u \in Seq(Cell) /\ Len(u) = 1 + Len(t)
          /\ \A i \in 1 .. 1 + Len(t) : u[i] = IF i <= 1 THEN <<c>>[i] ELSE t[i - 1]
        BY <1>3, <1>6, <2>1, ConcatProperties
    <2>3. Len(t) \in Nat
        BY <1>6
    <2>4. ASSUME NEW j \in 1 .. Len(t) PROVE u[1 + j] = t[j]
        <3>1. 1 + j \in 1 .. 1 + Len(t) /\ ~(1 + j <= 1) /\ 1 + j - 1 = j
            BY <2>3
        <3> QED
            BY <2>2, <3>1
    <2> QED
        BY <2>2, <2>3, <2>4
<1>10. /\ o \in [0 .. N -> Nat] /\ o[0] = 0 /\ Len(t) = o[N]
       /\ \A i \in 0 .. N : o[i] <= o[N] /\ o[i] \in Nat
       /\ \A i \in 1 .. N : o[i] = o[i - 1] + Space(s[i], r[i])
    BY <1>2, <1>5, <1>7 DEF Lays
<1>11. ASSUME NEW i \in 1 .. N, NEW j \in 1 .. Space(s[i], r[i])
       PROVE  u[1 + o[i - 1] + j] = SerializeValue(s[i], r[i])[j]
    <2>1. t[o[i - 1] + j] = SerializeValue(s[i], r[i])[j]
        BY <1>2, <1>5, <1>7 DEF Lays
    <2>2. i \in 0 .. N /\ i - 1 \in 0 .. N
        BY <1>1
    <2>3. PICK x \in Nat, y \in Nat, l \in Nat :
            x = o[i - 1] /\ y = o[i] /\ l = Space(s[i], r[i])
        BY <1>2, <1>10, <2>2
    <2>4. y = x + l /\ y <= Len(t) /\ j \in 1 .. l
        BY <1>10, <2>2, <2>3
    <2>5. x + j \in 1 .. Len(t) /\ 1 + (x + j) = 1 + x + j
        BY <1>9, <2>4
    <2> QED
        BY <1>9, <2>1, <2>3, <2>5
<1>12. Places(s, r, o)
    BY <1>10, <1>11 DEF Places, N, u
<1>13. u[1] = GetNulls(r) /\ Len(u) = 1 + o[Len(s)]
    BY <1>9, <1>10 DEF c, N
<1> QED
    BY <1>9, <1>12, <1>13 DEF u

\* One column is read as it was written.
LEMMA ReadOne ==
    ASSUME NEW column, column.length \in Nat, NEW v, OfColumn(column, v),
           NEW i, NEW nulls, IsNull(nulls, i) <=> v = Null,
           NEW w, NEW p \in Int, NEW page,
           \A j \in 1 .. Space(column, v) :
              page[p + j - 1] = SerializeValue(column, v)[j]
    PROVE  ReadColumn([row |-> w, next |-> p], column, i, nulls, page)
             = [row |-> Append(w, v), next |-> p + Space(column, v)]
<1> DEFINE got == [row |-> w, next |-> p]
           l == column.length
           S == Space(column, v)
           sv == SerializeValue(column, v)
<1>0. got.row = w /\ got.next = p /\ l \in Nat
    OBVIOUS
<1>1. CASE v = Null
    <2>1. S = 0
        BY <1>1 DEF Space
    <2>2. p + 0 = p
        OBVIOUS
    <2> HIDE DEF S
    <2> QED
        BY <1>0, <1>1, <2>1, <2>2 DEF ReadColumn, S
<1>2. CASE v # Null /\ column.type = "varchar"
    <2>1. v \in Seq(Cell) /\ Len(v) <= l /\ Len(v) \in Nat /\ 0 \notin ToSet(v)
        BY <1>2 DEF OfColumn
    <2>2. \A j \in 1 .. Len(v) : v[j] # 0
        <3>1. DOMAIN v = 1 .. Len(v)
            BY <2>1
        <3> QED
            BY <2>1, <3>1 DEF ToSet
    <2>3. S = l
        BY <1>2 DEF Space
    <2>4. ASSUME NEW j \in 1 .. l
          PROVE  page[p + j - 1] = IF j <= Len(v) THEN v[j] ELSE 0
        <3> DEFINE zeros == [n \in 1 .. l - Len(v) |-> 0]
        <3>1. sv = v \o zeros
            BY <1>2 DEF SerializeValue
        <3>2. zeros \in Seq(Int) /\ Len(zeros) = l - Len(v)
              /\ \A n \in 1 .. l - Len(v) : zeros[n] = 0
            <4> HIDE DEF l
            <4>1. l - Len(v) \in Nat
                BY <1>0, <2>1
            <4> QED
                BY <4>1
        <3> HIDE DEF zeros, l
        <3>3. v \in Seq(Int)
            BY <2>1 DEF Cell
        <3>4. \A n \in 1 .. Len(v) + Len(zeros) :
                (v \o zeros)[n] = IF n <= Len(v) THEN v[n] ELSE zeros[n - Len(v)]
            BY <3>2, <3>3, ConcatProperties
        <3>5. j \in 1 .. Len(v) + Len(zeros)
              /\ (~(j <= Len(v)) => j - Len(v) \in 1 .. l - Len(v))
            BY <1>0, <2>1, <3>2
        <3>6. sv[j] = IF j <= Len(v) THEN v[j] ELSE 0
            BY <3>1, <3>2, <3>4, <3>5
        <3> QED
            BY <2>3, <3>6 DEF l
    <2> DEFINE Ends(n) == /\ n < l => page[p + n] = 0
                          /\ \A j \in 0 .. n - 1 : page[p + j] # 0
               end == CHOOSE n \in 0 .. l : Ends(n)
    <2> HIDE DEF l
    <2>5. \A n \in 0 .. l - 1 : page[p + n] = IF n < Len(v) THEN v[n + 1] ELSE 0
        <3>1. ASSUME NEW n \in 0 .. l - 1
              PROVE  page[p + n] = IF n < Len(v) THEN v[n + 1] ELSE 0
            <4>1. n + 1 \in 1 .. l /\ p + (n + 1) - 1 = p + n
                BY <1>0
            <4>2. n + 1 <= Len(v) <=> n < Len(v)
                BY <2>1
            <4> QED
                BY <2>4, <4>1, <4>2
        <3> QED
            BY <3>1
    <2>6. \A n \in 0 .. Len(v) - 1 : page[p + n] # 0
        <3>1. \A n \in 0 .. Len(v) - 1 : /\ n \in 0 .. l - 1 /\ n < Len(v)
                                         /\ n + 1 \in 1 .. Len(v)
            BY <1>0, <2>1
        <3> QED
            BY <2>2, <2>5, <3>1
    <2>7. Len(v) \in 0 .. l /\ (Len(v) < l => page[p + Len(v)] = 0)
        <3>1. Len(v) < l => Len(v) \in 0 .. l - 1 /\ ~(Len(v) < Len(v))
            BY <1>0, <2>1
        <3> QED
            BY <1>0, <2>1, <2>5, <3>1
    <2>8. Ends(Len(v))
        BY <2>6, <2>7
    <2>9. end \in 0 .. l /\ Ends(end)
        BY <2>7, <2>8
    <2>10. end = Len(v)
        <3> HIDE DEF end
        <3>1. ASSUME end < Len(v) PROVE FALSE
            <4>1. end < l /\ end \in 0 .. Len(v) - 1
                BY <1>0, <2>1, <2>9, <3>1
            <4> QED
                BY <2>6, <2>9, <4>1
        <3>2. ASSUME Len(v) < end PROVE FALSE
            <4>1. Len(v) < l /\ Len(v) \in 0 .. end - 1
                BY <1>0, <2>1, <2>9, <3>2
            <4> QED
                BY <2>7, <2>9, <4>1
        <3> QED
            BY <1>0, <2>1, <2>9, <3>1, <3>2
    <2>11. Varchar(page, p, l) = [n \in 1 .. end |-> page[p + n - 1]]
        BY DEF Varchar
    <2> HIDE DEF end
    <2>12. \A n \in 1 .. Len(v) : page[p + n - 1] = v[n]
        <3>1. \A n \in 1 .. Len(v) : n \in 1 .. l /\ n <= Len(v)
            BY <1>0, <2>1
        <3> QED
            BY <2>4, <3>1 DEF l
    <2>13. Varchar(page, p, l) = v
        <3>1. v = [n \in 1 .. Len(v) |-> v[n]]
            BY <2>1
        <3> QED
            BY <2>10, <2>11, <2>12, <3>1
    <2> QED
        BY <1>0, <1>2, <2>3, <2>13 DEF ReadColumn, l
<1>3. CASE v # Null /\ column.type = "string"
    <2>1. v \in Seq(Cell) /\ Len(v) < Byte /\ Len(v) \in Nat
        BY <1>3 DEF OfColumn
    <2>2. Len(v) % Byte = Len(v)
        BY <2>1
    <2>3. S = 1 + Len(v)
        BY <1>3 DEF Space
    <2>4. sv = <<Len(v)>> \o v
        BY <1>3, <2>2 DEF SerializeValue
    <2> DEFINE L == Len(v)
    <2>5. L \in Nat
        BY <2>1
    <2>6. v \in Seq(Int)
        BY <2>1 DEF Cell
    <2>7. \A j \in 1 .. 1 + L : sv[j] = IF j <= 1 THEN <<L>>[j] ELSE v[j - 1]
        <3>1. <<L>> \in Seq(Int) /\ Len(<<L>>) = 1
            BY <2>5
        <3> QED
            BY <2>4, <2>6, <3>1, ConcatProperties
    <2> HIDE DEF sv, S
    <2>8. \A j \in 1 .. 1 + L : page[p + j - 1] = sv[j]
        BY <2>3 DEF sv, S
    <2>9. page[p] = L
        <3>1. 1 \in 1 .. 1 + L /\ p + 1 - 1 = p /\ 1 <= 1
            BY <2>5
        <3>2. sv[1] = L
            BY <2>7, <3>1
        <3> QED
            BY <2>8, <3>1, <3>2
    <2>10. ASSUME NEW j \in 1 .. L PROVE page[p + 1 + j - 1] = v[j]
        <3>1. j + 1 \in 1 .. 1 + L /\ p + (j + 1) - 1 = p + 1 + j - 1
              /\ ~(j + 1 <= 1) /\ j + 1 - 1 = j
            <4> HIDE DEF L
            <4> QED
                BY <2>5
        <3>2. sv[j + 1] = v[j]
            <4>1. sv[j + 1] = IF j + 1 <= 1 THEN <<L>>[j + 1] ELSE v[j + 1 - 1]
                BY <2>7, <3>1
            <4> QED
                BY <3>1, <4>1
        <3>3. page[p + (j + 1) - 1] = sv[j + 1]
            BY <2>8, <3>1
        <3> QED
            BY <3>1, <3>2, <3>3
    <2>11. v = [j \in 1 .. L |-> v[j]]
        BY <2>1
    <2> HIDE DEF L
    <2>12. Cells(page, p + 1, page[p]) = v
        BY <2>9, <2>10, <2>11 DEF Cells
    <2>13. p + 1 + page[p] = p + S
        BY <2>3, <2>5, <2>9 DEF L
    <2> QED
        BY <1>0, <1>3, <2>12, <2>13 DEF ReadColumn, S
<1>4. CASE v # Null /\ column.type \notin {"varchar", "string"}
    <2>1. v \in Seq(Cell) /\ Len(v) = 1
        BY <1>4 DEF OfColumn
    <2>2. S = 1 /\ sv = v
        BY <1>4 DEF Space, SerializeValue
    <2>3. v = [j \in 1 .. 1 |-> v[j]]
        BY <2>1
    <2>4. \A j \in 1 .. 1 : page[p + j - 1] = v[j]
        BY <2>2
    <2>5. Cells(page, p, 1) = v
        BY <2>3, <2>4 DEF Cells
    <2> QED
        BY <1>0, <1>4, <2>2, <2>5 DEF ReadColumn
<1> QED
    BY <1>1, <1>2, <1>3, <1>4

\* What deserializeRow has after each column.
Reads(got, s, page, at) ==
    got = [i \in 0 .. Len(s) |->
             IF i = 0 THEN [row |-> <<>>, next |-> at + 1]
             ELSE ReadColumn(got[i - 1], s[i], i, page[at], page)]

LEMMA ReadsExist ==
    ASSUME NEW s, Len(s) \in Nat, NEW page, NEW at
    PROVE  \E got : Reads(got, s, page, at)
<1> DEFINE base == [row |-> <<>>, next |-> at + 1]
           next(g, i) == ReadColumn(g, s[i], i, page[at], page)
           Is(g, n) == g = [i \in 0 .. n |-> IF i = 0 THEN base ELSE next(g[i - 1], i)]
           S == {n \in Nat : \E g : Is(g, n)}
<1> HIDE DEF base, next
<1>1. 0 \in S
    <2> DEFINE g == [i \in 0 .. 0 |-> base]
    <2>1. \A i \in 0 .. 0 : i = 0
        OBVIOUS
    <2>2. Is(g, 0)
        BY <2>1
    <2> QED
        BY <2>2
<1>2. ASSUME NEW n \in Nat, n \in S PROVE n + 1 \in S
    <2>1. PICK g : Is(g, n)
        BY <1>2
    <2> DEFINE h == [i \in 0 .. n + 1 |->
                       IF i = n + 1 THEN next(g[n], n + 1) ELSE g[i]]
    <2>2. ASSUME NEW i \in 0 .. n + 1
          PROVE  h[i] = IF i = 0 THEN base ELSE next(h[i - 1], i)
        <3>1. CASE i = n + 1
            <4>1. i # 0 /\ i - 1 = n /\ n \in 0 .. n + 1 /\ n # n + 1
                BY <3>1
            <4> QED
                BY <3>1, <4>1
        <3>2. CASE i # n + 1
            <4>1. i \in 0 .. n /\ (i # 0 => i - 1 \in 0 .. n + 1 /\ i - 1 # n + 1)
                BY <3>2
            <4>2. g[i] = IF i = 0 THEN base ELSE next(g[i - 1], i)
                BY <2>1, <4>1
            <4> QED
                BY <3>2, <4>1, <4>2
        <3> QED
            BY <3>1, <3>2
    <2>3. Is(h, n + 1)
        BY <2>2
    <2>4. n + 1 \in Nat
        OBVIOUS
    <2> HIDE DEF h, Is
    <2> QED
        BY <2>3, <2>4
<1> HIDE DEF S
<1>3. \A n \in Nat : n \in S
    BY <1>1, <1>2, SetInduction
<1>4. PICK g : Is(g, Len(s))
    BY <1>3 DEF S
<1>5. Reads(g, s, page, at)
    BY <1>4 DEF Reads, base, next
<1> QED
    BY <1>5

ReadsAre(got, s, page, at) ==
    /\ got[0] = [row |-> <<>>, next |-> at + 1]
    /\ \A i \in 1 .. Len(s) :
         got[i] = ReadColumn(got[i - 1], s[i], i, page[at], page)
    /\ DeserializeRow(s, page, at) = got[Len(s)].row

LEMMA Deserializing ==
    ASSUME NEW s, Len(s) \in Nat, NEW page, NEW at
    PROVE  \E got : ReadsAre(got, s, page, at)
<1> DEFINE got == CHOOSE g : Reads(g, s, page, at)
<1>1. Reads(got, s, page, at)
    BY ReadsExist
<1>2. DeserializeRow(s, page, at) = got[Len(s)].row
    BY DEF DeserializeRow, Reads
<1> HIDE DEF got
<1>3. got[0] = [row |-> <<>>, next |-> at + 1]
    BY <1>1 DEF Reads
<1>4. ASSUME NEW i \in 1 .. Len(s)
      PROVE  got[i] = ReadColumn(got[i - 1], s[i], i, page[at], page)
    <2>1. i \in 0 .. Len(s) /\ i # 0
        OBVIOUS
    <2> QED
        BY <1>1, <2>1 DEF Reads
<1>5. ReadsAre(got, s, page, at)
    BY <1>2, <1>3, <1>4 DEF ReadsAre
<1> QED
    BY <1>5

\* page has a row from position "at" on.
Holds(page, at, t) == \A j \in 1 .. Len(t) : page[at + j - 1] = t[j]

\* A row is read back from wherever it was written.
LEMMA RowReadBack ==
    ASSUME NEW s, NEW r, OfSchema(s, r), NEW at \in Int, NEW page,
           Holds(page, at, SerializeRow(s, r))
    PROVE  DeserializeRow(s, page, at) = r
<1>16. Len(s) \in Nat
    BY DEF OfSchema
<1>17. PICK got : ReadsAre(got, s, page, at)
    BY <1>16, Deserializing
<1> DEFINE N == Len(s)
           u == SerializeRow(s, r)
           V == {r[i] : i \in 1 .. N}
<1>1. N \in Nat \ {0} /\ r = [i \in 1 .. N |-> r[i]]
      /\ \A i \in 1 .. N : s[i].length \in Nat /\ OfColumn(s[i], r[i])
    BY DEF OfSchema
<1>2. PICK o : Places(s, r, o) /\ Len(u) = 1 + o[N]
    BY RowWritten
<1>3. u[1] = GetNulls(r)
    BY RowWritten
<1>4. /\ got[0] = [row |-> <<>>, next |-> at + 1]
      /\ \A i \in 1 .. N :
            got[i] = ReadColumn(got[i - 1], s[i], i, page[at], page)
      /\ DeserializeRow(s, page, at) = got[N].row
    BY <1>17 DEF ReadsAre
<1> HIDE DEF N, u
<1>5. /\ o \in [0 .. N -> Nat] /\ o[0] = 0
      /\ \A i \in 0 .. N : o[i] \in Nat /\ o[i] <= o[N]
      /\ \A i \in 1 .. N : o[i] = o[i - 1] + Space(s[i], r[i])
      /\ \A i \in 1 .. N : \A j \in 1 .. Space(s[i], r[i]) :
            u[1 + o[i - 1] + j] = SerializeValue(s[i], r[i])[j]
    BY <1>2 DEF Places, N, u
<1>6. page[at] = GetNulls(r)
    <2>1. 1 \in 1 .. Len(u) /\ at + 1 - 1 = at
        BY <1>1, <1>2, <1>5
    <2> QED
        BY <1>3, <2>1 DEF Holds, u
<1>7. \A i \in 1 .. N : IsNull(page[at], i) <=> r[i] = Null
    BY <1>6, NullsCell DEF N
<1>8. \A i \in 1 .. N : Space(s[i], r[i]) \in Nat
    BY <1>1, ValueWritten
<1>9. ASSUME NEW i \in 1 .. N, NEW j \in 1 .. Space(s[i], r[i])
      PROVE  page[at + 1 + o[i - 1] + j - 1] = SerializeValue(s[i], r[i])[j]
    <2>1. i \in 0 .. N /\ i - 1 \in 0 .. N /\ N \in 0 .. N
        BY <1>1
    <2>2. PICK x \in Nat, y \in Nat, l \in Nat, z \in Nat :
            x = o[i - 1] /\ y = o[i] /\ l = Space(s[i], r[i]) /\ z = o[N]
        BY <1>5, <1>8, <2>1
    <2>3. y = x + l /\ y <= z /\ Len(u) = 1 + z /\ j \in 1 .. l
        BY <1>2, <1>5, <2>1, <2>2
    <2>4. 1 + x + j \in 1 .. Len(u) /\ at + (1 + x + j) - 1 = at + 1 + x + j - 1
        BY <2>3
    <2>5. page[at + (1 + x + j) - 1] = u[1 + x + j]
        BY <2>4 DEF Holds, u
    <2> QED
        BY <1>5, <2>2, <2>4, <2>5
<1> DEFINE S == {i \in Nat : got[i] = [row |-> SubSeq(r, 1, i), next |-> at + 1 + o[i]]}
<1>10. r \in Seq(V) /\ Len(r) = N
    BY <1>1
<1> HIDE DEF V
<1>11. 0 \in S
    <2>1. SubSeq(r, 1, 0) = <<>>
        BY <1>10
    <2>2. at + 1 + o[0] = at + 1
        BY <1>5
    <2> QED
        BY <1>4, <2>1, <2>2
<1>12. ASSUME NEW n \in 0 .. N - 1, n \in S PROVE n + 1 \in S
    <2>1. PICK i \in 1 .. N : i = n + 1 /\ i - 1 = n
        BY <1>1
    <2> DEFINE w == SubSeq(r, 1, n)
               p == at + 1 + o[n]
    <2>2. p \in Int
        <3>1. n \in 0 .. N
            BY <1>1
        <3> QED
            BY <1>5, <3>1
    <2>3. got[n] = [row |-> w, next |-> p]
        BY <1>12
    <2> HIDE DEF S
    <2>4. \A j \in 1 .. Space(s[i], r[i]) :
            page[p + j - 1] = SerializeValue(s[i], r[i])[j]
        BY <1>9, <2>1
    <2>5. got[i] = ReadColumn(got[n], s[i], i, page[at], page)
        BY <1>4, <2>1
    <2>11. IsNull(page[at], i) <=> r[i] = Null
        BY <1>7
    <2> HIDE DEF w, p
    <2>9. s[i].length \in Nat /\ OfColumn(s[i], r[i])
        BY <1>1
    <2>10. ReadColumn([row |-> w, next |-> p], s[i], i, page[at], page)
             = [row |-> Append(w, r[i]), next |-> p + Space(s[i], r[i])]
        BY <2>2, <2>4, <2>9, <2>11, ReadOne
    <2>6. got[i] = [row |-> Append(w, r[i]), next |-> p + Space(s[i], r[i])]
        BY <2>3, <2>5, <2>10
    <2>7. Append(w, r[i]) = SubSeq(r, 1, i)
        BY <1>10, <2>1 DEF w
    <2>8. p + Space(s[i], r[i]) = at + 1 + o[i]
        <3>3. n \in 0 .. N
            BY <1>1
        <3>1. PICK x \in Nat, l \in Nat : x = o[n] /\ l = Space(s[i], r[i])
            BY <1>5, <1>8, <3>3
        <3>2. o[i] = x + l
            BY <1>5, <2>1, <3>1
        <3> QED
            BY <3>1, <3>2 DEF p
    <2> QED
        BY <2>1, <2>6, <2>7, <2>8 DEF S
<1> HIDE DEF S
<1>13. \A i \in 0 .. N : i \in S
    BY <1>1, <1>11, <1>12, BoundedInduction
<1>14. got[N] = [row |-> SubSeq(r, 1, N), next |-> at + 1 + o[N]]
    <2>1. N \in 0 .. N
        BY <1>1
    <2> QED
        BY <1>13, <2>1 DEF S
<1>15. SubSeq(r, 1, N) = r
    BY <1>10
<1> QED
    BY <1>4, <1>14, <1>15

-----------------------------------------------------------------------------
(* How many cells a row takes                                              *)

LEMMA TotalOfOneMore ==
    ASSUME NEW n \in Nat, NEW f, \A i \in 1 .. n + 1 : f[i] \in Nat
    PROVE  /\ Total(f, 1 .. n) \in Nat
           /\ Total(f, 1 .. n + 1) = Total(f, 1 .. n) + f[n + 1]
<1>1. IsFiniteSet(1 .. n) /\ n + 1 \notin 1 .. n
    BY FS_Interval
<1>2. (1 .. n) \cup {n + 1} = 1 .. n + 1
    OBVIOUS
<1>3. \A i \in 1 .. n : f[i] \in Nat
    OBVIOUS
<1>4. f[n + 1] \in Nat
    OBVIOUS
<1>5. Total(f, 1 .. n) \in Nat
    BY <1>1, <1>3, SumOfFirst
<1>6. Total(f, (1 .. n) \cup {n + 1}) = f[n + 1] + Total(f, 1 .. n)
    BY <1>1, <1>3, <1>4, SumInsert
<1>7. Total(f, 1 .. n + 1) = f[n + 1] + Total(f, 1 .. n)
    BY <1>2, <1>6
<1> QED
    BY <1>4, <1>5, <1>7

LEMMA TotalOfEmpty ==
    ASSUME NEW f
    PROVE  Total(f, 1 .. 0) = 0
<1>1. 1 .. 0 = {}
    OBVIOUS
<1> QED
    BY <1>1, SumOfNone

LEMMA TotalOfCells ==
    ASSUME NEW n \in Nat, NEW f, \A i \in 1 .. n : f[i] \in Nat
    PROVE  Total(f, 1 .. n) \in Nat
<1>1. IsFiniteSet(1 .. n)
    BY FS_Interval
<1> QED
    BY <1>1, SumOfFirst

LengthsOf(f, seqs, N) == \A i \in 1 .. N : f[i] \in Nat /\ f[i] = Len(seqs[i])

\* Each sequence comes behind as much as those before it have.
LEMMA LaidTotals ==
    ASSUME NEW N \in Nat, NEW seqs, NEW f, LengthsOf(f, seqs, N),
           NEW t, NEW o, Lays(t, seqs, N, o)
    PROVE  \A n \in 0 .. N : o[n] = Total(f, 1 .. n)
<1>1. \A i \in 1 .. N : f[i] \in Nat
    BY DEF LengthsOf
<1>2. /\ o \in [0 .. N -> Nat] /\ o[0] = 0
      /\ \A i \in 1 .. N : o[i] = o[i - 1] + f[i]
    BY DEF Lays, LengthsOf
<1> DEFINE S == {n \in Nat : o[n] = Total(f, 1 .. n)}
<1>3. 0 \in S
    BY <1>2, TotalOfEmpty
<1>4. ASSUME NEW n \in 0 .. N - 1, n \in S PROVE n + 1 \in S
    <2>1. n \in Nat /\ n + 1 \in 1 .. N /\ n + 1 - 1 = n
        OBVIOUS
    <2>2. \A i \in 1 .. n + 1 : f[i] \in Nat
        BY <1>1
    <2>3. Total(f, 1 .. n + 1) = Total(f, 1 .. n) + f[n + 1]
        BY <2>1, <2>2, TotalOfOneMore
    <2>4. o[n + 1] = o[n] + f[n + 1]
        BY <1>2, <2>1
    <2> QED
        BY <1>4, <2>1, <2>3, <2>4
<1> HIDE DEF S
<1>5. \A n \in 0 .. N : n \in S
    BY <1>3, <1>4, BoundedInduction
<1> QED
    BY <1>5 DEF S

LEMMA FlatLength ==
    ASSUME NEW T, NEW N \in Nat, NEW seqs \in [1 .. N -> Seq(T)],
           NEW f, \A i \in 1 .. N : f[i] = Len(seqs[i])
    PROVE  /\ FlattenSeq(seqs) \in Seq(T)
           /\ Len(FlattenSeq(seqs)) = Total(f, 1 .. N)
<1>1. CASE N = 0
    <2>1. seqs = <<>>
        BY <1>1
    <2>2. FlattenSeq(seqs) = <<>>
        BY <2>1 DEF FlattenSeq
    <2> QED
        BY <1>1, <2>2, TotalOfEmpty
<1>2. CASE N # 0
    <2> DEFINE t == FlattenSeq(seqs)
    <2>1. PICK o : Lays(t, seqs, N, o)
        BY <1>2, Laid
    <2>2. t \in Seq(T)
        BY <1>2, Laid
    <2> HIDE DEF t
    <2>3. \A n \in 0 .. N : o[n] = Total(f, 1 .. n)
        <3>1. LengthsOf(f, seqs, N)
            BY DEF LengthsOf
        <3> QED
            BY <2>1, <3>1, LaidTotals
    <2>4. Len(t) = o[N]
        BY <2>1 DEF Lays
    <2> QED
        BY <2>2, <2>3, <2>4 DEF t
<1> QED
    BY <1>1, <1>2

LEMMA TotalOfOneMoreIn ==
    ASSUME NEW n \in Nat, NEW C, NEW k, \A i \in C : k[i] \in Nat
    PROVE  /\ Total(k, C \cap (1 .. n)) \in Nat
           /\ n + 1 \in C =>
                Total(k, C \cap (1 .. n + 1)) = Total(k, C \cap (1 .. n)) + k[n + 1]
           /\ n + 1 \notin C => C \cap (1 .. n + 1) = C \cap (1 .. n)
<1> DEFINE D == C \cap (1 .. n)
<1>1. IsFiniteSet(D)
    <2>1. IsFiniteSet(1 .. n)
        BY FS_Interval
    <2> QED
        BY <2>1, FS_Subset
<1>2. \A i \in D : k[i] \in Nat
    OBVIOUS
<1>3. n + 1 \notin D
    OBVIOUS
<1>4. n + 1 \in C => C \cap (1 .. n + 1) = D \cup {n + 1} /\ k[n + 1] \in Nat
    OBVIOUS
<1>5. n + 1 \notin C => C \cap (1 .. n + 1) = D
    OBVIOUS
<1> HIDE DEF D
<1>6. Total(k, D) \in Nat
    BY <1>1, <1>2, SumOfFirst
<1>7. ASSUME n + 1 \in C
      PROVE  Total(k, C \cap (1 .. n + 1)) = Total(k, D) + k[n + 1]
    <2>1. k[n + 1] \in Nat
        BY <1>4, <1>7
    <2>2. Total(k, D \cup {n + 1}) = k[n + 1] + Total(k, D)
        BY <1>1, <1>2, <1>3, <2>1, SumInsert
    <2>3. Total(k, C \cap (1 .. n + 1)) = Total(k, D \cup {n + 1})
        BY <1>4, <1>7
    <2> QED
        BY <1>6, <2>1, <2>2, <2>3
<1> QED
    BY <1>5, <1>6, <1>7 DEF D

\* The sum over the members of a subset, as a sum over all numbers.
LEMMA TotalSplit ==
    ASSUME NEW N \in Nat, NEW A \in SUBSET (1 .. N), NEW B \in SUBSET (1 .. N),
           NEW f, \A i \in A : f[i] \in Nat,
           NEW g, \A i \in B : g[i] \in Nat,
           NEW h, \A i \in 1 .. N :
              h[i] = (IF i \in A THEN f[i] ELSE 0) + (IF i \in B THEN g[i] ELSE 0)
    PROVE  Total(h, 1 .. N) = Total(f, A) + Total(g, B)
<1>8. ASSUME NEW n \in 0 .. N - 1
      PROVE  /\ n + 1 \in A =>
                  Total(f, A \cap (1 .. n + 1)) = Total(f, A \cap (1 .. n)) + f[n + 1]
             /\ n + 1 \notin A => A \cap (1 .. n + 1) = A \cap (1 .. n)
             /\ n + 1 \in B =>
                  Total(g, B \cap (1 .. n + 1)) = Total(g, B \cap (1 .. n)) + g[n + 1]
             /\ n + 1 \notin B => B \cap (1 .. n + 1) = B \cap (1 .. n)
    <2>1. n \in Nat /\ \A i \in A : f[i] \in Nat
        OBVIOUS
    <2>2. n \in Nat /\ \A i \in B : g[i] \in Nat
        OBVIOUS
    <2>3. /\ n + 1 \in A =>
                  Total(f, A \cap (1 .. n + 1)) = Total(f, A \cap (1 .. n)) + f[n + 1]
          /\ n + 1 \notin A => A \cap (1 .. n + 1) = A \cap (1 .. n)
        BY <2>1, TotalOfOneMoreIn
    <2>4. /\ n + 1 \in B =>
                  Total(g, B \cap (1 .. n + 1)) = Total(g, B \cap (1 .. n)) + g[n + 1]
          /\ n + 1 \notin B => B \cap (1 .. n + 1) = B \cap (1 .. n)
        BY <2>2, TotalOfOneMoreIn
    <2> QED
        BY <2>3, <2>4
<1> DEFINE Up(n, C) == C \cap (1 .. n)
           S == {n \in Nat : n <= N =>
                   /\ Total(f, Up(n, A)) \in Nat /\ Total(g, Up(n, B)) \in Nat
                   /\ Total(h, 1 .. n) = Total(f, Up(n, A)) + Total(g, Up(n, B))}
<1>1. \A i \in 1 .. N : h[i] \in Nat
    OBVIOUS
<1>2. 0 \in S
    <2>1. Up(0, A) = {} /\ Up(0, B) = {} /\ 1 .. 0 = {}
        OBVIOUS
    <2> HIDE DEF Up
    <2>2. Total(f, {}) = 0 /\ Total(g, {}) = 0 /\ Total(h, {}) = 0
        BY SumOfNone
    <2> QED
        BY <2>1, <2>2
<1>4. ASSUME NEW n \in 0 .. N - 1, n \in S PROVE n + 1 \in S
    <2>1. n <= N /\ n \in Nat /\ n + 1 \in Nat /\ n + 1 \in 1 .. N
          /\ \A i \in 1 .. n + 1 : i \in 1 .. N
        OBVIOUS
    <2>2. /\ Total(f, Up(n, A)) \in Nat /\ Total(g, Up(n, B)) \in Nat
          /\ Total(h, 1 .. n) = Total(f, Up(n, A)) + Total(g, Up(n, B))
        BY <1>4, <2>1
    <2>3. /\ n + 1 \in A => Total(f, Up(n + 1, A)) = Total(f, Up(n, A)) + f[n + 1]
          /\ n + 1 \notin A => Up(n + 1, A) = Up(n, A)
        BY <1>8
    <2>4. /\ n + 1 \in B => Total(g, Up(n + 1, B)) = Total(g, Up(n, B)) + g[n + 1]
          /\ n + 1 \notin B => Up(n + 1, B) = Up(n, B)
        BY <1>8
    <2>5. \A i \in 1 .. n + 1 : h[i] \in Nat
        BY <1>1, <2>1
    <2>6. Total(h, 1 .. n + 1) = Total(h, 1 .. n) + h[n + 1]
        BY <2>1, <2>5, TotalOfOneMore
    <2>7. h[n + 1] = (IF n + 1 \in A THEN f[n + 1] ELSE 0)
                       + (IF n + 1 \in B THEN g[n + 1] ELSE 0)
        BY <2>1
    <2>8. (n + 1 \in A => f[n + 1] \in Nat) /\ (n + 1 \in B => g[n + 1] \in Nat)
        OBVIOUS
    <2> HIDE DEF Up
    <2> DEFINE x == IF n + 1 \in A THEN f[n + 1] ELSE 0
               y == IF n + 1 \in B THEN g[n + 1] ELSE 0
    <2>9. x \in Nat /\ y \in Nat
        BY <2>8
    <2> HIDE DEF x, y
    <2>10. /\ Total(f, Up(n + 1, A)) = Total(f, Up(n, A)) + x
           /\ Total(g, Up(n + 1, B)) = Total(g, Up(n, B)) + y
           /\ Total(h, 1 .. n + 1) = Total(h, 1 .. n) + (x + y)
        <3>1. Total(f, Up(n + 1, A)) = Total(f, Up(n, A)) + x
            BY <2>2, <2>3 DEF x
        <3>2. Total(g, Up(n + 1, B)) = Total(g, Up(n, B)) + y
            BY <2>2, <2>4 DEF y
        <3> QED
            BY <2>6, <2>7, <3>1, <3>2 DEF x, y
    <2> QED
        BY <2>1, <2>2, <2>9, <2>10
<1>5. \A n \in 0 .. N : n \in S
    <2> HIDE DEF S
    <2> QED
        BY <1>2, <1>4, BoundedInduction
<1>6. Up(N, A) = A /\ Up(N, B) = B
    OBVIOUS
<1>7. N \in 0 .. N /\ N <= N
    OBVIOUS
<1> QED
    BY <1>5, <1>6, <1>7

LEMMA RowSpaceIs ==
    ASSUME NEW s, NEW r, OfSchema(s, r)
    PROVE  /\ Len(SerializeRow(s, r)) = RowSpace(s, r)
           /\ RowSpace(s, r) \in Nat \ {0}
           /\ \A n \in 0 .. Len(s) :
                LET u == <<GetNulls(r)>>
                           \o FlattenSeq([i \in 1 .. n |-> SerializeValue(s[i], r[i])])
                IN  u \in Seq(Cell) /\ Len(u) <= RowSpace(s, r)
<1> DEFINE N == Len(s)
           A == {i \in 1 .. N : r[i] # Null}
           B == {i \in 1 .. N : r[i] # Null /\ s[i].type = "string"}
           w == [i \in 1 .. N |-> Width(s[i])]
           l == [i \in 1 .. N |-> Len(r[i])]
           h == [i \in 1 .. N |-> Space(s[i], r[i])]
           row(n) == [i \in 1 .. n |-> SerializeValue(s[i], r[i])]
<1>1. /\ N \in Nat \ {0} /\ DOMAIN r = 1 .. N /\ DOMAIN s = 1 .. N
      /\ \A i \in 1 .. N : s[i].length \in Nat /\ OfColumn(s[i], r[i])
    BY DEF OfSchema
<1>2. \A i \in 1 .. N : /\ SerializeValue(s[i], r[i]) \in Seq(Cell)
                        /\ Len(SerializeValue(s[i], r[i])) = Space(s[i], r[i])
                        /\ Space(s[i], r[i]) \in Nat
    BY <1>1, ValueWritten
<1>3. A = {i \in 1 .. N : ~IsNull(GetNulls(r), i)}
    BY NullsCell
<1>4. RowSpace(s, r) = 1 + Total(w, A) + Total(l, B)
    <2>1. FixedRowSpace(s, GetNulls(r)) = 1 + Total(w, A)
        BY <1>1, <1>3 DEF FixedRowSpace, Total
    <2>2. RowSpace(s, r) = FixedRowSpace(s, GetNulls(r)) + Total(l, B)
        BY <1>1 DEF RowSpace, Total
    <2> QED
        BY <2>1, <2>2
<1>5. GetNulls(r) \in Cell
    BY NullsCell
<1>6. /\ \A i \in A : w[i] \in Nat
      /\ \A i \in B : l[i] \in Nat
      /\ \A i \in 1 .. N : h[i] = (IF i \in A THEN w[i] ELSE 0)
                                    + (IF i \in B THEN l[i] ELSE 0)
    <2>1. ASSUME NEW i \in A PROVE w[i] \in Nat
        BY <1>1, <2>1 DEF Width
    <2>2. ASSUME NEW i \in B PROVE l[i] \in Nat
        BY <1>1, <2>2 DEF OfColumn
    <2>3. ASSUME NEW i \in 1 .. N
          PROVE  h[i] = (IF i \in A THEN w[i] ELSE 0) + (IF i \in B THEN l[i] ELSE 0)
        <3>1. h[i] = Space(s[i], r[i]) /\ w[i] = Width(s[i]) /\ l[i] = Len(r[i])
            OBVIOUS
        <3>2. CASE r[i] = Null
            <4>1. i \notin A /\ i \notin B
                BY <3>2
            <4>2. h[i] = 0
                BY <3>1, <3>2 DEF Space
            <4> QED
                BY <4>1, <4>2
        <3>3. CASE r[i] # Null /\ s[i].type = "string"
            <4>1. i \in A /\ i \in B
                BY <3>3
            <4>2. h[i] = 1 + l[i] /\ w[i] = 1
                BY <3>1, <3>3 DEF Space, Width
            <4> QED
                BY <4>1, <4>2
        <3>4. CASE r[i] # Null /\ s[i].type # "string"
            <4>1. i \in A /\ i \notin B
                BY <3>4
            <4>2. h[i] = w[i]
                BY <3>1, <3>4 DEF Space, Width
            <4>3. w[i] \in Nat
                BY <2>1, <4>1
            <4> QED
                BY <4>1, <4>2, <4>3
        <3> QED
            BY <3>2, <3>3, <3>4
    <2> QED
        BY <2>1, <2>2, <2>3
<1>7. /\ A \in SUBSET (1 .. N) /\ B \in SUBSET (1 .. N)
      /\ \A i \in 1 .. N : h[i] \in Nat /\ h[i] = Space(s[i], r[i])
    BY <1>2
<1> HIDE DEF A, B, w, l, h, N
<1>8. Total(h, 1 .. N) = Total(w, A) + Total(l, B)
    BY <1>1, <1>6, <1>7, TotalSplit
<1>9. Total(h, 1 .. N) \in Nat
    BY <1>1, <1>7, TotalOfCells
<1>10. IsFiniteSet(A) /\ IsFiniteSet(B)
    <2>1. IsFiniteSet(1 .. N)
        BY <1>1, FS_Interval
    <2> QED
        BY <1>7, <2>1, FS_Subset
<1>11. Total(w, A) \in Nat /\ Total(l, B) \in Nat
    BY <1>6, <1>10, SumOfFirst
<1>12. RowSpace(s, r) = 1 + Total(h, 1 .. N)
    BY <1>4, <1>8, <1>9, <1>11
<1>13. ASSUME NEW n \in 0 .. N
       PROVE  /\ <<GetNulls(r)>> \o FlattenSeq(row(n)) \in Seq(Cell)
              /\ Len(<<GetNulls(r)>> \o FlattenSeq(row(n))) = 1 + Total(h, 1 .. n)
    <2>1. n \in Nat /\ \A i \in 1 .. n : i \in 1 .. N
        BY <1>1
    <2> DEFINE q == row(n)
    <2>2. q \in [1 .. n -> Seq(Cell)] /\ \A i \in 1 .. n : h[i] = Len(q[i])
        BY <1>2, <1>7, <2>1 DEF N
    <2>3. <<GetNulls(r)>> \in Seq(Cell) /\ Len(<<GetNulls(r)>>) = 1
        BY <1>5
    <2> HIDE DEF q
    <2>4. FlattenSeq(q) \in Seq(Cell) /\ Len(FlattenSeq(q)) = Total(h, 1 .. n)
        BY <2>1, <2>2, FlatLength
    <2>5. /\ <<GetNulls(r)>> \o FlattenSeq(q) \in Seq(Cell)
          /\ Len(<<GetNulls(r)>> \o FlattenSeq(q)) = 1 + Total(h, 1 .. n)
        BY <2>3, <2>4, ConcatProperties
    <2> QED
        BY <2>5 DEF q
<1>14. ASSUME NEW n \in 0 .. N
       PROVE  Total(h, 1 .. n) <= Total(h, 1 .. N)
    <2>1. IsFiniteSet(1 .. N) /\ 1 .. n \subseteq 1 .. N
        BY <1>1, FS_Interval
    <2>2. \A x \in 1 .. n : h[x] \in Nat /\ h[x] <= h[x]
        BY <1>7, <2>1
    <2> QED
        BY <1>7, <2>1, <2>2, SumBelow
<1>15. Total(h, 1 .. N) \in Nat /\ \A n \in 0 .. N : Total(h, 1 .. n) \in Nat
    <2>1. ASSUME NEW n \in 0 .. N PROVE Total(h, 1 .. n) \in Nat
        <3>1. n \in Nat /\ \A i \in 1 .. n : i \in 1 .. N
            BY <1>1
        <3>2. \A i \in 1 .. n : h[i] \in Nat
            BY <1>7, <3>1
        <3> QED
            BY <3>1, <3>2, TotalOfCells
    <2> QED
        BY <1>9, <2>1
<1>16. SerializeRow(s, r) = <<GetNulls(r)>> \o FlattenSeq(row(N))
    BY <1>1 DEF SerializeRow, N
<1>17. Len(SerializeRow(s, r)) = RowSpace(s, r)
    <2>1. N \in 0 .. N
        BY <1>1
    <2> HIDE DEF row
    <2> QED
        BY <1>12, <1>13, <1>16, <2>1
<1>18. ASSUME NEW n \in 0 .. N
       PROVE  /\ <<GetNulls(r)>> \o FlattenSeq(row(n)) \in Seq(Cell)
              /\ Len(<<GetNulls(r)>> \o FlattenSeq(row(n))) <= RowSpace(s, r)
    <2> HIDE DEF row
    <2> QED
        BY <1>12, <1>13, <1>14, <1>15
<1>19. RowSpace(s, r) \in Nat \ {0}
    BY <1>12, <1>15
<1> QED
    BY <1>17, <1>18, <1>19 DEF N

\* Without strings, no row is longer than the slots for rows are made.
LEMMA FixedSpace ==
    ASSUME NEW s, Len(s) \in Nat \ {0}, DOMAIN s = 1 .. Len(s),
           \A i \in 1 .. Len(s) : s[i].length \in Nat
    PROVE  /\ FixedRowSpace(s, 0) \in Nat \ {0}
           /\ \A r : OfSchema(s, r) /\ (\A i \in 1 .. Len(s) : s[i].type # "string")
                       => RowSpace(s, r) <= FixedRowSpace(s, 0)
<1> DEFINE N == Len(s)
           w == [i \in 1 .. N |-> Width(s[i])]
           Z == {i \in DOMAIN s : ~IsNull(0, i)}
<1>1. \A i \in 1 .. N : w[i] \in Nat /\ w[i] = Width(s[i])
    BY DEF Width
<1>2. FixedRowSpace(s, 0) = 1 + Total(w, Z)
    BY DEF FixedRowSpace, Total
<1>3. Z \subseteq 1 .. N /\ N \in Nat
    OBVIOUS
<1>4. IsFiniteSet(1 .. N) /\ IsFiniteSet(Z)
    <2>1. IsFiniteSet(1 .. N)
        BY <1>3, FS_Interval
    <2> QED
        BY <1>3, <2>1, FS_Subset
<1> HIDE DEF w
<1>5. FixedRowSpace(s, 0) \in Nat \ {0}
    <2>1. \A i \in Z : w[i] \in Nat
        BY <1>1, <1>3
    <2> HIDE DEF Z
    <2>2. Total(w, Z) \in Nat
        BY <1>4, <2>1, SumOfFirst
    <2> QED
        BY <1>2, <2>2
<1>6. ASSUME NEW r, OfSchema(s, r), \A i \in 1 .. N : s[i].type # "string"
      PROVE  RowSpace(s, r) <= FixedRowSpace(s, 0)
    <2> DEFINE A == {i \in DOMAIN s : ~IsNull(GetNulls(r), i)}
               v == [i \in DOMAIN s |-> Width(s[i])]
               l == [i \in DOMAIN r |-> Len(r[i])]
               B == {i \in DOMAIN r : r[i] # Null /\ s[i].type = "string"}
    <2>1. B = {}
        BY <1>6 DEF OfSchema
    <2>2. RowSpace(s, r) = 1 + Total(v, A) + Total(l, {})
        <3>1. FixedRowSpace(s, GetNulls(r)) = 1 + Total(v, A)
            BY DEF FixedRowSpace, Total
        <3>2. RowSpace(s, r) = FixedRowSpace(s, GetNulls(r)) + Total(l, B)
            BY DEF RowSpace, Total
        <3> QED
            BY <2>1, <3>1, <3>2
    <2>3. Total(l, {}) = 0
        BY SumOfNone
    <2>4. A \subseteq Z
        <3>1. \A i \in DOMAIN s : ~IsNull(0, i)
            BY <1>6, NullsCell
        <3> QED
            BY <3>1
    <2>5. v = w
        BY DEF w
    <2>6. \A i \in Z : w[i] \in Nat
        BY <1>1, <1>3
    <2>7. \A i \in A : w[i] \in Nat /\ w[i] <= w[i]
        BY <2>4, <2>6
    <2>8. IsFiniteSet(A)
        BY <1>4, <2>4, FS_Subset
    <2> HIDE DEF A, Z, v, l
    <2>9. Total(w, A) <= Total(w, Z)
        BY <1>4, <2>4, <2>6, <2>7, SumBelow
    <2>10. Total(w, A) \in Nat /\ Total(w, Z) \in Nat
        BY <1>4, <2>6, <2>7, <2>8, SumOfFirst
    <2> QED
        BY <1>2, <2>2, <2>3, <2>5, <2>9, <2>10
<1> QED
    BY <1>5, <1>6

-----------------------------------------------------------------------------
(* Cells of a page                                                         *)

\* Cells are written where they should be, and nothing else is.
LEMMA WithIs ==
    ASSUME NEW page \in Page, NEW at \in Nat, NEW t \in Seq(Cell),
           at + Len(t) <= PageSize
    PROVE  /\ With(page, at, t) \in Page
           /\ Holds(With(page, at, t), at, t)
           /\ \A i \in 0 .. PageSize - 1 :
                i < at \/ i >= at + Len(t) => With(page, at, t)[i] = page[i]
<1> DEFINE L == Len(t)
           q == With(page, at, t)
<1>1. /\ DOMAIN page = 0 .. PageSize - 1
      /\ \A i \in 0 .. PageSize - 1 : page[i] \in Cell
      /\ L \in Nat /\ \A j \in 1 .. L : t[j] \in Cell
    BY DEF Page, Cell
<1>2. q = [i \in 0 .. PageSize - 1 |->
              IF i \in at .. at + L - 1 THEN t[i - at + 1] ELSE page[i]]
    BY <1>1 DEF With
<1> HIDE DEF q, L
<1>3. ASSUME NEW i \in 0 .. PageSize - 1
      PROVE  /\ q[i] \in Cell
             /\ i < at \/ i >= at + L => q[i] = page[i]
    <2>1. i \in at .. at + L - 1 => i - at + 1 \in 1 .. L
        BY <1>1
    <2>2. i < at \/ i >= at + L => i \notin at .. at + L - 1
        BY <1>1
    <2> QED
        BY <1>1, <1>2, <2>1, <2>2
<1>4. ASSUME NEW j \in 1 .. L PROVE q[at + j - 1] = t[j]
    <2>1. /\ at + j - 1 \in at .. at + L - 1 /\ at + j - 1 \in 0 .. PageSize - 1
          /\ at + j - 1 - at + 1 = j
        BY <1>1, PageAssumption DEF L
    <2> QED
        BY <1>2, <2>1
<1>5. q \in Page
    BY <1>2, <1>3 DEF Page, Cell
<1>6. Holds(q, at, t)
    BY <1>4 DEF Holds, L
<1>7. \A i \in 0 .. PageSize - 1 : i < at \/ i >= at + Len(t) => q[i] = page[i]
    BY <1>3 DEF L
<1> QED
    BY <1>5, <1>6, <1>7 DEF q

\* What is written is there also in a page with the same cells there.
LEMMA StillHolds ==
    ASSUME NEW at \in Nat, NEW t, Len(t) \in Nat,
           NEW page, NEW q, Holds(page, at, t),
           \A i \in at .. at + Len(t) - 1 : q[i] = page[i]
    PROVE  Holds(q, at, t)
<1>1. ASSUME NEW j \in 1 .. Len(t) PROVE q[at + j - 1] = t[j]
    <2>1. at + j - 1 \in at .. at + Len(t) - 1
        OBVIOUS
    <2> QED
        BY <2>1 DEF Holds
<1> QED
    BY <1>1 DEF Holds

-----------------------------------------------------------------------------
(* Fixed pages                                                             *)

LEMMA Times ==
    ASSUME NEW w \in Nat, NEW i \in Nat, NEW j \in Nat, i < j
    PROVE  i * w + w <= j * w
<1>1. PICK d \in Nat : j = i + 1 + d
    <2>1. j - i - 1 \in Nat /\ j = i + 1 + (j - i - 1)
        OBVIOUS
    <2> QED
        BY <2>1
<1>2. j * w = i * w + w + d * w
    BY <1>1
<1>3. d * w \in Nat /\ i * w \in Nat
    OBVIOUS
<1> QED
    BY <1>2, <1>3

LEMMA SlotsFit ==
    ASSUME NEW w \in Nat \ {0}
    PROVE  /\ PageSize \div w \in Nat
           /\ (PageSize \div w) * w <= PageSize
           /\ \A i \in 0 .. (PageSize \div w) - 1 :
                 i * w \in Nat /\ i * w + w <= PageSize
<1> DEFINE c == PageSize \div w
<1>1. PageSize \in Nat
    OBVIOUS
<1>2. c * w <= PageSize /\ c \in Int
    BY <1>1
<1>4. c \in Nat
    BY <1>1
<1> HIDE DEF c
<1>5. c * w \in Nat
    BY <1>4
<1>7. ASSUME NEW i \in 0 .. c - 1 PROVE i * w \in Nat /\ i * w + w <= PageSize
    <2>1. i \in Nat /\ i < c
        BY <1>4
    <2>2. i * w + w <= c * w
        BY <1>4, <2>1, Times
    <2>3. i * w \in Nat
        BY <2>1
    <2> DEFINE x == c * w
               y == i * w
    <2>4. x \in Nat /\ y \in Nat /\ y + w <= x /\ x <= PageSize
        BY <1>2, <1>5, <2>2, <2>3
    <2> HIDE DEF x, y
    <2>5. y + w <= PageSize
        BY <1>1, <2>4
    <2> QED
        BY <2>3, <2>5 DEF y
<1> QED
    BY <1>2, <1>4, <1>7 DEF c

LEMMA SlotsApart ==
    ASSUME NEW w \in Nat, NEW i \in Nat, NEW j \in Nat, i # j
    PROVE  i * w + w <= j * w \/ j * w + w <= i * w
<1>1. i < j \/ j < i
    OBVIOUS
<1> QED
    BY <1>1, Times

Slots(w) == 0 .. (PageSize \div w) - 1

\* The cells of slot j.
InSlot(w, j) == j * w .. j * w + w - 1

LEMMA SlotFilled ==
    ASSUME NEW w \in Nat \ {0}, NEW page \in Page, NEW i \in Slots(w),
           NEW t \in Seq(Cell), Len(t) + 1 <= w,
           NEW q, q = With(page, i * w, << 1 >> \o t)
    PROVE  /\ q \in Page /\ q[i * w] = 1 /\ Holds(q, i * w + 1, t)
           /\ \A j \in Slots(w) : j # i => \A n \in InSlot(w, j) : q[n] = page[n]
<1> DEFINE u == << 1 >> \o t
           at == i * w
<1>1. at \in Nat /\ at + w <= PageSize /\ i \in Nat
    BY SlotsFit DEF Slots
<1>2. /\ u \in Seq(Cell) /\ Len(u) = 1 + Len(t) /\ Len(t) \in Nat
      /\ u[1] = 1 /\ \A j \in 1 .. Len(t) : u[j + 1] = t[j]
    <2>1. 1 \in Cell
        BY DEF Cell
    <2>2. << 1 >> \in Seq(Cell) /\ Len(<<1>>) = 1 /\ <<1>>[1] = 1
        BY <2>1
    <2>3. Len(t) \in Nat
        OBVIOUS
    <2>4. /\ u \in Seq(Cell) /\ Len(u) = 1 + Len(t)
          /\ \A j \in 1 .. 1 + Len(t) : u[j] = IF j <= 1 THEN << 1 >>[j] ELSE t[j - 1]
        BY <2>2, ConcatProperties
    <2>5. u[1] = 1
        BY <2>2, <2>3, <2>4
    <2>6. ASSUME NEW j \in 1 .. Len(t) PROVE u[j + 1] = t[j]
        <3>1. j + 1 \in 1 .. 1 + Len(t) /\ ~(j + 1 <= 1) /\ j + 1 - 1 = j
            BY <2>3
        <3> QED
            BY <2>4, <3>1
    <2> QED
        BY <2>3, <2>4, <2>5, <2>6
<1> HIDE DEF u, at
<1>3. at + Len(u) <= PageSize
    BY <1>1, <1>2
<1>4. q = With(page, at, u)
    BY DEF u, at
<1>5. /\ q \in Page /\ Holds(q, at, u)
      /\ \A n \in 0 .. PageSize - 1 : n < at \/ n >= at + Len(u) => q[n] = page[n]
    BY <1>1, <1>2, <1>3, <1>4, WithIs
<1>6. q[at] = 1
    <2>1. 1 \in 1 .. Len(u) /\ at + 1 - 1 = at
        BY <1>1, <1>2
    <2> QED
        BY <1>2, <1>5, <2>1 DEF Holds
<1>7. Holds(q, at + 1, t)
    <2>1. ASSUME NEW j \in 1 .. Len(t) PROVE q[at + 1 + j - 1] = t[j]
        <3>1. j + 1 \in 1 .. Len(u) /\ at + (j + 1) - 1 = at + 1 + j - 1
            BY <1>1, <1>2
        <3> QED
            BY <1>2, <1>5, <3>1 DEF Holds
    <2> QED
        BY <2>1 DEF Holds
<1>8. ASSUME NEW j \in Slots(w), j # i, NEW n \in InSlot(w, j)
      PROVE  q[n] = page[n]
    <2> DEFINE b == j * w
    <2>1. b \in Nat /\ b + w <= PageSize /\ j \in Nat
        BY SlotsFit DEF Slots
    <2>2. at + w <= b \/ b + w <= at
        BY <1>1, <1>8, <2>1, SlotsApart DEF at
    <2>3. n \in b .. b + w - 1
        BY DEF InSlot
    <2> HIDE DEF b
    <2>4. n \in 0 .. PageSize - 1 /\ (n < at \/ n >= at + Len(u))
        BY <1>1, <1>2, <2>1, <2>2, <2>3, PageAssumption
    <2> QED
        BY <1>5, <2>4
<1> QED
    BY <1>5, <1>6, <1>7, <1>8 DEF at

Cleared(page, at) == [page EXCEPT ![at] = 0]

LEMMA SlotEmptied ==
    ASSUME NEW w \in Nat \ {0}, NEW page \in Page, NEW i \in Slots(w),
           NEW q, q = Cleared(page, i * w)
    PROVE  /\ q \in Page /\ q[i * w] = 0
           /\ \A j \in Slots(w) : j # i => \A n \in InSlot(w, j) : q[n] = page[n]
<1> DEFINE at == i * w
<1>1. at \in Nat /\ at + w <= PageSize /\ i \in Nat
    BY SlotsFit DEF Slots
<1>2. q = [page EXCEPT ![at] = 0]
    BY DEF Cleared
<1> HIDE DEF at
<1>3. at \in 0 .. PageSize - 1
    BY <1>1, PageAssumption
<1>4. q \in Page /\ q[at] = 0
    <2>1. 0 \in 0 .. Byte - 1
        BY ByteAssumption
    <2> QED
        BY <1>2, <1>3, <2>1 DEF Page
<1>5. ASSUME NEW j \in Slots(w), j # i, NEW n \in InSlot(w, j)
      PROVE  q[n] = page[n]
    <2> DEFINE b == j * w
    <2>1. b \in Nat /\ b + w <= PageSize /\ j \in Nat
        BY SlotsFit DEF Slots
    <2>2. at + w <= b \/ b + w <= at
        BY <1>1, <1>5, <2>1, SlotsApart DEF at
    <2>3. n \in b .. b + w - 1
        BY DEF InSlot
    <2> HIDE DEF b
    <2>4. n # at /\ n \in 0 .. PageSize - 1
        BY <1>1, <2>1, <2>2, <2>3, PageAssumption
    <2> QED
        BY <1>2, <2>4 DEF Page
<1> QED
    BY <1>4, <1>5 DEF at

-----------------------------------------------------------------------------
(* Flexible pages                                                          *)

LEMMA PrevSums ==
    ASSUME NEW page \in Page
    PROVE  /\ PrevSum(page, 0) = 0
           /\ \A i \in 0 .. PageSize - 1 : page[i] \in Cell /\ PrevSum(page, i) \in Nat
           /\ \A i \in 0 .. PageSize - 2 :
                PrevSum(page, i + 1) = PrevSum(page, i) + page[i + 1]
           /\ \A n \in 0 .. PageSize - 1 : \A i \in 0 .. n :
                PrevSum(page, i) <= PrevSum(page, n)
<1>1. \A i \in 0 .. PageSize - 1 : page[i] \in Cell /\ page[i] \in Nat
    BY DEF Page, Cell
<1>2. ASSUME NEW i \in 0 .. PageSize - 1 PROVE PrevSum(page, i) \in Nat
    <2>1. i \in Nat /\ \A n \in 1 .. i : n \in 0 .. PageSize - 1
        BY PageAssumption
    <2>2. \A n \in 1 .. i : page[n] \in Nat
        BY <1>1, <2>1
    <2> QED
        BY <2>1, <2>2, TotalOfCells DEF PrevSum, Total
<1>3. ASSUME NEW i \in 0 .. PageSize - 2
      PROVE  PrevSum(page, i + 1) = PrevSum(page, i) + page[i + 1]
    <2>1. i \in Nat /\ \A n \in 1 .. i + 1 : n \in 0 .. PageSize - 1
        BY PageAssumption
    <2>2. \A n \in 1 .. i + 1 : page[n] \in Nat
        BY <1>1, <2>1
    <2> QED
        BY <2>1, <2>2, TotalOfOneMore DEF PrevSum, Total
<1>4. ASSUME NEW n \in 0 .. PageSize - 1, NEW i \in 0 .. n
      PROVE  PrevSum(page, i) <= PrevSum(page, n)
    <2>1. n \in Nat /\ 1 .. i \subseteq 1 .. n /\ \A m \in 1 .. n : m \in 0 .. PageSize - 1
        BY PageAssumption
    <2>2. \A m \in 1 .. n : page[m] \in Nat
        BY <1>1, <2>1
    <2>3. \A m \in 1 .. i : page[m] \in Nat /\ page[m] <= page[m]
        BY <2>1, <2>2
    <2>4. IsFiniteSet(1 .. n)
        BY <2>1, FS_Interval
    <2>5. Total(page, 1 .. i) <= Total(page, 1 .. n)
        BY <2>1, <2>2, <2>3, <2>4, SumBelow
    <2> QED
        BY <2>5 DEF PrevSum, Total
<1>5. PrevSum(page, 0) = 0
    BY TotalOfEmpty DEF PrevSum, Total
<1> QED
    BY <1>1, <1>2, <1>3, <1>4, <1>5

\* Row i takes these cells.
RowCells(page, i) ==
    PageSize - PrevSum(page, i + 1)
        .. PageSize - PrevSum(page, i + 1) + RowLength(page, i) - 1

\* The first n rows of page are where they were in q.
Keeps(page, q, n) ==
    \A i \in 0 .. n - 1 :
        /\ RowLength(q, i) = RowLength(page, i)
        /\ PrevSum(q, i + 1) = PrevSum(page, i + 1)
        /\ \A c \in RowCells(page, i) : q[c] = page[c]

\* The row count, the lengths and the rows have room in the page.
Room(page) ==
    /\ Count(page) \in 0 .. PageSize - 1
    /\ PrevSum(page, Count(page)) + 1 + Count(page) <= PageSize

LEMMA RowsKept ==
    ASSUME NEW page \in Page, NEW q \in Page, NEW n \in 0 .. PageSize - 1,
           PrevSum(page, n) + 1 + n <= PageSize,
           \A c \in 1 .. n : q[c] = page[c],
           \A c \in PageSize - PrevSum(page, n) .. PageSize - 1 : q[c] = page[c]
    PROVE  /\ PrevSum(q, n) = PrevSum(page, n)
           /\ Keeps(page, q, n)
<1> DEFINE P == PageSize
<1>1. P \in Nat /\ n \in 0 .. P - 1
    BY PageAssumption
<1>2. ASSUME NEW i \in 0 .. n PROVE PrevSum(q, i) = PrevSum(page, i)
    <2>4. IsFiniteSet(1 .. i)
        BY FS_Interval
    <2>1. IsFiniteSet(1 .. i) /\ \A c \in 1 .. i : c \in 1 .. n /\ c \in 0 .. P - 1
        BY <1>1, <2>4
    <2>2. \A c \in 1 .. i : page[c] \in Nat /\ q[c] = page[c]
        BY <2>1 DEF Page
    <2>3. Total(q, 1 .. i) = Total(page, 1 .. i)
        BY <2>1, <2>2, SumSame
    <2> QED
        BY <2>3 DEF PrevSum, Total
<1>3. ASSUME NEW i \in 0 .. n - 1
      PROVE  /\ RowLength(q, i) = RowLength(page, i)
             /\ PrevSum(q, i + 1) = PrevSum(page, i + 1)
             /\ \A c \in RowCells(page, i) : q[c] = page[c]
    <2>1. /\ i + 1 \in 1 .. n /\ i + 1 \in 0 .. n /\ i \in 0 .. n /\ n \in 0 .. P - 1
          /\ i \in 0 .. P - 1 /\ i + 1 \in 0 .. P - 1 /\ i \in 0 .. P - 2
        BY <1>1
    <2>2. RowLength(q, i) = RowLength(page, i)
        BY <2>1 DEF RowLength
    <2>3. PICK a \in Nat, b \in Nat, l \in Nat, m \in Nat :
            /\ a = PrevSum(page, i) /\ b = PrevSum(page, i + 1)
            /\ l = RowLength(page, i) /\ m = PrevSum(page, n)
        <3>1. PrevSum(page, i) \in Nat
            BY <2>1, PrevSums
        <3>2. PrevSum(page, i + 1) \in Nat
            BY <2>1, PrevSums
        <3>3. PrevSum(page, n) \in Nat
            BY <2>1, PrevSums
        <3>4. RowLength(page, i) \in Nat
            BY <2>1 DEF RowLength, Page
        <3> QED
            BY <3>1, <3>2, <3>3, <3>4
    <2>4. b = a + l /\ b <= m /\ m + 1 + n <= P
        BY <2>1, <2>3, PrevSums DEF RowLength
    <2>5. ASSUME NEW c \in RowCells(page, i) PROVE q[c] = page[c]
        <3>1. c \in P - b .. P - b + l - 1
            BY <2>3 DEF RowCells
        <3>2. c \in P - m .. P - 1
            BY <1>1, <2>3, <2>4, <3>1
        <3> QED
            BY <2>3, <3>2
    <2> QED
        BY <1>2, <2>1, <2>2, <2>5
<1>4. n \in 0 .. n
    OBVIOUS
<1> QED
    BY <1>2, <1>3, <1>4 DEF Keeps

\* Of a kept row the cells are read where they were.
LEMMA RowKept ==
    ASSUME NEW page \in Page, NEW q, NEW n \in 0 .. PageSize - 1, Keeps(page, q, n),
           PrevSum(page, n) <= PageSize,
           NEW i \in 0 .. n - 1, NEW t, Len(t) \in Nat, Len(t) = RowLength(page, i),
           Holds(page, PageSize - PrevSum(page, i + 1), t)
    PROVE  /\ RowLength(q, i) = Len(t)
           /\ Holds(q, PageSize - PrevSum(q, i + 1), t)
<1> DEFINE at == PageSize - PrevSum(page, i + 1)
<1>1. at \in Nat
    <2>1. i + 1 \in 0 .. n /\ i + 1 \in 0 .. PageSize - 1 /\ n \in 0 .. PageSize - 1
        BY PageAssumption
    <2>2. PrevSum(page, i + 1) \in Nat
        BY <2>1, PrevSums
    <2>3. PrevSum(page, n) \in Nat
        BY PrevSums
    <2>4. PrevSum(page, i + 1) <= PrevSum(page, n)
        BY <2>1, PrevSums
    <2> QED
        BY <2>2, <2>3, <2>4, PageAssumption
<1>2. \A c \in at .. at + Len(t) - 1 : q[c] = page[c]
    BY DEF Keeps, RowCells
<1>3. PrevSum(q, i + 1) = PrevSum(page, i + 1) /\ RowLength(q, i) = Len(t)
    BY DEF Keeps
<1> HIDE DEF at
<1>4. Holds(page, at, t)
    BY DEF at
<1>5. Holds(q, at, t)
    BY <1>1, <1>2, <1>4, StillHolds
<1> QED
    BY <1>3, <1>5 DEF at

\* What comes below the rows of a page leaves them where they are.
LEMMA RowTorn ==
    ASSUME NEW page \in Page, Room(page),
           NEW space \in Nat, NEW t \in Seq(Cell), Len(t) <= space,
           PrevSum(page, Count(page)) + space + 2 + Count(page) <= PageSize,
           NEW q, q = With(page, PageSize - PrevSum(page, Count(page)) - space, t)
    PROVE  /\ q \in Page /\ Room(q) /\ Count(q) = Count(page)
           /\ Keeps(page, q, Count(page))
           /\ PrevSum(q, Count(page)) = PrevSum(page, Count(page))
           /\ Holds(q, PageSize - PrevSum(page, Count(page)) - space, t)
           /\ \A c \in 0 .. Count(page) + 1 : q[c] = page[c]
           /\ \A c \in PageSize - PrevSum(page, Count(page)) .. PageSize - 1 :
                q[c] = page[c]
<1>1. PICK n \in 0 .. PageSize - 1 : n = Count(page)
    BY DEF Room
<1>2. PICK m \in Nat : m = PrevSum(page, n)
    BY PrevSums
<1> DEFINE low == PageSize - m - space
<1>3. /\ low \in Nat /\ low + Len(t) <= PageSize /\ n + 2 <= low
      /\ low + Len(t) <= PageSize - m /\ Len(t) \in Nat /\ m + 1 + n <= PageSize
    <2>1. m + space + 2 + n <= PageSize
        BY <1>1, <1>2
    <2>2. Len(t) \in Nat /\ PageSize \in Nat
        BY PageAssumption
    <2> QED
        BY <2>1, <2>2
<1>4. q = With(page, low, t)
    BY <1>1, <1>2
<1> HIDE DEF low
<1>5. /\ q \in Page /\ Holds(q, low, t)
      /\ \A i \in 0 .. PageSize - 1 : i < low \/ i >= low + Len(t) => q[i] = page[i]
    BY <1>3, <1>4, WithIs
<1>6. ASSUME NEW c \in 0 .. n + 1 PROVE q[c] = page[c]
    <2>1. c \in 0 .. PageSize - 1 /\ c < low
        BY <1>1, <1>3, PageAssumption
    <2> QED
        BY <1>5, <2>1
<1>7. ASSUME NEW c \in PageSize - m .. PageSize - 1 PROVE q[c] = page[c]
    <2>1. c \in 0 .. PageSize - 1 /\ c >= low + Len(t)
        BY <1>2, <1>3, PageAssumption
    <2> QED
        BY <1>5, <2>1
<1>8. Count(q) = n
    <2>1. 0 \in 0 .. n + 1
        BY <1>1
    <2> QED
        BY <1>1, <1>6, <2>1 DEF Count
<1>9. PrevSum(q, n) = PrevSum(page, n) /\ Keeps(page, q, n)
    <2>1. \A c \in 1 .. n : q[c] = page[c]
        <3>1. \A c \in 1 .. n : c \in 0 .. n + 1
            BY <1>1
        <3> QED
            BY <1>6, <3>1
    <2>2. PrevSum(page, n) + 1 + n <= PageSize
        BY <1>2, <1>3
    <2>3. \A c \in PageSize - PrevSum(page, n) .. PageSize - 1 : q[c] = page[c]
        BY <1>2, <1>7
    <2> QED
        BY <1>1, <1>5, <2>1, <2>2, <2>3, RowsKept
<1>10. Room(q)
    BY <1>1, <1>2, <1>3, <1>8, <1>9 DEF Room
<1>11. \A c \in 0 .. Count(page) + 1 : q[c] = page[c]
    BY <1>1, <1>6
<1>12. \A c \in PageSize - PrevSum(page, Count(page)) .. PageSize - 1 : q[c] = page[c]
    BY <1>1, <1>2, <1>7
<1> QED
    BY <1>1, <1>2, <1>5, <1>8, <1>9, <1>10, <1>11, <1>12 DEF low

\* The length behind the others, and one row more.
Counted(page, n, space) ==
    [page EXCEPT ![n + 1] = space, ![0] = (n + 1) % Byte]

\* A row that is added takes the cells below the others.
LEMMA RowAdded ==
    ASSUME NEW page \in Page, Room(page),
           NEW t \in Seq(Cell), NEW space \in Cell, Len(t) = space,
           PrevSum(page, Count(page)) + space + 2 + Count(page) <= PageSize,
           NEW p, p = With(page, PageSize - PrevSum(page, Count(page)) - space, t),
           NEW q, q = Counted(p, Count(page), space)
    PROVE  /\ q \in Page /\ Room(q)
           /\ Count(page) + 1 # Byte =>
                /\ Count(q) = Count(page) + 1
                /\ Keeps(page, q, Count(page))
                /\ RowLength(q, Count(page)) = space
                /\ Holds(q, PageSize - PrevSum(q, Count(page) + 1), t)
<1>1. PICK n \in 0 .. PageSize - 1 : n = Count(page)
    BY DEF Room
<1>2. PICK m \in Nat : m = PrevSum(page, n)
    BY PrevSums
<1>3. space \in Nat /\ m + space + 2 + n <= PageSize
    BY <1>1, <1>2 DEF Cell
<1>4. /\ p \in Page /\ PrevSum(p, n) = m
      /\ Holds(p, PageSize - m - space, t)
      /\ \A c \in 0 .. n + 1 : p[c] = page[c]
      /\ \A c \in PageSize - m .. PageSize - 1 : p[c] = page[c]
    <2>1. Len(t) <= space /\ space \in Nat
        BY <1>3
    <2> QED
        <3>1. /\ p \in Page /\ PrevSum(p, Count(page)) = PrevSum(page, Count(page))
              /\ Holds(p, PageSize - PrevSum(page, Count(page)) - space, t)
              /\ \A c \in 0 .. Count(page) + 1 : p[c] = page[c]
              /\ \A c \in PageSize - PrevSum(page, Count(page)) .. PageSize - 1 :
                   p[c] = page[c]
            BY <2>1, RowTorn
        <3> QED
            BY <1>1, <1>2, <3>1
<1>5. n \in Cell
    BY <1>1 DEF Count, Page, Cell
<1> DEFINE k == (n + 1) % Byte
<1>6. k \in Cell /\ (n + 1 # Byte => k = n + 1) /\ (n + 1 = Byte => k = 0)
    <2>1. n + 1 \in 1 .. Byte
        BY <1>5, ByteAssumption DEF Cell
    <2>2. n + 1 # Byte => n + 1 \in 0 .. Byte - 1 /\ k = n + 1
        BY <2>1, ByteAssumption
    <2>3. n + 1 = Byte => k = 0
        BY ByteAssumption
    <2>4. 0 \in Cell
        BY DEF Cell
    <2> HIDE DEF k
    <2> QED
        BY <2>2, <2>3, <2>4 DEF Cell
<1>7. n + 1 \in 0 .. PageSize - 1 /\ 0 \in 0 .. PageSize - 1 /\ n + 1 # 0
    BY <1>1, <1>2, <1>3, PageAssumption
<1>8. q = [p EXCEPT ![n + 1] = space, ![0] = k]
    BY <1>1 DEF Counted
<1> HIDE DEF k
<1>9. /\ q \in Page /\ q[0] = k /\ q[n + 1] = space
      /\ \A c \in 0 .. PageSize - 1 : c # 0 /\ c # n + 1 => q[c] = p[c]
    <2>1. /\ p = [c \in 0 .. PageSize - 1 |-> p[c]]
          /\ \A c \in 0 .. PageSize - 1 : p[c] \in Cell
        BY <1>4 DEF Page, Cell
    <2>2. q = [c \in 0 .. PageSize - 1 |->
                  IF c = 0 THEN k ELSE IF c = n + 1 THEN space ELSE p[c]]
        BY <1>7, <1>8, <2>1
    <2>3. q \in [0 .. PageSize - 1 -> Cell]
        BY <1>6, <2>1, <2>2
    <2> QED
        BY <1>7, <2>2, <2>3 DEF Page, Cell
<1>10. Keeps(page, q, n) /\ PrevSum(q, n) = m
    <2>1. ASSUME NEW c \in 1 .. n PROVE q[c] = page[c]
        <3>1. c # 0 /\ c # n + 1 /\ c \in 0 .. PageSize - 1 /\ c \in 0 .. n + 1
            BY <1>1, PageAssumption
        <3> QED
            BY <1>4, <1>9, <3>1
    <2>2. ASSUME NEW c \in PageSize - m .. PageSize - 1 PROVE q[c] = page[c]
        <3>1. c # 0 /\ c # n + 1 /\ c \in 0 .. PageSize - 1
            BY <1>1, <1>2, <1>3, PageAssumption
        <3>2. p[c] = page[c]
            BY <1>4
        <3> QED
            BY <1>9, <3>1, <3>2
    <2>3. PrevSum(page, n) + 1 + n <= PageSize
        <3>1. m + 1 + n <= PageSize
            BY <1>3, PageAssumption
        <3> QED
            BY <1>2, <3>1
    <2> QED
        BY <1>1, <1>2, <1>9, <2>1, <2>2, <2>3, RowsKept
<1>11. Room(q)
    <2>1. CASE n + 1 = Byte
        <3>1. Count(q) = 0
            BY <1>6, <1>9, <2>1 DEF Count
        <3>2. PrevSum(q, 0) = 0
            BY <1>9, PrevSums
        <3> QED
            BY <3>1, <3>2, PageAssumption DEF Room
    <2>2. CASE n + 1 # Byte
        <3>1. Count(q) = n + 1
            BY <1>6, <1>9, <2>2 DEF Count
        <3>2. n \in 0 .. PageSize - 2
            BY <1>1, <1>7
        <3>3. PrevSum(q, n + 1) = m + space
            BY <1>9, <1>10, <3>2, PrevSums
        <3> QED
            BY <1>2, <1>3, <1>7, <3>1, <3>3, PageAssumption DEF Room
    <2> QED
        BY <2>1, <2>2
<1>12. ASSUME n + 1 # Byte
       PROVE  /\ Count(q) = n + 1 /\ RowLength(q, n) = space
              /\ Holds(q, PageSize - PrevSum(q, n + 1), t)
    <2>1. n \in 0 .. PageSize - 2
        BY <1>1, <1>7
    <2>2. PrevSum(q, n + 1) = m + space
        BY <1>9, <1>10, <2>1, PrevSums
    <2>3. PageSize - (m + space) = PageSize - m - space
        BY <1>2, <1>3, PageAssumption
    <2> DEFINE at == PageSize - m - space
    <2>4. at \in Nat /\ n + 2 <= at /\ at + Len(t) <= PageSize
        BY <1>1, <1>2, <1>3, PageAssumption
    <2>5. Len(t) \in Nat
        BY <1>3
    <2> HIDE DEF at
    <2>6. \A c \in at .. at + Len(t) - 1 : q[c] = p[c]
        <3>1. ASSUME NEW c \in at .. at + Len(t) - 1
              PROVE  c # 0 /\ c # n + 1 /\ c \in 0 .. PageSize - 1
            BY <1>1, <2>4, <2>5, PageAssumption
        <3> QED
            BY <1>9, <3>1
    <2>7. Holds(p, at, t)
        BY <1>4 DEF at
    <2>9. at \in Nat
        BY <2>4
    <2>8. Holds(q, at, t)
        <3>1. ASSUME NEW j \in 1 .. Len(t) PROVE q[at + j - 1] = t[j]
            <4>1. at + j - 1 \in at .. at + Len(t) - 1
                BY <2>5, <2>9
            <4>2. p[at + j - 1] = t[j]
                BY <2>7 DEF Holds
            <4>3. q[at + j - 1] = p[at + j - 1]
                BY <2>6, <4>1
            <4> QED
                BY <4>2, <4>3
        <3> QED
            BY <3>1 DEF Holds
    <2> QED
        BY <1>6, <1>9, <1>12, <2>2, <2>3, <2>8 DEF at, Count, RowLength
<1> QED
    BY <1>1, <1>9, <1>10, <1>11, <1>12

\* A row length of 0 in place of another makes no sum larger.
LEMMA LengthCleared ==
    ASSUME NEW page \in Page, NEW q \in Page, NEW n \in 0 .. PageSize - 1,
           \A c \in 1 .. n : q[c] = page[c] \/ q[c] = 0
    PROVE  PrevSum(q, n) <= PrevSum(page, n)
<1>1. IsFiniteSet(1 .. n) /\ 1 .. n \subseteq 1 .. n
    BY FS_Interval
<1>2. \A c \in 1 .. n : c \in 0 .. PageSize - 1
    BY PageAssumption
<1>3. \A c \in 1 .. n : page[c] \in Nat
    BY <1>2 DEF Page
<1>4. \A c \in 1 .. n : q[c] \in Nat /\ q[c] <= page[c]
    BY <1>3
<1>5. Total(q, 1 .. n) <= Total(page, 1 .. n)
    BY <1>1, <1>3, <1>4, SumBelow
<1> QED
    BY <1>5 DEF PrevSum, Total

\* deleteRow stays within the page.
LEMMA RowErased ==
    ASSUME NEW page \in Page, Room(page), NEW i \in Nat, i < Count(page)
    PROVE  FlexibleWithout(page, i) \in Page /\ Room(FlexibleWithout(page, i))
<1> DEFINE q == FlexibleWithout(page, i)
           unnamed == [page EXCEPT ![i + 1] = 0]
<1>1. PICK n \in 0 .. PageSize - 1 : n = Count(page) /\ i \in 0 .. n - 1
    BY DEF Room
<1>2. /\ n \in Nat /\ i + 1 \in 1 .. n /\ i + 1 \in 0 .. PageSize - 1
      /\ i \in 0 .. PageSize - 1
    BY <1>1, PageAssumption
<1>3. PICK m \in Nat, prev \in Nat, len \in Nat :
        m = PrevSum(page, n) /\ prev = PrevSum(page, i) /\ len = RowLength(page, i)
    <2>1. PrevSum(page, n) \in Nat
        BY <1>1, PrevSums
    <2>2. PrevSum(page, i) \in Nat
        BY <1>2, PrevSums
    <2>3. RowLength(page, i) \in Nat
        BY <1>2 DEF RowLength, Page
    <2> QED
        BY <2>1, <2>2, <2>3
<1>4. m + 1 + n <= PageSize
    BY <1>1, <1>3 DEF Room
<1>5. /\ unnamed = [j \in 0 .. PageSize - 1 |-> IF j = i + 1 THEN 0 ELSE page[j]]
      /\ DOMAIN page = 0 .. PageSize - 1
      /\ \A j \in 0 .. PageSize - 1 : page[j] \in Cell
    BY <1>2 DEF Page, Cell
<1> HIDE DEF unnamed
<1> DEFINE low == PageSize - m
           moved == [j \in 0 .. PageSize - 1 |->
                       IF j \in low + len .. PageSize - prev THEN page[j - len]
                       ELSE IF j \in low .. low + len - 1 THEN 0
                       ELSE unnamed[j]]
<1>6. q = IF prev = 0 THEN unnamed ELSE moved
    BY <1>1, <1>3, <1>5 DEF FlexibleWithout, unnamed
<1>7. low \in Nat /\ n + 1 <= low
    BY <1>1, <1>3, <1>4, PageAssumption
<1> HIDE DEF q
<1>8. 0 \in Cell
    BY DEF Cell
<1>9. \A j \in 0 .. PageSize - 1 : unnamed[j] \in Cell
    BY <1>5, <1>8
<1>10. ASSUME NEW j \in 0 .. PageSize - 1 PROVE moved[j] \in Cell
    <2>1. j \in low + len .. PageSize - prev => j - len \in 0 .. PageSize - 1
        BY <1>3, <1>7, PageAssumption
    <2> HIDE DEF low
    <2> QED
        BY <1>5, <1>8, <1>9, <2>1
<1>11. q \in Page
    <2>1. unnamed \in Page
        BY <1>5, <1>9 DEF Page, Cell
    <2>2. moved \in Page
        <3> HIDE DEF low
        <3> QED
            BY <1>10 DEF Page, Cell
    <2> QED
        BY <1>6, <2>1, <2>2
<1>12. ASSUME NEW c \in 0 .. n PROVE q[c] = page[c] \/ (c # 0 /\ q[c] = 0)
    <2>1. c \in 0 .. PageSize - 1 /\ c < low
        BY <1>1, <1>7, PageAssumption
    <2>2. c \notin low + len .. PageSize - prev /\ c \notin low .. low + len - 1
        BY <1>3, <1>7, <2>1
    <2> HIDE DEF low
    <2>3. q[c] = unnamed[c]
        BY <1>6, <2>1, <2>2
    <2>4. unnamed[c] = IF c = i + 1 THEN 0 ELSE page[c]
        BY <1>5, <2>1
    <2> QED
        BY <1>2, <2>3, <2>4
<1>13. Count(q) = n
    <2>1. 0 \in 0 .. n
        BY <1>2
    <2> QED
        BY <1>1, <1>12, <2>1 DEF Count
<1>14. PrevSum(q, n) <= m /\ PrevSum(q, n) \in Nat
    <2>1. \A c \in 1 .. n : q[c] = page[c] \/ q[c] = 0
        <3>1. \A c \in 1 .. n : c \in 0 .. n
            BY <1>2
        <3> QED
            BY <1>12, <3>1
    <2>2. PrevSum(q, n) \in Nat
        BY <1>1, <1>11, PrevSums
    <2> QED
        BY <1>1, <1>3, <1>11, <2>1, <2>2, LengthCleared
<1>15. Room(q)
    BY <1>1, <1>3, <1>4, <1>13, <1>14, PageAssumption DEF Room
<1> QED
    BY <1>11, <1>15 DEF q

-----------------------------------------------------------------------------
(* Cutting a text                                                          *)

SplitsAre(got, text, sign, skipped) ==
    /\ got[0] = [done |-> <<>>, piece |-> <<>>]
    /\ \A n \in 1 .. Len(text) : got[n] = Take(got[n - 1], text[n], sign, skipped)
    /\ Split(text, sign, skipped)
         = IF got[Len(text)].piece = <<>> THEN got[Len(text)].done
           ELSE Append(got[Len(text)].done, got[Len(text)].piece)

LEMMA Splitting ==
    ASSUME NEW text, Len(text) \in Nat, NEW sign, NEW skipped
    PROVE  \E got : SplitsAre(got, text, sign, skipped)
<1> DEFINE base == [done |-> <<>>, piece |-> <<>>]
           next(g, i) == Take(g, text[i], sign, skipped)
           Is(g, n) == g = [i \in 0 .. n |-> IF i = 0 THEN base ELSE next(g[i - 1], i)]
           S == {n \in Nat : \E g : Is(g, n)}
<1> HIDE DEF base, next
<1>1. 0 \in S
    <2> DEFINE g == [i \in 0 .. 0 |-> base]
    <2>1. \A i \in 0 .. 0 : i = 0
        OBVIOUS
    <2>2. Is(g, 0)
        BY <2>1
    <2> QED
        BY <2>2
<1>2. ASSUME NEW n \in Nat, n \in S PROVE n + 1 \in S
    <2>1. PICK g : Is(g, n)
        BY <1>2
    <2> DEFINE h == [i \in 0 .. n + 1 |->
                       IF i = n + 1 THEN next(g[n], n + 1) ELSE g[i]]
    <2>2. ASSUME NEW i \in 0 .. n + 1
          PROVE  h[i] = IF i = 0 THEN base ELSE next(h[i - 1], i)
        <3>1. CASE i = n + 1
            <4>1. i # 0 /\ i - 1 = n /\ n \in 0 .. n + 1 /\ n # n + 1
                BY <3>1
            <4> QED
                BY <3>1, <4>1
        <3>2. CASE i # n + 1
            <4>1. i \in 0 .. n /\ (i # 0 => i - 1 \in 0 .. n + 1 /\ i - 1 # n + 1)
                BY <3>2
            <4>2. g[i] = IF i = 0 THEN base ELSE next(g[i - 1], i)
                BY <2>1, <4>1
            <4> QED
                BY <3>2, <4>1, <4>2
        <3> QED
            BY <3>1, <3>2
    <2>3. Is(h, n + 1)
        BY <2>2
    <2>4. n + 1 \in Nat
        OBVIOUS
    <2> HIDE DEF h, Is
    <2> QED
        BY <2>3, <2>4
<1> HIDE DEF S
<1>3. \A n \in Nat : n \in S
    BY <1>1, <1>2, SetInduction
<1>4. \E g : Is(g, Len(text))
    BY <1>3 DEF S
<1> DEFINE got == CHOOSE g : Is(g, Len(text))
<1>5. Is(got, Len(text))
    BY <1>4
<1>6. Split(text, sign, skipped)
        = IF got[Len(text)].piece = <<>> THEN got[Len(text)].done
          ELSE Append(got[Len(text)].done, got[Len(text)].piece)
    BY DEF Split, base, next
<1> HIDE DEF got
<1>7. got[0] = base
    BY <1>5
<1>8. ASSUME NEW n \in 1 .. Len(text) PROVE got[n] = next(got[n - 1], n)
    <2>1. n \in 0 .. Len(text) /\ n # 0
        OBVIOUS
    <2> QED
        BY <1>5, <2>1
<1>9. SplitsAre(got, text, sign, skipped)
    BY <1>6, <1>7, <1>8 DEF SplitsAre, base, next
<1> QED
    BY <1>9

PutBehind(y, z, e) == Append(y \o z, e) = y \o Append(z, e)

LEMMA AppendBehind ==
    ASSUME NEW T, NEW y \in Seq(T), NEW z \in Seq(T), NEW e \in T
    PROVE  PutBehind(y, z, e)
<1> DEFINE u == Append(y \o z, e)
           v == y \o Append(z, e)
<1>1. y \o z \in Seq(T) /\ Append(z, e) \in Seq(T)
    OBVIOUS
<1>2. u \in Seq(T) /\ v \in Seq(T) /\ Len(u) = Len(v)
    OBVIOUS
<1>3. \A i \in 1 .. Len(u) : u[i] = v[i]
    OBVIOUS
<1> HIDE DEF u, v
<1>4. u = v
    BY <1>2, <1>3, SeqEqual
<1> QED
    BY <1>4 DEF u, v, PutBehind

\* After p characters: the pieces that are done, and the one there is.
At(got, p, d, y) == got[p] = [done |-> d, piece |-> y]

\* From p on, text goes on with x, which has no sign in it.
Runs(text, p, x, sign) ==
    /\ p \in Nat /\ Len(x) \in Nat /\ p + Len(x) <= Len(text)
    /\ \A j \in 1 .. Len(x) : text[p + j] = x[j] /\ x[j] # sign

\* What has no sign in it is put behind the piece that is there.
LEMMA RunTaken ==
    ASSUME NEW got, NEW text, Len(text) \in Nat, NEW sign, NEW skipped,
           SplitsAre(got, text, sign, skipped),
           NEW T, NEW x \in Seq(T), NEW y \in Seq(T), NEW d,
           NEW p, Runs(text, p, x, sign), At(got, p, d, y)
    PROVE  At(got, p + Len(x), d, y \o x)
<1> DEFINE L == Len(x)
           S == {n \in Nat : got[p + n] = [done |-> d, piece |-> y \o SubSeq(x, 1, n)]}
<1>1. /\ L \in Nat /\ p \in Nat /\ p + L <= Len(text)
      /\ \A j \in 1 .. L : text[p + j] = x[j] /\ x[j] # sign
      /\ got[p] = [done |-> d, piece |-> y]
    BY DEF Runs, At
<1>2. 0 \in S
    <2>1. SubSeq(x, 1, 0) = <<>> /\ y \o <<>> = y /\ p + 0 = p
        BY <1>1
    <2> QED
        BY <1>1, <2>1
<1>3. ASSUME NEW n \in 0 .. L - 1, n \in S PROVE n + 1 \in S
    <2>1. /\ n + 1 \in 1 .. L /\ p + (n + 1) \in 1 .. Len(text)
          /\ p + (n + 1) - 1 = p + n /\ n + 1 \in Nat
        BY <1>1
    <2>2. got[p + (n + 1)] = Take(got[p + n], text[p + (n + 1)], sign, skipped)
        <3>1. \A m \in 1 .. Len(text) : got[m] = Take(got[m - 1], text[m], sign, skipped)
            BY DEF SplitsAre
        <3>2. PICK m \in 1 .. Len(text) : m = p + (n + 1) /\ m - 1 = p + n
            BY <1>1, <2>1
        <3>3. got[m] = Take(got[m - 1], text[m], sign, skipped)
            BY <3>1
        <3> QED
            BY <3>2, <3>3
    <2>3. text[p + (n + 1)] = x[n + 1] /\ x[n + 1] # sign
        BY <1>1, <2>1
    <2>4. got[p + n] = [done |-> d, piece |-> y \o SubSeq(x, 1, n)]
        BY <1>3
    <2>5. Append(y \o SubSeq(x, 1, n), x[n + 1]) = y \o SubSeq(x, 1, n + 1)
        <3>1. x[n + 1] \in T
            BY <2>1
        <3>2. SubSeq(x, 1, n) \in Seq(T) /\ SubSeq(x, 1, n + 1) \in Seq(T)
            BY <2>1
        <3>3. SubSeq(x, 1, n + 1) = Append(SubSeq(x, 1, n), x[n + 1])
            BY <2>1
        <3> DEFINE z == SubSeq(x, 1, n)
        <3>4. z \in Seq(T) /\ x[n + 1] \in T
            BY <3>1, <3>2
        <3> HIDE DEF z
        <3>5. Append(y \o z, x[n + 1]) = y \o Append(z, x[n + 1])
            <4>1. PutBehind(y, z, x[n + 1])
                BY <3>4, AppendBehind
            <4> QED
                BY <4>1 DEF PutBehind
        <3> QED
            BY <3>3, <3>5 DEF z
    <2>6. got[p + (n + 1)] = [done |-> d, piece |-> y \o SubSeq(x, 1, n + 1)]
        <3> DEFINE z == y \o SubSeq(x, 1, n)
                   c == text[p + (n + 1)]
        <3>1. got[p + n] = [done |-> d, piece |-> z] /\ c # sign
              /\ got[p + (n + 1)] = Take(got[p + n], c, sign, skipped)
              /\ Append(z, c) = y \o SubSeq(x, 1, n + 1)
            BY <2>2, <2>3, <2>4, <2>5
        <3> HIDE DEF z, c
        <3>2. Take([done |-> d, piece |-> z], c, sign, skipped)
                = [done |-> d, piece |-> Append(z, c)]
            <4>1. c # sign
                BY <3>1
            <4> QED
                BY <4>1 DEF Take
        <3> QED
            BY <3>1, <3>2
    <2> QED
        BY <2>1, <2>6
<1> HIDE DEF S, L
<1>4. \A n \in 0 .. L : n \in S
    BY <1>1, <1>2, <1>3, BoundedInduction
<1>5. got[p + L] = [done |-> d, piece |-> y \o SubSeq(x, 1, L)]
    <2>1. L \in 0 .. L
        BY <1>1
    <2> QED
        BY <1>4, <2>1 DEF S
<1>6. SubSeq(x, 1, L) = x
    BY DEF L
<1> QED
    BY <1>5, <1>6 DEF L, At

\* A sign ends the piece.
LEMMA SignTaken ==
    ASSUME NEW got, NEW text, Len(text) \in Nat, NEW sign, NEW skipped,
           SplitsAre(got, text, sign, skipped),
           NEW y, NEW d, NEW p \in Nat, p + 1 <= Len(text), text[p + 1] = sign,
           At(got, p, d, y)
    PROVE  /\ y \notin skipped => At(got, p + 1, Append(d, y), <<>>)
           /\ y \in skipped => At(got, p + 1, d, <<>>)
<1>1. p + 1 \in 1 .. Len(text) /\ p + 1 - 1 = p
    OBVIOUS
<1>2. got[p + 1] = Take(got[p], text[p + 1], sign, skipped)
    BY <1>1 DEF SplitsAre
<1> QED
    BY <1>2 DEF Take, At

\* A text made of the pieces c, each but perhaps the last one with a sign
\* behind it; piece i ends before q[i].
Cuts(text, sign, N, c, q) ==
    /\ q \in [0 .. N -> Nat] /\ q[0] = 0
    /\ \A i \in 0 .. N : q[i] <= q[N]
    /\ \A i \in 1 .. N : q[i] = q[i - 1] + Len(c[i]) + 1
    /\ \A i \in 1 .. N : \A j \in 1 .. Len(c[i]) :
         text[q[i - 1] + j] = c[i][j] /\ c[i][j] # sign
    /\ \A i \in 1 .. N - 1 : text[q[i]] = sign
    /\ Len(text) = q[N] - 1 \/ (Len(text) = q[N] /\ text[q[N]] = sign)

LEMMA PiecesCut ==
    ASSUME NEW T, NEW N \in Nat \ {0}, NEW c \in [1 .. N -> Seq(T)], c[N] # <<>>,
           NEW text, NEW sign, NEW q, Cuts(text, sign, N, c, q)
    PROVE  Pieces(text, sign) = c
<1>1. /\ q \in [0 .. N -> Nat] /\ q[0] = 0
      /\ \A i \in 0 .. N : q[i] \in Nat /\ q[i] <= q[N]
      /\ \A i \in 1 .. N : q[i] = q[i - 1] + Len(c[i]) + 1
    BY DEF Cuts
<1>2. Len(text) \in Nat /\ (Len(text) = q[N] - 1 \/ Len(text) = q[N])
    <2>1. N \in 0 .. N /\ N \in 1 .. N /\ N - 1 \in 0 .. N
        OBVIOUS
    <2>2. PICK x \in Nat, y \in Nat : x = q[N] /\ y = q[N - 1]
        BY <1>1, <2>1
    <2>3. Len(c[N]) \in Nat
        BY <2>1
    <2>4. x = y + Len(c[N]) + 1
        BY <1>1, <2>1, <2>2
    <2>5. Len(text) = x - 1 \/ Len(text) = x
        BY <2>2 DEF Cuts
    <2> QED
        BY <2>2, <2>3, <2>4, <2>5
<1>3. PICK got : SplitsAre(got, text, sign, {})
    BY <1>2, Splitting
<1> DEFINE Done(n) == [done |-> SubSeq(c, 1, n), piece |-> <<>>]
           S == {n \in Nat : n < N => got[q[n]] = Done(n)}
<1>4. \A i \in 1 .. N : /\ i \in 0 .. N /\ i - 1 \in 0 .. N /\ i - 1 \in Nat
                        /\ c[i] \in Seq(T) /\ Len(c[i]) \in Nat
    OBVIOUS
<1>5. c \in Seq(Seq(T)) /\ Len(c) = N
    OBVIOUS
<1>6. ASSUME NEW i \in 1 .. N, got[q[i - 1]] = Done(i - 1)
      PROVE  got[q[i - 1] + Len(c[i])] = [done |-> SubSeq(c, 1, i - 1), piece |-> c[i]]
    <2> DEFINE p == q[i - 1]
               x == c[i]
               d == SubSeq(c, 1, i - 1)
    <2>1. p \in Nat /\ x \in Seq(T) /\ <<>> \in Seq(T)
        BY <1>1, <1>4
    <2>2. p + Len(x) <= Len(text)
        <3>1. PICK u \in Nat, v \in Nat, w \in Nat, l \in Nat :
                u = q[i - 1] /\ v = q[i] /\ w = q[N] /\ l = Len(c[i])
            <4>1. N \in 0 .. N
                OBVIOUS
            <4> QED
                BY <1>1, <1>4, <4>1
        <3>2. v = u + l + 1 /\ v <= w
            BY <1>1, <1>4, <3>1
        <3>3. Len(text) = w - 1 \/ Len(text) = w
            BY <1>2, <3>1
        <3>4. PICK z \in Nat : z = Len(text)
            BY <1>2
        <3>5. u + l <= z
            BY <3>2, <3>3, <3>4
        <3> QED
            BY <3>1, <3>4, <3>5
    <2>3. \A j \in 1 .. Len(x) : text[p + j] = x[j] /\ x[j] # sign
        BY DEF Cuts
    <2>4. got[p] = [done |-> d, piece |-> <<>>]
        BY <1>6
    <2> HIDE DEF p, x, d
    <2>5. got[p + Len(x)] = [done |-> d, piece |-> <<>> \o x]
        <3>1. Runs(text, p, x, sign)
            BY <2>1, <2>2, <2>3 DEF Runs
        <3>2. At(got, p, d, <<>>)
            BY <2>4 DEF At
        <3>3. At(got, p + Len(x), d, <<>> \o x)
            BY <1>2, <1>3, <2>1, <3>1, <3>2, RunTaken
        <3> QED
            BY <3>3 DEF At
    <2>6. <<>> \o x = x
        BY <2>1
    <2> QED
        BY <2>5, <2>6 DEF p, x, d
<1>7. ASSUME NEW i \in 1 .. N, got[q[i - 1]] = Done(i - 1), text[q[i]] = sign,
             q[i] <= Len(text)
      PROVE  got[q[i]] = Done(i)
    <2> DEFINE p == q[i - 1] + Len(c[i])
               x == c[i]
               d == SubSeq(c, 1, i - 1)
    <2>1. p \in Nat /\ q[i] = p + 1
        <3>1. PICK u \in Nat, l \in Nat : u = q[i - 1] /\ l = Len(c[i])
            BY <1>1, <1>4
        <3>2. q[i] = u + l + 1
            BY <1>1, <3>1
        <3> QED
            BY <3>1, <3>2
    <2>2. got[p] = [done |-> d, piece |-> x]
        BY <1>6, <1>7
    <2>3. Append(d, x) = SubSeq(c, 1, i)
        BY <1>5
    <2> HIDE DEF p, x, d
    <2>4. got[p + 1] = [done |-> Append(d, x), piece |-> <<>>]
        <3>1. At(got, p, d, x) /\ x \notin {}
            BY <2>2 DEF At
        <3>2. p + 1 <= Len(text) /\ text[p + 1] = sign /\ p \in Nat
            BY <1>7, <2>1
        <3>3. At(got, p + 1, Append(d, x), <<>>)
            BY <1>2, <1>3, <3>1, <3>2, SignTaken
        <3> QED
            BY <3>3 DEF At
    <2> QED
        BY <2>1, <2>3, <2>4
<1>8. 0 \in S
    <2>1. SubSeq(c, 1, 0) = <<>>
        BY <1>5
    <2>2. got[0] = [done |-> <<>>, piece |-> <<>>]
        BY <1>3 DEF SplitsAre
    <2> QED
        BY <1>1, <2>1, <2>2
<1>9. ASSUME NEW n \in 0 .. N - 1, n \in S PROVE n + 1 \in S
    <2>1. CASE n + 1 < N
        <3>1. PICK i \in 1 .. N : i = n + 1 /\ i - 1 = n /\ i \in 1 .. N - 1
            BY <2>1
        <3>2. got[q[i - 1]] = Done(i - 1)
            BY <1>9, <3>1
        <3>3. text[q[i]] = sign
            BY <3>1 DEF Cuts
        <3>4. q[i] <= Len(text)
            <4>1. i + 1 \in 1 .. N /\ i + 1 \in 0 .. N /\ (i + 1) - 1 = i
                  /\ N \in 0 .. N /\ i \in 0 .. N
                BY <3>1
            <4>2. PICK u \in Nat, v \in Nat, w \in Nat, l \in Nat :
                    u = q[i] /\ v = q[i + 1] /\ w = q[N] /\ l = Len(c[i + 1])
                BY <1>1, <1>4, <4>1
            <4>3. v = u + l + 1 /\ v <= w
                BY <1>1, <4>1, <4>2
            <4>4. Len(text) = w - 1 \/ Len(text) = w
                BY <1>2, <4>2
            <4>5. PICK z \in Nat : z = Len(text)
                BY <1>2
            <4>6. u <= z
                BY <4>3, <4>4, <4>5
            <4> QED
                BY <4>2, <4>5, <4>6
        <3>5. got[q[i]] = Done(i)
            BY <1>7, <3>2, <3>3, <3>4
        <3> QED
            BY <3>1, <3>5
    <2>2. CASE ~(n + 1 < N)
        BY <2>2
    <2> QED
        BY <2>1, <2>2
<1>10. got[q[N - 1]] = Done(N - 1)
    <2> HIDE DEF S
    <2>1. \A n \in 0 .. N : n \in S
        BY <1>8, <1>9, BoundedInduction
    <2>2. N - 1 \in 0 .. N /\ N - 1 < N
        OBVIOUS
    <2> QED
        BY <2>1, <2>2 DEF S
<1>11. N \in 1 .. N
    OBVIOUS
<1>12. Append(SubSeq(c, 1, N - 1), c[N]) = c /\ SubSeq(c, 1, N) = c
    BY <1>5
<1>13. Pieces(text, sign)
         = IF got[Len(text)].piece = <<>> THEN got[Len(text)].done
           ELSE Append(got[Len(text)].done, got[Len(text)].piece)
    BY <1>3 DEF SplitsAre, Pieces
<1>14. CASE Len(text) = q[N] - 1
    <2>1. Len(text) = q[N - 1] + Len(c[N])
        <3>1. PICK u \in Nat, l \in Nat : u = q[N - 1] /\ l = Len(c[N])
            BY <1>1, <1>4, <1>11
        <3>2. q[N] = u + l + 1
            BY <1>1, <1>11, <3>1
        <3> QED
            BY <1>14, <3>1, <3>2
    <2>2. got[Len(text)] = [done |-> SubSeq(c, 1, N - 1), piece |-> c[N]]
        BY <1>6, <1>10, <1>11, <2>1
    <2> QED
        BY <1>12, <1>13, <2>2
<1>15. CASE Len(text) = q[N] /\ text[q[N]] = sign
    <2>1. q[N] <= Len(text)
        BY <1>2, <1>15
    <2>2. got[q[N]] = Done(N)
        BY <1>7, <1>10, <1>11, <1>15, <2>1
    <2> QED
        BY <1>12, <1>13, <1>15, <2>2
<1> QED
    BY <1>14, <1>15 DEF Cuts

-----------------------------------------------------------------------------
(* Rows and schemas that are sent                                          *)

LEMMA NumbersRead ==
    ASSUME NEW C, NEW numbers \in Seq(C), numbers # <<>>
    PROVE  Deserialize(Serialize(numbers)) = numbers
<1> DEFINE N == Len(numbers)
           c == [i \in 1 .. N |-> <<Number(numbers[i])>>]
           seqs == [i \in 1 .. N |-> <<Number(numbers[i]), Blank>>]
           T == {Number(n) : n \in C} \cup {Blank}
           text == FlattenSeq(seqs)
<1>1. N \in Nat \ {0} /\ DOMAIN numbers = 1 .. N /\ \A i \in 1 .. N : numbers[i] \in C
    OBVIOUS
<1>2. text = Serialize(numbers)
    BY <1>1 DEF Serialize
<1>3. numbers = [i \in 1 .. N |-> numbers[i]]
    OBVIOUS
<1> HIDE DEF N
<1>4. \A i \in 1 .. N : Number(numbers[i]) \in T /\ Blank \in T
    BY <1>1
<1> HIDE DEF T
<1>5. c \in [1 .. N -> Seq(T)] /\ seqs \in [1 .. N -> Seq(T)]
    BY <1>4
<1>6. \A i \in 1 .. N : /\ Len(c[i]) = 1 /\ c[i][1] = Number(numbers[i])
                        /\ Len(seqs[i]) = 2 /\ seqs[i][1] = Number(numbers[i])
                        /\ seqs[i][2] = Blank
    OBVIOUS
<1> HIDE DEF c, seqs
<1>7. PICK o : Lays(text, seqs, N, o)
    BY <1>1, <1>5, Laid
<1> HIDE DEF text
<1>8. /\ o \in [0 .. N -> Nat] /\ o[0] = 0 /\ Len(text) = o[N]
      /\ \A i \in 0 .. N : o[i] <= o[N]
      /\ \A i \in 1 .. N : o[i] = o[i - 1] + 2
      /\ \A i \in 1 .. N : /\ text[o[i - 1] + 1] = Number(numbers[i])
                           /\ text[o[i - 1] + 2] = Blank
    <2>1. 1 \in 1 .. 2 /\ 2 \in 1 .. 2
        OBVIOUS
    <2> QED
        BY <1>6, <1>7, <2>1 DEF Lays
<1>9. \A i \in 1 .. N : text[o[i]] = Blank
    BY <1>8
<1>10. ASSUME NEW i \in 1 .. N PROVE o[i] = o[i - 1] + Len(c[i]) + 1
    <2>1. PICK u \in Nat : u = o[i - 1]
        <3>1. i - 1 \in 0 .. N
            BY <1>1
        <3> QED
            BY <1>8, <3>1
    <2>2. o[i] = u + 2 /\ Len(c[i]) = 1
        BY <1>6, <1>8, <2>1
    <2> QED
        BY <2>1, <2>2
<1>11. ASSUME NEW i \in 1 .. N, NEW j \in 1 .. Len(c[i])
       PROVE  text[o[i - 1] + j] = c[i][j] /\ c[i][j] # Blank
    <2>3. Len(c[i]) = 1
        BY <1>6
    <2>1. j = 1
        BY <2>3
    <2>2. Number(numbers[i]) # Blank
        BY DEF Number, Blank
    <2> QED
        BY <1>6, <1>8, <2>1, <2>2
<1>12. N \in 1 .. N
    BY <1>1
<1>13. Cuts(text, Blank, N, c, o)
    <2>1. \A i \in 1 .. N - 1 : i \in 1 .. N
        BY <1>1
    <2> QED
        BY <1>8, <1>9, <1>10, <1>11, <1>12, <2>1 DEF Cuts
<1>14. Pieces(text, Blank) = c
    <2>1. c[N] # <<>>
        BY <1>6, <1>12
    <2>2. N \in Nat \ {0} /\ c \in [1 .. N -> Seq(T)]
        BY <1>1, <1>5
    <2> QED
        BY <1>13, <2>1, <2>2, PiecesCut
<1>15. DOMAIN c = 1 .. N
    BY <1>5
<1>16. Deserialize(text) = [k \in 1 .. N |-> c[k][1][2]]
    BY <1>14, <1>15 DEF Deserialize
<1>17. \A k \in 1 .. N : c[k][1][2] = numbers[k]
    BY <1>6 DEF Number
<1> QED
    BY <1>2, <1>3, <1>16, <1>17

\* A row that a client sends is the row that the chunk reads.
LEMMA RowSent ==
    ASSUME NEW s, NEW r, OfSchema(s, r)
    PROVE  AddSerializedRow(s, RowText(s, r)) = r
<1> DEFINE u == SerializeRow(s, r)
           b == [j \in 0 .. Len(u) - 1 |-> u[j + 1]]
<1>1. u \in Seq(Cell)
    BY RowWritten
<1>2. Len(u) \in Nat \ {0}
    <2>1. Len(u) = RowSpace(s, r) /\ RowSpace(s, r) \in Nat \ {0}
        BY RowSpaceIs
    <2> QED
        BY <2>1
<1> HIDE DEF u
<1>3. u # <<>>
    BY <1>2
<1>4. Deserialize(Serialize(u)) = u
    BY <1>1, <1>3, NumbersRead
<1>5. Bytes(RowText(s, r)) = b
    BY <1>4 DEF Bytes, RowText, u
<1>6. ASSUME NEW j \in 1 .. Len(u) PROVE b[0 + j - 1] = u[j]
    <2>1. 0 + j - 1 \in 0 .. Len(u) - 1 /\ 0 + j - 1 + 1 = j
        BY <1>2
    <2> QED
        BY <2>1
<1>7. Holds(b, 0, u)
    BY <1>6 DEF Holds
<1> HIDE DEF b
<1>8. DeserializeRow(s, b, 0) = r
    BY <1>7, RowReadBack DEF u
<1> QED
    BY <1>5, <1>8 DEF AddSerializedRow

\* Sequences that are written out.
LEMMA OneAndOne ==
    ASSUME NEW S, NEW a \in S, NEW b \in S
    PROVE  Append(<<a>>, b) = <<a, b>>
<1>1. <<a>> \in Seq(S) /\ Len(<<a>>) = 1 /\ <<a>>[1] = a
    OBVIOUS
<1>2. PICK u \in Seq(S) : u = <<a>> /\ Len(u) = 1 /\ u[1] = a
    BY <1>1
<1>11. <<a, b>> \in Seq(S) /\ Len(<<a, b>>) = 2 /\ <<a, b>>[1] = a /\ <<a, b>>[2] = b
    OBVIOUS
<1>3. PICK w \in Seq(S) : w = <<a, b>> /\ Len(w) = 2 /\ w[1] = a /\ w[2] = b
    BY <1>11
<1> DEFINE v == Append(u, b)
<1>4. v \in Seq(S)
    OBVIOUS
<1>5. Len(v) = 2
    BY <1>2
<1>6. v[1] = a
    BY <1>2
<1>7. v[2] = b
    BY <1>2
<1> HIDE DEF v
<1>8. \A i \in 1 .. 2 : i = 1 \/ i = 2
    OBVIOUS
<1>9. \A i \in 1 .. 2 : v[i] = w[i]
    BY <1>3, <1>6, <1>7, <1>8
<1>10. v = w
    BY <1>3, <1>4, <1>5, <1>9, SeqEqual
<1> QED
    BY <1>2, <1>3, <1>10 DEF v

LEMMA OneAndThree ==
    ASSUME NEW S, NEW a \in S, NEW b \in S, NEW c \in S, NEW d \in S
    PROVE  <<a>> \o <<b, c, d>> = <<a, b, c, d>>
<1> DEFINE u == <<a>>
           v == <<b, c, d>>
           w == <<a, b, c, d>>
           x == u \o v
<1>1. /\ u \in Seq(S) /\ v \in Seq(S) /\ w \in Seq(S)
      /\ Len(u) = 1 /\ Len(v) = 3 /\ Len(w) = 4
    OBVIOUS
<1>2. /\ u[1] = a /\ v[1] = b /\ v[2] = c /\ v[3] = d
      /\ w[1] = a /\ w[2] = b /\ w[3] = c /\ w[4] = d
    OBVIOUS
<1> HIDE DEF u, v, w
<1>3. /\ x \in Seq(S) /\ Len(x) = Len(u) + Len(v)
      /\ \A i \in 1 .. Len(u) + Len(v) :
            x[i] = IF i <= Len(u) THEN u[i] ELSE v[i - Len(u)]
    BY <1>1, ConcatProperties
<1> HIDE DEF x
<1>4. Len(x) = 4
    BY <1>1, <1>3
<1>5. ASSUME NEW i \in 1 .. 4 PROVE x[i] = w[i]
    <2>1. x[i] = IF i <= 1 THEN u[i] ELSE v[i - 1]
        BY <1>1, <1>3
    <2>2. i = 1 \/ i = 2 \/ i = 3 \/ i = 4
        OBVIOUS
    <2> QED
        BY <1>2, <2>1, <2>2
<1>6. x = w
    BY <1>1, <1>3, <1>4, <1>5, SeqEqual
<1> QED
    BY <1>6 DEF u, v, w, x

LEMMA OneOfFour ==
    ASSUME NEW S, NEW w \in Seq(S), Len(w) = 4, NEW k \in 1 .. 4
    PROVE  SubSeq(w, k, k) = <<w[k]>>
<1>1. SubSeq(w, k, k) = [i \in 1 .. 1 |-> w[k + i - 1]]
    OBVIOUS
<1>2. \A i \in 1 .. 1 : k + i - 1 = k
    OBVIOUS
<1>3. [i \in 1 .. 1 |-> w[k + i - 1]] = <<w[k]>>
    BY <1>2
<1> QED
    BY <1>1, <1>3

LEMMA WordsCut ==
    ASSUME NEW T, NEW name \in Seq(T), name # <<>>, NEW w \in Seq(T), w # <<>>,
           NEW text, NEW b \in {0, 1}, b = 1 => text[1] = Blank,
           NEW p, p = b + Len(name) + 1, Len(text) = p + Len(w),
           Runs(text, b, name, Blank), text[p] = Blank, Runs(text, p, w, Blank)
    PROVE  Words(text) = <<name, w>>
<1>1. Len(name) \in Nat /\ Len(w) \in Nat /\ p \in Nat /\ Len(text) \in Nat
    OBVIOUS
<1>2. PICK got : SplitsAre(got, text, Blank, {<<>>})
    BY <1>1, Splitting
<1>3. At(got, 0, <<>>, <<>>)
    BY <1>2 DEF SplitsAre, At
<1>4. At(got, b, <<>>, <<>>)
    <2>1. CASE b = 0
        BY <1>3, <2>1
    <2>2. CASE b = 1
        <3>1. 0 + 1 <= Len(text) /\ text[0 + 1] = Blank /\ 0 \in Nat /\ <<>> \in {<<>>}
              /\ 0 + 1 = b
            BY <1>1, <2>2
        <3>2. At(got, 0 + 1, <<>>, <<>>)
            BY <1>1, <1>2, <1>3, <3>1, SignTaken
        <3> QED
            BY <3>1, <3>2
    <2> QED
        BY <2>1, <2>2
<1>5. At(got, b + Len(name), <<>>, name)
    <2>1. <<>> \in Seq(T)
        OBVIOUS
    <2>2. At(got, b + Len(name), <<>>, <<>> \o name)
        BY <1>1, <1>2, <1>4, <2>1, RunTaken
    <2>3. <<>> \o name = name
        OBVIOUS
    <2> QED
        BY <2>2, <2>3
<1>6. At(got, p, <<name>>, <<>>)
    <2>1. PICK z \in Nat : z = b + Len(name) /\ z + 1 = p
        BY <1>1
    <2>2. z + 1 <= Len(text) /\ text[z + 1] = Blank /\ name \notin {<<>>}
        BY <1>1, <2>1
    <2>3. At(got, z, <<>>, name)
        BY <1>5, <2>1
    <2>4. At(got, z + 1, Append(<<>>, name), <<>>)
        BY <1>1, <1>2, <2>2, <2>3, SignTaken
    <2>5. Append(<<>>, name) = <<name>>
        OBVIOUS
    <2> QED
        BY <2>1, <2>4, <2>5
<1>7. At(got, p + Len(w), <<name>>, w)
    <2>1. <<>> \in Seq(T)
        OBVIOUS
    <2>2. At(got, p + Len(w), <<name>>, <<>> \o w)
        BY <1>1, <1>2, <1>6, <2>1, RunTaken
    <2>3. <<>> \o w = w
        OBVIOUS
    <2> QED
        BY <2>2, <2>3
<1>8. got[Len(text)] = [done |-> <<name>>, piece |-> w]
    BY <1>7 DEF At
<1>9. Split(text, Blank, {<<>>}) = Append(<<name>>, w)
    BY <1>2, <1>8 DEF SplitsAre
<1>10. Append(<<name>>, w) = <<name, w>>
    <2> DEFINE S == {name, w}
    <2>1. name \in S /\ w \in S
        OBVIOUS
    <2> HIDE DEF S
    <2> QED
        BY <2>1, OneAndOne
<1> QED
    BY <1>9, <1>10 DEF Words

\* The second word of a column's text.
TypeText(column) ==
    <<Word(column.type)>>
        \o (IF column.length = 0 THEN <<>>
            ELSE <<Open, Number(column.length), Close>>)

SoundColumn(column) ==
    /\ column = Column(column.name, column.type, column.length)
    /\ column.type \in Types /\ column.length \in Nat
    /\ IsSequence(column.name) /\ Plain(column.name)

LEMMA ColumnRead ==
    ASSUME NEW column, SoundColumn(column),
           NEW text, Words(text) = <<column.name, TypeText(column)>>
    PROVE  DeserializeColumn(text) = column
<1> DEFINE name == column.name
           type == column.type
           l == column.length
           w == TypeText(column)
           e == <<<<>>, <<>>>>
           words == Words(text) \o e
<1>1. type \in Types /\ l \in Nat /\ column = Column(name, type, l)
    BY DEF SoundColumn
<1>2. words[1] = name /\ words[2] = w
    <2>1. words = <<name, w>> \o e
        OBVIOUS
    <2> HIDE DEF w
    <2>2. (<<name, w>> \o e)[1] = name /\ (<<name, w>> \o e)[2] = w
        OBVIOUS
    <2> QED
        BY <2>1, <2>2
<1> DEFINE S == {Word(type), Open, Number(l), Close}
<1>3. /\ Word(type) \in S /\ Open \in S /\ Number(l) \in S /\ Close \in S
      /\ Word(type) # Open /\ Word(type)[2] = type /\ Number(l)[2] = l
      /\ Number(l)[1] = "number"
    BY DEF Word, Open, Number
<1>4. Number(0)[1] = "number" /\ Number(0)[2] = 0
    BY DEF Number
<1> HIDE DEF S
<1>5. CASE l = 0
    <2>1. w = <<Word(type)>>
        <3>1. w = <<Word(type)>> \o <<>>
            BY <1>5 DEF TypeText
        <3>2. <<Word(type)>> \in Seq(S)
            BY <1>3
        <3> QED
            BY <3>1, <3>2, ConcatEmptySeq
    <2>2. \A i \in 1 .. Len(w) : w[i] # Open
        BY <1>3, <2>1
    <2>3. SelectInSeq(w, LAMBDA c : c = Open) = 0
        BY <2>2 DEF SelectInSeq
    <2> DEFINE digits == <<Number(0)>>
    <2>4. w \in {<<Word(t)>> : t \in Types} /\ w[1] = Word(type)
        BY <1>1, <2>1
    <2>5. digits # <<>> /\ digits[1][1] = "number" /\ digits[1][2] = 0
        BY <1>4
    <2> HIDE DEF w, words, digits
    <2>6. DeserializeColumn(text)
            = IF w \in {<<Word(t)>> : t \in Types}
                   /\ digits # <<>> /\ digits[1][1] = "number"
              THEN Column(words[1], w[1][2], digits[1][2])
              ELSE BadColumn
        BY <1>2, <2>3 DEF DeserializeColumn, words, digits
    <2> QED
        BY <1>1, <1>2, <1>3, <1>5, <2>4, <2>5, <2>6
<1>6. CASE l # 0
    <2>1. w = <<Word(type), Open, Number(l), Close>>
        <3>1. w = <<Word(type)>> \o <<Open, Number(l), Close>>
            BY <1>6 DEF TypeText
        <3> QED
            BY <1>3, <3>1, OneAndThree
    <2>2. /\ w \in Seq(S) /\ Len(w) = 4 /\ w[1] = Word(type) /\ w[2] = Open
          /\ w[3] = Number(l)
        BY <1>3, <2>1
    <2> HIDE DEF w, words
    <2>3. SelectInSeq(w, LAMBDA c : c = Open) = 2
        <3> DEFINE I == {i \in 1 .. Len(w) : w[i] = Open}
        <3>1. 2 \in I /\ 1 \notin I /\ \A i \in I : i \in 1 .. 4
            BY <1>3, <2>2
        <3>2. SelectInSeq(w, LAMBDA c : c = Open) = IF I # {} THEN Min(I) ELSE 0
            BY DEF SelectInSeq
        <3> HIDE DEF I
        <3>3. \A i \in I : 2 <= i
            BY <3>1
        <3>4. Min(I) = 2
            BY <3>1, <3>3 DEF Min
        <3> QED
            BY <3>1, <3>2, <3>4
    <2>4. SubSeq(w, 1, 1) = <<Word(type)>> /\ SubSeq(w, 3, 3) = <<Number(l)>>
        BY <2>2, OneOfFour
    <2> DEFINE t1 == SubSeq(w, 1, 1)
               digits == SubSeq(w, 3, 3)
    <2>9. t1 = <<Word(type)>> /\ digits = <<Number(l)>>
        BY <2>4
    <2> HIDE DEF t1, digits
    <2>5. t1 \in {<<Word(t)>> : t \in Types} /\ t1[1][2] = type
        BY <1>1, <1>3, <2>9
    <2>6. digits # <<>> /\ digits[1][1] = "number" /\ digits[1][2] = l
        BY <1>3, <2>9
    <2>7. 2 - 1 = 1 /\ 2 + 1 = 3 /\ Len(w) - 1 = 3
        BY <2>2
    <2>8. DeserializeColumn(text)
            = IF t1 \in {<<Word(t)>> : t \in Types}
                   /\ digits # <<>> /\ digits[1][1] = "number"
              THEN Column(words[1], t1[1][2], digits[1][2])
              ELSE BadColumn
        <3> DEFINE second == words[2]
                   open == SelectInSeq(second, LAMBDA c : c = Open)
        <3>1. second = w
            BY <1>2
        <3>2. open = 2
            BY <2>3, <3>1
        <3> DEFINE t == IF open = 0 THEN second ELSE SubSeq(second, 1, open - 1)
                   d == IF open = 0 THEN <<Number(0)>>
                        ELSE SubSeq(second, open + 1, Len(second) - 1)
        <3>3. DeserializeColumn(text)
                = IF t \in {<<Word(x)>> : x \in Types}
                       /\ d # <<>> /\ d[1][1] = "number"
                  THEN Column(words[1], t[1][2], d[1][2])
                  ELSE BadColumn
            BY DEF DeserializeColumn, words
        <3> HIDE DEF open, second
        <3>4. t = t1
            BY <2>7, <3>1, <3>2 DEF t1
        <3>5. d = digits
            <4>1. Len(second) - 1 = 3 /\ open + 1 = 3 /\ open # 0
                BY <2>7, <3>1, <3>2
            <4> QED
                BY <3>1, <4>1 DEF digits
        <3> HIDE DEF t, d
        <3> QED
            BY <3>3, <3>4, <3>5
    <2> QED
        BY <1>1, <1>2, <2>5, <2>6, <2>8
<1> QED
    BY <1>5, <1>6

\* x is a column's name, a blank and the second word w.
Spells(x, name, w) ==
    /\ Len(x) = Len(name) + 1 + Len(w)
    /\ \A j \in 1 .. Len(name) : x[j] = name[j]
    /\ x[Len(name) + 1] = Blank
    /\ \A j \in 1 .. Len(w) : x[Len(name) + 1 + j] = w[j]

LEMMA ColumnWritten ==
    ASSUME NEW column, SoundColumn(column),
           NEW T, column.name \in Seq(T), Blank \in T, Open \in T, Close \in T,
           Word(column.type) \in T, Number(column.length) \in T
    PROVE  /\ TypeText(column) \in Seq(T) /\ TypeText(column) # <<>>
           /\ \A j \in 1 .. Len(TypeText(column)) :
                TypeText(column)[j] # Blank /\ TypeText(column)[j] # Comma
           /\ ColumnText(column) \in Seq(T)
           /\ Spells(ColumnText(column), column.name, TypeText(column))
<1> DEFINE name == column.name
           W == Word(column.type)
           three == <<Open, Number(column.length), Close>>
           opt == IF column.length = 0 THEN <<>> ELSE three
           w == TypeText(column)
           x == ColumnText(column)
           two == <<Blank, W>>
           y == name \o two
<1>1. /\ opt \in Seq(T) /\ Len(opt) \in Nat
      /\ \A j \in 1 .. Len(opt) : opt[j] \in {Open, Number(column.length), Close}
    <2>1. CASE column.length = 0
        BY <2>1
    <2>2. CASE column.length # 0
        <3>1. opt = three
            BY <2>2
        <3>2. three \in Seq(T) /\ Len(three) = 3 /\ three[1] = Open
              /\ three[2] = Number(column.length) /\ three[3] = Close
            OBVIOUS
        <3> HIDE DEF three, opt
        <3>3. \A j \in 1 .. 3 : j = 1 \/ j = 2 \/ j = 3
            OBVIOUS
        <3> QED
            BY <3>1, <3>2, <3>3
    <2> QED
        BY <2>1, <2>2
<1>2. w = <<W>> \o opt /\ x = y \o opt /\ y = name \o two
    BY DEF TypeText, ColumnText
<1>3. /\ \A c \in {Open, Number(column.length), Close} : c # Blank /\ c # Comma
      /\ W # Blank /\ W # Comma
    <2>1. /\ Open[2] = "(" /\ Close[2] = ")" /\ Blank[2] = " " /\ Comma[2] = ","
          /\ Blank[1] = "sign" /\ Comma[1] = "sign" /\ W[1] = "word"
          /\ Number(column.length)[1] = "number"
        BY DEF Open, Number, Close, Blank, Comma, Word
    <2> HIDE DEF W
    <2> QED
        BY <2>1
<1>4. /\ <<W>> \in Seq(T) /\ Len(<<W>>) = 1 /\ <<W>>[1] = W
    OBVIOUS
<1>5. two \in Seq(T) /\ Len(two) = 2 /\ two[1] = Blank /\ two[2] = W
    OBVIOUS
<1>6. name \in Seq(T) /\ Len(name) \in Nat
    OBVIOUS
<1> HIDE DEF name, W, opt, w, x, two, y
<1>7. /\ w \in Seq(T) /\ Len(w) = 1 + Len(opt)
      /\ \A j \in 1 .. 1 + Len(opt) : w[j] = IF j <= 1 THEN <<W>>[j] ELSE opt[j - 1]
    BY <1>1, <1>2, <1>4, ConcatProperties
<1>8. w[1] = W /\ \A j \in 1 .. Len(opt) : w[1 + j] = opt[j]
    <2>1. 1 \in 1 .. 1 + Len(opt) /\ 1 <= 1
        BY <1>1
    <2>2. ASSUME NEW j \in 1 .. Len(opt) PROVE w[1 + j] = opt[j]
        <3>1. 1 + j \in 1 .. 1 + Len(opt) /\ ~(1 + j <= 1) /\ 1 + j - 1 = j
            BY <1>1
        <3> QED
            BY <1>7, <3>1
    <2> QED
        BY <1>4, <1>7, <2>1, <2>2
<1>9. /\ y \in Seq(T) /\ Len(y) = Len(name) + 2
      /\ \A j \in 1 .. Len(name) + 2 :
            y[j] = IF j <= Len(name) THEN name[j] ELSE two[j - Len(name)]
    <2>1. /\ y \in Seq(T) /\ Len(y) = Len(name) + Len(two)
          /\ \A j \in 1 .. Len(name) + Len(two) :
                y[j] = IF j <= Len(name) THEN name[j] ELSE two[j - Len(name)]
        BY <1>2, <1>5, <1>6, ConcatProperties
    <2> QED
        BY <1>5, <2>1
<1>10. /\ \A j \in 1 .. Len(name) : y[j] = name[j]
       /\ y[Len(name) + 1] = Blank /\ y[Len(name) + 2] = W
    <2>1. PICK l \in Nat : l = Len(name)
        BY <1>6
    <2>2. /\ l + 1 \in 1 .. l + 2 /\ l + 2 \in 1 .. l + 2 /\ ~(l + 1 <= l) /\ ~(l + 2 <= l)
          /\ l + 1 - l = 1 /\ l + 2 - l = 2
          /\ \A j \in 1 .. l : j \in 1 .. l + 2 /\ j <= l
        BY <2>1
    <2>3. \A j \in 1 .. l + 2 : y[j] = IF j <= l THEN name[j] ELSE two[j - l]
        BY <1>9, <2>1
    <2>4. y[l + 1] = two[1]
        BY <2>2, <2>3
    <2>5. y[l + 2] = two[2]
        BY <2>2, <2>3
    <2>6. \A j \in 1 .. l : y[j] = name[j]
        BY <2>2, <2>3
    <2> QED
        BY <1>5, <2>1, <2>4, <2>5, <2>6
<1>11. /\ x \in Seq(T) /\ Len(x) = Len(y) + Len(opt)
       /\ \A j \in 1 .. Len(y) + Len(opt) :
            x[j] = IF j <= Len(y) THEN y[j] ELSE opt[j - Len(y)]
    BY <1>1, <1>2, <1>9, ConcatProperties
<1>12. PICK l \in Nat, m \in Nat : l = Len(name) /\ m = Len(opt)
    BY <1>1, <1>6
<1>13. \A j \in 1 .. l + 2 + m : x[j] = IF j <= l + 2 THEN y[j] ELSE opt[j - (l + 2)]
    BY <1>9, <1>11, <1>12
<1>14. \A j \in 1 .. l + 2 : x[j] = y[j]
    <2>1. \A j \in 1 .. l + 2 : j \in 1 .. l + 2 + m /\ j <= l + 2
        BY <1>12
    <2> QED
        BY <1>13, <2>1
<1>15. \A j \in 1 .. m : x[l + 2 + j] = opt[j]
    <2>1. ASSUME NEW j \in 1 .. m PROVE x[l + 2 + j] = opt[j]
        <3>1. l + 2 + j \in 1 .. l + 2 + m /\ ~(l + 2 + j <= l + 2)
              /\ l + 2 + j - (l + 2) = j
            BY <1>12
        <3> QED
            BY <1>13, <3>1
    <2> QED
        BY <2>1
<1>16. \A j \in 1 .. l : x[j] = name[j]
    <2>1. \A j \in 1 .. l : j \in 1 .. l + 2
        BY <1>12
    <2> QED
        BY <1>10, <1>12, <1>14, <2>1
<1>17. x[l + 1] = Blank /\ x[l + 2] = W
    <2>1. l + 1 \in 1 .. l + 2 /\ l + 2 \in 1 .. l + 2
        BY <1>12
    <2> QED
        BY <1>10, <1>12, <1>14, <2>1
<1>18. ASSUME NEW j \in 1 .. 1 + m PROVE x[l + 1 + j] = w[j]
    <2>1. CASE j = 1
        <3>1. l + 1 + j = l + 2
            BY <1>12, <2>1
        <3> QED
            BY <1>8, <1>17, <2>1, <3>1
    <2>2. CASE j # 1
        <3>1. PICK k \in 1 .. m : j = 1 + k
            <4>1. j - 1 \in 1 .. m /\ j = 1 + (j - 1)
                BY <1>12, <2>2
            <4> QED
                BY <4>1
        <3>2. l + 1 + j = l + 2 + k
            BY <1>12, <3>1
        <3>3. w[1 + k] = opt[k]
            BY <1>8, <1>12
        <3> QED
            BY <1>15, <3>1, <3>2, <3>3
    <2> QED
        BY <2>1, <2>2
<1>19. Len(x) = l + 1 + Len(w) /\ Len(w) = 1 + m
    BY <1>7, <1>9, <1>11, <1>12
<1>20. Spells(x, name, w)
    BY <1>12, <1>16, <1>17, <1>18, <1>19 DEF Spells
<1>21. ASSUME NEW j \in 1 .. Len(w) PROVE w[j] # Blank /\ w[j] # Comma
    <2>1. CASE j = 1
        BY <1>3, <1>8, <2>1 DEF W
    <2>2. CASE j # 1
        <3>1. PICK k \in 1 .. m : j = 1 + k
            <4>1. j - 1 \in 1 .. m /\ j = 1 + (j - 1)
                BY <1>12, <1>19, <2>2
            <4> QED
                BY <4>1
        <3>2. w[j] = opt[k] /\ opt[k] \in {Open, Number(column.length), Close}
            BY <1>1, <1>8, <1>12, <3>1
        <3> QED
            BY <1>3, <3>2
    <2> QED
        BY <2>1, <2>2
<1>22. w # <<>>
    BY <1>7, <1>12
<1> QED
    BY <1>7, <1>11, <1>20, <1>21, <1>22 DEF name, w, x

LEMMA PlainName ==
    ASSUME NEW column, SoundColumn(column)
    PROVE  /\ column.name \in Seq(ToSet(column.name)) /\ column.name # <<>>
           /\ \A j \in 1 .. Len(column.name) :
                column.name[j] # Blank /\ column.name[j] # Comma
<1> DEFINE name == column.name
<1>1. name \in Seq(ToSet(name)) /\ Plain(name)
    BY DEF SoundColumn, IsSequence
<1> HIDE DEF name
<1>2. DOMAIN name = 1 .. Len(name)
    BY <1>1
<1>3. \A j \in 1 .. Len(name) : name[j] \in ToSet(name)
    BY <1>2 DEF ToSet
<1> QED
    BY <1>1, <1>3 DEF Plain, name

\* A column is read from its text, also with a blank before it.
LEMMA ColumnSent ==
    ASSUME NEW column, SoundColumn(column),
           NEW T, column.name \in Seq(T), Blank \in T, Open \in T, Close \in T,
           Word(column.type) \in T, Number(column.length) \in T,
           NEW text, NEW b \in {0, 1}, b = 1 => text[1] = Blank,
           Len(text) = b + Len(ColumnText(column)),
           \A j \in 1 .. Len(ColumnText(column)) : text[b + j] = ColumnText(column)[j]
    PROVE  DeserializeColumn(text) = column
<1> DEFINE name == column.name
           w == TypeText(column)
           x == ColumnText(column)
<1>1. /\ w \in Seq(T) /\ w # <<>> /\ Spells(x, name, w)
      /\ \A j \in 1 .. Len(w) : w[j] # Blank
    BY ColumnWritten
<1>2. name \in Seq(T) /\ name # <<>> /\ \A j \in 1 .. Len(name) : name[j] # Blank
    BY PlainName
<1> HIDE DEF name, w, x
<1>3. PICK l \in Nat, m \in Nat : l = Len(name) /\ m = Len(w)
    BY <1>1, <1>2
<1>4. /\ Len(x) = l + 1 + m
      /\ \A j \in 1 .. l : x[j] = name[j]
      /\ x[l + 1] = Blank
      /\ \A j \in 1 .. m : x[l + 1 + j] = w[j]
    BY <1>1, <1>3 DEF Spells
<1>5. PICK p \in Nat : p = b + l + 1
    BY <1>3
<1>6. Len(text) = p + m /\ \A j \in 1 .. l + 1 + m : text[b + j] = x[j]
    <2>1. Len(text) = b + Len(x) /\ \A j \in 1 .. Len(x) : text[b + j] = x[j]
        BY DEF x
    <2>2. b + (l + 1 + m) = p + m
        BY <1>3, <1>5
    <2> QED
        BY <1>4, <2>1, <2>2
<1>7. Runs(text, b, name, Blank)
    <2>1. \A j \in 1 .. l : j \in 1 .. l + 1 + m
        BY <1>3
    <2>2. \A j \in 1 .. l : text[b + j] = name[j]
        BY <1>4, <1>6, <2>1
    <2>3. b \in Nat /\ b + l <= Len(text)
        BY <1>3, <1>5, <1>6
    <2> QED
        BY <1>2, <1>3, <2>2, <2>3 DEF Runs
<1>8. text[p] = Blank
    <2>1. l + 1 \in 1 .. l + 1 + m /\ b + (l + 1) = p
        BY <1>3, <1>5
    <2> QED
        BY <1>4, <1>6, <2>1
<1>9. Runs(text, p, w, Blank)
    <2>1. ASSUME NEW j \in 1 .. m PROVE text[p + j] = w[j]
        <3>1. l + 1 + j \in 1 .. l + 1 + m /\ b + (l + 1 + j) = p + j
            BY <1>3, <1>5
        <3> QED
            BY <1>4, <1>6, <3>1
    <2>2. p \in Nat /\ p + m <= Len(text)
        BY <1>3, <1>5, <1>6
    <2> QED
        BY <1>1, <1>3, <2>1, <2>2 DEF Runs
<1>10. Words(text) = <<name, w>>
    <2>1. p = b + Len(name) + 1 /\ Len(text) = p + Len(w)
        BY <1>3, <1>5, <1>6
    <2> QED
        BY <1>1, <1>2, <1>7, <1>8, <1>9, <2>1, WordsCut
<1> QED
    BY <1>10, ColumnRead DEF name, w

SoundSchema(s) ==
    /\ Len(s) \in Nat \ {0} /\ DOMAIN s = 1 .. Len(s)
    /\ s = [i \in 1 .. Len(s) |-> s[i]]
    /\ \A i \in 1 .. Len(s) : SoundColumn(s[i])

\* A schema that is sent is the schema that is read.
LEMMA SchemaSent ==
    ASSUME NEW s, SoundSchema(s)
    PROVE  DeserializeSchema(SchemaText(s)) = s
<1> DEFINE N == Len(s)
           names == UNION {ToSet(s[i].name) : i \in 1 .. N}
           signs == {Blank, Comma, Open, Close}
           types == {Word(t) : t \in Types}
           numbers == {Number(n) : n \in Nat}
           T == names \cup signs \cup types \cup numbers
           x == [i \in 1 .. N |-> ColumnText(s[i])]
           seqs == [i \in 1 .. N |-> ColumnText(s[i]) \o <<Comma, Blank>>]
           full == FlattenSeq(seqs)
           text == SubSeq(full, 1, Len(full) - 2)
           c == [i \in 1 .. N |-> IF i = 1 THEN x[1] ELSE <<Blank>> \o x[i]]
<1>1. /\ N \in Nat \ {0} /\ DOMAIN s = 1 .. N /\ s = [i \in 1 .. N |-> s[i]]
      /\ \A i \in 1 .. N : SoundColumn(s[i])
    BY DEF SoundSchema
<1>2. SchemaText(s) = IF full = <<>> THEN <<>> ELSE text
    BY <1>1 DEF SchemaText
<1> HIDE DEF N
<1>3. \A i \in 1 .. N : /\ s[i].name \in Seq(T) /\ Blank \in T /\ Comma \in T
                        /\ Open \in T /\ Close \in T /\ Word(s[i].type) \in T
                        /\ Number(s[i].length) \in T
    <2>1. ASSUME NEW i \in 1 .. N PROVE s[i].name \in Seq(T)
        <3>1. s[i].name \in Seq(ToSet(s[i].name))
            BY <1>1, PlainName
        <3>2. ToSet(s[i].name) \subseteq T
            OBVIOUS
        <3> HIDE DEF T
        <3>3. PICK name : name = s[i].name
            OBVIOUS
        <3>4. PICK U : U = ToSet(s[i].name)
            OBVIOUS
        <3>5. name \in Seq(U) /\ U \subseteq T
            BY <3>1, <3>2, <3>3, <3>4
        <3>6. name \in Seq(T)
            BY <3>5
        <3> QED
            BY <3>3, <3>6
    <2>2. \A i \in 1 .. N : s[i].type \in Types /\ s[i].length \in Nat
        BY <1>1 DEF SoundColumn
    <2>3. \A i \in 1 .. N : Word(s[i].type) \in T /\ Number(s[i].length) \in T
        <3>1. \A i \in 1 .. N : Word(s[i].type) \in types /\ Number(s[i].length) \in numbers
            BY <2>2
        <3> HIDE DEF names, signs, types, numbers
        <3> QED
            BY <3>1
    <2>4. Blank \in T /\ Comma \in T /\ Open \in T /\ Close \in T
        <3>1. Blank \in signs /\ Comma \in signs /\ Open \in signs /\ Close \in signs
            OBVIOUS
        <3> HIDE DEF names, signs, types, numbers
        <3> QED
            BY <3>1
    <2> HIDE DEF T
    <2> QED
        BY <2>1, <2>3, <2>4
<1> HIDE DEF T
<1>4. ASSUME NEW i \in 1 .. N
      PROVE  /\ x[i] = ColumnText(s[i]) /\ x[i] \in Seq(T) /\ Len(x[i]) \in Nat \ {0}
             /\ \A j \in 1 .. Len(x[i]) : x[i][j] # Comma
    <2> DEFINE name == s[i].name
               w == TypeText(s[i])
               t == ColumnText(s[i])
    <2>1. SoundColumn(s[i])
        BY <1>1
    <2>2. /\ w \in Seq(T) /\ t \in Seq(T) /\ Spells(t, name, w)
          /\ \A j \in 1 .. Len(w) : w[j] # Comma
        BY <1>3, <2>1, ColumnWritten
    <2>3. name \in Seq(T) /\ \A j \in 1 .. Len(name) : name[j] # Comma
        BY <1>3, <2>1, PlainName
    <2>4. x[i] = t
        OBVIOUS
    <2> HIDE DEF name, w, t
    <2>5. PICK l \in Nat, m \in Nat : l = Len(name) /\ m = Len(w)
        BY <2>2, <2>3
    <2>6. /\ Len(t) = l + 1 + m /\ \A j \in 1 .. l : t[j] = name[j]
          /\ t[l + 1] = Blank /\ \A j \in 1 .. m : t[l + 1 + j] = w[j]
        BY <2>2, <2>5 DEF Spells
    <2>7. ASSUME NEW j \in 1 .. Len(t) PROVE t[j] # Comma
        <3>1. CASE j \in 1 .. l
            BY <2>3, <2>5, <2>6, <3>1
        <3>2. CASE j = l + 1
            <4>1. Blank # Comma
                BY DEF Blank, Comma
            <4> QED
                BY <2>6, <3>2, <4>1
        <3>3. CASE j > l + 1
            <4>1. PICK k \in 1 .. m : j = l + 1 + k
                <5>1. j - l - 1 \in 1 .. m /\ j = l + 1 + (j - l - 1)
                    BY <2>5, <2>6, <3>3
                <5> QED
                    BY <5>1
            <4> QED
                BY <2>2, <2>5, <2>6, <4>1
        <3> QED
            BY <2>5, <2>6, <3>1, <3>2, <3>3
    <2>8. Len(t) \in Nat \ {0}
        BY <2>5, <2>6
    <2> QED
        BY <2>2, <2>4, <2>7, <2>8 DEF t
<1>5. ASSUME NEW i \in 1 .. N
      PROVE  /\ seqs[i] \in Seq(T) /\ Len(seqs[i]) = Len(x[i]) + 2
             /\ \A j \in 1 .. Len(x[i]) : seqs[i][j] = x[i][j]
             /\ seqs[i][Len(x[i]) + 1] = Comma /\ seqs[i][Len(x[i]) + 2] = Blank
    <2> DEFINE end == <<Comma, Blank>>
               t == x[i]
               u == seqs[i]
    <2>1. end \in Seq(T) /\ Len(end) = 2 /\ end[1] = Comma /\ end[2] = Blank
        BY <1>3
    <2>2. u = t \o end
        OBVIOUS
    <2>3. t \in Seq(T) /\ Len(t) \in Nat
        BY <1>4
    <2> HIDE DEF end, t, u
    <2>4. /\ u \in Seq(T) /\ Len(u) = Len(t) + Len(end)
          /\ \A j \in 1 .. Len(t) + Len(end) :
                u[j] = IF j <= Len(t) THEN t[j] ELSE end[j - Len(t)]
        BY <2>1, <2>2, <2>3, ConcatProperties
    <2>5. PICK l \in Nat : l = Len(t)
        BY <2>3
    <2>6. Len(u) = l + 2
          /\ \A j \in 1 .. l + 2 : u[j] = IF j <= l THEN t[j] ELSE end[j - l]
        BY <2>1, <2>4, <2>5
    <2>7. /\ l + 1 \in 1 .. l + 2 /\ l + 2 \in 1 .. l + 2 /\ ~(l + 1 <= l) /\ ~(l + 2 <= l)
          /\ l + 1 - l = 1 /\ l + 2 - l = 2
          /\ \A j \in 1 .. l : j \in 1 .. l + 2 /\ j <= l
        BY <2>5
    <2>8. u[l + 1] = end[1]
        BY <2>6, <2>7
    <2>9. u[l + 2] = end[2]
        BY <2>6, <2>7
    <2>10. \A j \in 1 .. l : u[j] = t[j]
        BY <2>6, <2>7
    <2> QED
        BY <2>1, <2>4, <2>5, <2>6, <2>8, <2>9, <2>10 DEF t, u
<1>6. ASSUME NEW i \in 1 .. N
      PROVE  /\ c[i] \in Seq(T)
             /\ i = 1 => c[i] = x[i]
             /\ i # 1 => /\ Len(c[i]) = 1 + Len(x[i]) /\ c[i][1] = Blank
                         /\ \A j \in 1 .. Len(x[i]) : c[i][1 + j] = x[i][j]
    <2>1. i = 1 => c[i] = x[i]
        OBVIOUS
    <2> DEFINE t == x[i]
               u == c[i]
               b == <<Blank>>
    <2>2. i # 1 => u = b \o t
        OBVIOUS
    <2>3. t \in Seq(T) /\ Len(t) \in Nat
        BY <1>4
    <2>4. b \in Seq(T) /\ Len(b) = 1 /\ b[1] = Blank
        BY <1>3
    <2>5. i = 1 => u = t
        OBVIOUS
    <2> HIDE DEF t, u, b
    <2>6. CASE i # 1
        <3>1. /\ u \in Seq(T) /\ Len(u) = Len(b) + Len(t)
              /\ \A j \in 1 .. Len(b) + Len(t) :
                    u[j] = IF j <= Len(b) THEN b[j] ELSE t[j - Len(b)]
            BY <2>2, <2>3, <2>4, <2>6, ConcatProperties
        <3>2. PICK l \in Nat : l = Len(t)
            BY <2>3
        <3>3. /\ Len(u) = 1 + l
              /\ \A j \in 1 .. 1 + l : u[j] = IF j <= 1 THEN b[j] ELSE t[j - 1]
            BY <2>4, <3>1, <3>2
        <3>4. 1 \in 1 .. 1 + l /\ 1 <= 1
            BY <3>2
        <3>5. u[1] = Blank
            BY <2>4, <3>3, <3>4
        <3>6. ASSUME NEW j \in 1 .. l PROVE u[1 + j] = t[j]
            <4>1. 1 + j \in 1 .. 1 + l /\ ~(1 + j <= 1) /\ 1 + j - 1 = j
                BY <3>2
            <4> QED
                BY <3>3, <4>1
        <3> QED
            BY <2>6, <3>1, <3>2, <3>3, <3>5, <3>6 DEF t, u
    <2>7. CASE i = 1
        BY <2>1, <2>3, <2>5, <2>7 DEF u
    <2> QED
        BY <2>6, <2>7
<1>7. \A i \in 1 .. N : /\ seqs[i] \in Seq(T) /\ c[i] \in Seq(T)
    BY <1>5, <1>6
<1>8. c \in [1 .. N -> Seq(T)] /\ seqs \in [1 .. N -> Seq(T)]
    <2>1. c = [i \in 1 .. N |-> c[i]] /\ seqs = [i \in 1 .. N |-> seqs[i]]
        OBVIOUS
    <2> HIDE DEF c, seqs
    <2> QED
        BY <1>7, <2>1
<1>9. N \in 1 .. N /\ 1 \in 1 .. N
    BY <1>1
<1>10. /\ full \in Seq(T) /\ \E o : Lays(full, seqs, N, o)
    BY <1>1, <1>8, Laid
<1> HIDE DEF x, c, seqs, full
<1>11. PICK o : Lays(full, seqs, N, o)
    BY <1>10
<1>12. /\ o \in [0 .. N -> Nat] /\ o[0] = 0 /\ Len(full) = o[N]
       /\ \A i \in 0 .. N : o[i] <= o[N]
    BY <1>11 DEF Lays
<1>13. ASSUME NEW i \in 1 .. N
       PROVE  /\ o[i - 1] \in Nat /\ o[i] \in Nat /\ o[i] <= o[N]
              /\ o[i] = o[i - 1] + Len(x[i]) + 2
              /\ \A j \in 1 .. Len(x[i]) : full[o[i - 1] + j] = x[i][j]
              /\ full[o[i] - 1] = Comma /\ full[o[i]] = Blank
    <2>1. i - 1 \in 0 .. N /\ i \in 0 .. N
        BY <1>1
    <2>2. PICK u \in Nat, l \in Nat : u = o[i - 1] /\ l = Len(x[i])
        BY <1>4, <1>12, <2>1
    <2>3. Len(seqs[i]) = l + 2
        BY <1>5, <2>2
    <2>4. /\ o[i] = u + (l + 2)
          /\ \A j \in 1 .. l + 2 : full[u + j] = seqs[i][j]
        BY <1>11, <2>2, <2>3 DEF Lays
    <2>5. /\ seqs[i][l + 1] = Comma /\ seqs[i][l + 2] = Blank
          /\ \A j \in 1 .. l : seqs[i][j] = x[i][j]
        BY <1>5, <2>2
    <2>6. /\ l + 1 \in 1 .. l + 2 /\ l + 2 \in 1 .. l + 2
          /\ \A j \in 1 .. l : j \in 1 .. l + 2
        BY <2>2
    <2>7. full[u + (l + 1)] = Comma /\ full[u + (l + 2)] = Blank
        BY <2>4, <2>5, <2>6
    <2>8. \A j \in 1 .. l : full[u + j] = x[i][j]
        BY <2>4, <2>5, <2>6
    <2>9. u + (l + 2) = u + l + 2 /\ u + (l + 2) - 1 = u + (l + 1)
        BY <2>2
    <2>10. o[i] = u + l + 2 /\ o[i] - 1 = u + (l + 1)
        BY <2>4, <2>9
    <2>11. full[o[i] - 1] = Comma
        BY <2>7, <2>10
    <2>12. full[o[i]] = Blank
        BY <2>4, <2>7
    <2>13. o[i - 1] \in Nat /\ o[i] \in Nat /\ o[i] <= o[N]
        BY <1>12, <2>1
    <2> QED
        BY <2>2, <2>8, <2>10, <2>11, <2>12, <2>13
<1>14. PICK M \in Nat : M = o[N]
    BY <1>9, <1>13
<1>15. M >= 3
    <2>1. PICK u \in Nat, l \in Nat \ {0} : u = o[N - 1] /\ l = Len(x[N])
        BY <1>4, <1>9, <1>13
    <2> QED
        BY <1>9, <1>13, <1>14, <2>1
<1>16. /\ Len(text) = M - 2 /\ \A k \in 1 .. M - 2 : text[k] = full[k]
       /\ SchemaText(s) = text
    <2>1. Len(full) = M
        BY <1>12, <1>14
    <2>2. /\ 1 \in 1 .. Len(full) + 1 /\ Len(full) - 2 \in (1 - 1) .. Len(full)
          /\ Len(full) - 2 = M - 2
        BY <1>14, <1>15, <2>1
    <2>3. text \in Seq(T) /\ Len(text) = M - 2
        BY <1>10, <1>14, <1>15, <2>1, <2>2, SubSeqProperties
    <2>4. \A k \in 1 .. M - 2 : text[k] = full[k]
        <3>1. \A k \in 1 .. Len(full) - 2 - 1 + 1 : SubSeq(full, 1, Len(full) - 2)[k] = full[1 + k - 1]
            BY <1>10, <1>14, <1>15, <2>1, <2>2, SubSeqProperties
        <3>2. \A k \in 1 .. M - 2 : k \in 1 .. Len(full) - 2 - 1 + 1 /\ 1 + k - 1 = k
            BY <1>14, <1>15, <2>1
        <3> QED
            BY <3>1, <3>2
    <2>5. full # <<>>
        BY <1>15, <2>1
    <2> QED
        BY <1>2, <2>3, <2>4, <2>5
<1> HIDE DEF text
<1> DEFINE q == [n \in 0 .. N |-> IF n = 0 THEN 0 ELSE o[n] - 1]
<1>17. ASSUME NEW i \in 1 .. N
       PROVE  /\ i - 1 \in 0 .. N /\ i \in 0 .. N /\ q[i] = o[i] - 1
              /\ i = 1 => q[i - 1] = 0 /\ o[i - 1] = 0
              /\ i # 1 => q[i - 1] = o[i - 1] - 1
    BY <1>1, <1>12
<1>18. q[0] = 0 /\ \A i \in 0 .. N : i # 0 => i \in 1 .. N
    BY <1>1
<1>19. q = [n \in 0 .. N |-> q[n]]
    OBVIOUS
<1> HIDE DEF q
\* Block i by numbers: it starts behind u and has a text of length l.
<1>20. ASSUME NEW i \in 1 .. N
       PROVE  \E u \in Nat, l \in Nat \ {0} :
                /\ u = o[i - 1] /\ l = Len(x[i]) /\ o[i] = u + l + 2 /\ u + l + 2 <= M
                /\ q[i] = u + l + 1
                /\ i = 1 => u = 0 /\ q[i - 1] = 0 /\ Len(c[i]) = l
                /\ i # 1 => u >= 3 /\ q[i - 1] = u - 1 /\ Len(c[i]) = 1 + l
    <2>1. PICK u \in Nat, l \in Nat \ {0} : u = o[i - 1] /\ l = Len(x[i])
        BY <1>4, <1>13
    <2>2. o[i] = u + l + 2 /\ u + l + 2 <= M
        BY <1>13, <1>14, <2>1
    <2>3. q[i] = u + l + 1
        <3>1. u + l + 2 - 1 = u + l + 1
            OBVIOUS
        <3> QED
            BY <1>17, <2>2, <3>1
    <2>4. i = 1 => u = 0 /\ q[i - 1] = 0 /\ Len(c[i]) = l
        BY <1>6, <1>17, <2>1
    <2>5. i # 1 => q[i - 1] = u - 1 /\ Len(c[i]) = 1 + l
        BY <1>6, <1>17, <2>1
    <2>6. i # 1 => u >= 3
        <3>1. ASSUME i # 1 PROVE i - 1 \in 1 .. N
            BY <1>1, <3>1
        <3>2. ASSUME i # 1 PROVE u >= 3
            <4>1. PICK v \in Nat, m \in Nat \ {0} : v = o[i - 1 - 1] /\ m = Len(x[i - 1])
                BY <1>4, <1>13, <3>1, <3>2
            <4>2. o[i - 1] = v + m + 2
                BY <1>13, <3>1, <3>2, <4>1
            <4> QED
                BY <2>1, <4>1, <4>2
        <3> QED
            BY <3>2
    <2> QED
        BY <2>1, <2>2, <2>3, <2>4, <2>5, <2>6
<1>21. ASSUME NEW i \in 1 .. N
       PROVE  /\ q[i] \in Nat /\ q[i] <= M - 1 /\ q[i] = q[i - 1] + Len(c[i]) + 1
              /\ i # N => text[q[i]] = Comma
    <2>1. PICK u \in Nat, l \in Nat \ {0} :
                /\ u = o[i - 1] /\ l = Len(x[i]) /\ o[i] = u + l + 2 /\ u + l + 2 <= M
                /\ q[i] = u + l + 1
                /\ i = 1 => u = 0 /\ q[i - 1] = 0 /\ Len(c[i]) = l
                /\ i # 1 => u >= 3 /\ q[i - 1] = u - 1 /\ Len(c[i]) = 1 + l
        BY <1>20
    <2>2. q[i] \in Nat /\ q[i] <= M - 1
        BY <1>14, <2>1
    <2>3. q[i] = q[i - 1] + Len(c[i]) + 1
        <3>1. CASE i = 1
            BY <2>1, <3>1
        <3>2. CASE i # 1
            <4>1. \A a \in Nat, b \in Nat : a - 1 + (1 + b) + 1 = a + b + 1
                OBVIOUS
            <4>2. u - 1 + (1 + l) + 1 = u + l + 1
                BY <2>1, <4>1
            <4>3. q[i - 1] = u - 1 /\ Len(c[i]) = 1 + l /\ q[i] = u + l + 1
                BY <2>1, <3>2
            <4> QED
                BY <4>2, <4>3
        <3> QED
            BY <3>1, <3>2
    <2>4. ASSUME i # N PROVE text[q[i]] = Comma
        <3>1. PICK k \in 1 .. N : k - 1 = i
            <4>1. i + 1 \in 1 .. N /\ i + 1 - 1 = i
                BY <1>1, <2>4
            <4> QED
                BY <4>1
        <3>2. PICK v \in Nat, m \in Nat \ {0} : v = o[k - 1] /\ v + m + 2 <= M
            BY <1>20
        <3>3. v = u + l + 2
            BY <2>1, <3>1, <3>2
        <3>4. u + l + 1 \in 1 .. M - 2 /\ u + l + 2 - 1 = u + l + 1
            <4>1. u \in Nat /\ l \in Nat /\ M \in Nat /\ m \in Nat \ {0}
                BY <1>14, <2>1, <3>2
            <4>2. u + l + 2 + m + 2 <= M
                BY <3>2, <3>3
            <4> QED
                BY <4>1, <4>2
        <3>5. full[u + l + 1] = Comma
            <4>1. o[i] - 1 = u + l + 1
                BY <2>1, <3>4
            <4>2. full[o[i] - 1] = Comma
                BY <1>13
            <4> QED
                BY <4>1, <4>2
        <3> QED
            BY <1>16, <2>1, <3>4, <3>5
    <2> QED
        BY <2>2, <2>3, <2>4
<1>22. ASSUME NEW i \in 1 .. N, NEW j \in 1 .. Len(c[i])
       PROVE  text[q[i - 1] + j] = c[i][j] /\ c[i][j] # Comma
    <2>1. PICK u \in Nat, l \in Nat \ {0} :
                /\ u = o[i - 1] /\ l = Len(x[i]) /\ o[i] = u + l + 2 /\ u + l + 2 <= M
                /\ q[i] = u + l + 1
                /\ i = 1 => u = 0 /\ q[i - 1] = 0 /\ Len(c[i]) = l
                /\ i # 1 => u >= 3 /\ q[i - 1] = u - 1 /\ Len(c[i]) = 1 + l
        BY <1>20
    <2>2. \A k \in 1 .. l : u + k \in 1 .. M - 2
        <3>1. u \in Nat /\ l \in Nat /\ M \in Nat /\ u + l + 2 <= M
            BY <1>14, <2>1
        <3> QED
            BY <3>1
    <2>3. \A k \in 1 .. l : full[u + k] = x[i][k] /\ x[i][k] # Comma
        BY <1>4, <1>13, <2>1
    <2>4. \A k \in 1 .. l : text[u + k] = x[i][k] /\ x[i][k] # Comma
        BY <1>16, <2>2, <2>3
    <2>5. CASE i = 1
        <3>1. j \in 1 .. l /\ c[i] = x[i] /\ q[i - 1] = 0 /\ u = 0
            BY <1>6, <2>1, <2>5
        <3> QED
            BY <2>4, <3>1
    <2>6. CASE i # 1
        <3>1. j \in 1 .. 1 + l /\ q[i - 1] = u - 1 /\ u >= 3
            BY <2>1, <2>6
        <3>2. CASE j = 1
            <4>1. q[i - 1] + j = u /\ u \in 1 .. M - 2
                <5>1. u \in Nat /\ l \in Nat /\ M \in Nat /\ u + l + 2 <= M
                    BY <1>14, <2>1
                <5>2. u - 1 + 1 = u /\ u \in 1 .. M - 2
                    BY <3>1, <5>1
                <5> QED
                    BY <3>1, <3>2, <5>2
            <4>2. i - 1 \in 1 .. N
                BY <1>1, <2>6
            <4>3. full[u] = Blank
                BY <1>13, <2>1, <4>2
            <4>4. c[i][j] = Blank
                BY <1>6, <2>6, <3>2
            <4>5. Blank # Comma
                BY DEF Blank, Comma
            <4> QED
                BY <1>16, <4>1, <4>3, <4>4, <4>5
        <3>3. CASE j # 1
            <4>1. PICK k \in 1 .. l : j = 1 + k
                <5>1. j - 1 \in 1 .. l /\ j = 1 + (j - 1)
                    BY <2>1, <3>1, <3>3
                <5> QED
                    BY <5>1
            <4>2. q[i - 1] + j = u + k
                BY <2>1, <3>1, <4>1
            <4>3. c[i][j] = x[i][k]
                BY <1>6, <2>1, <2>6, <4>1
            <4> QED
                BY <2>4, <4>2, <4>3
        <3> QED
            BY <3>2, <3>3
    <2> QED
        BY <2>5, <2>6
<1>23. q[N] = M - 1
    <2>1. q[N] = o[N] - 1
        BY <1>9, <1>17
    <2> QED
        BY <1>14, <2>1
<1>24. Cuts(text, Comma, N, c, q)
    <2>1. \A i \in 0 .. N : q[i] \in Nat /\ q[i] <= q[N]
        <3>1. q[0] \in Nat /\ q[0] <= M - 1
            BY <1>14, <1>15, <1>18
        <3>2. \A i \in 0 .. N : q[i] \in Nat /\ q[i] <= M - 1
            BY <1>18, <1>21, <3>1
        <3> QED
            BY <1>23, <3>2
    <2>2. q \in [0 .. N -> Nat]
        BY <1>19, <2>1
    <2>3. \A i \in 1 .. N - 1 : i \in 1 .. N /\ i # N
        BY <1>1
    <2>4. Len(text) = q[N] - 1
        <3>1. M - 1 - 1 = M - 2
            BY <1>14
        <3> QED
            BY <1>16, <1>23, <3>1
    <2> QED
        BY <1>18, <1>21, <1>22, <2>1, <2>2, <2>3, <2>4 DEF Cuts
<1>25. Pieces(text, Comma) = c
    <2>1. c[N] # <<>>
        <3>1. Len(c[N]) # 0
            <4>1. PICK l \in Nat \ {0} : Len(c[N]) = l \/ Len(c[N]) = 1 + l
                BY <1>9, <1>20
            <4> QED
                BY <4>1
        <3> QED
            BY <3>1
    <2>2. N \in Nat \ {0} /\ c \in [1 .. N -> Seq(T)]
        BY <1>1, <1>8
    <2> QED
        BY <1>24, <2>1, <2>2, PiecesCut
<1>26. ASSUME NEW i \in 1 .. N PROVE DeserializeColumn(c[i]) = s[i]
    <2> DEFINE text1 == c[i]
               column == s[i]
               y == ColumnText(column)
    <2>1. /\ SoundColumn(column) /\ column.name \in Seq(T) /\ Blank \in T /\ Open \in T
          /\ Close \in T /\ Word(column.type) \in T /\ Number(column.length) \in T
        BY <1>1, <1>3
    <2>2. y = x[i] /\ Len(y) \in Nat
        BY <1>4
    <2> HIDE DEF text1, column, y
    <2>3. CASE i = 1
        <3>1. text1 = y
            BY <1>6, <2>2, <2>3 DEF text1
        <3>2. 0 \in {0, 1} /\ ~(0 = 1) /\ Len(text1) = 0 + Len(y)
              /\ \A j \in 1 .. Len(y) : text1[0 + j] = y[j]
            BY <2>2, <3>1
        <3>3. DeserializeColumn(text1) = column
            BY <2>1, <3>2, ColumnSent DEF y
        <3> QED
            BY <3>3 DEF text1, column
    <2>4. CASE i # 1
        <3>1. /\ 1 \in {0, 1} /\ text1[1] = Blank /\ Len(text1) = 1 + Len(y)
              /\ \A j \in 1 .. Len(y) : text1[1 + j] = y[j]
            BY <1>6, <2>2, <2>4 DEF text1
        <3>2. DeserializeColumn(text1) = column
            BY <2>1, <3>1, ColumnSent DEF y
        <3> QED
            BY <3>2 DEF text1, column
    <2> QED
        BY <2>3, <2>4
<1>27. DOMAIN c = 1 .. N
    BY <1>8
<1>28. DeserializeSchema(text) = [i \in 1 .. N |-> DeserializeColumn(c[i])]
    BY <1>25, <1>27 DEF DeserializeSchema
<1>29. [i \in 1 .. N |-> DeserializeColumn(c[i])] = [i \in 1 .. N |-> s[i]]
    BY <1>26
<1> QED
    BY <1>1, <1>16, <1>28, <1>29

-----------------------------------------------------------------------------
(* The pages of a table                                                    *)

SlotOf(s) == 1 + FixedRowSpace(s, 0)
HasString(s) == \E i \in DOMAIN s : s[i].type = "string"
Id(p, i) == [page |-> p - 1, row |-> i]

\* Page p of a table without strings: a flag is set where a row is, or one that
\* nobody inserted, and the row is behind its flag.
FixedPage(s, page, p, R, X) ==
    \A i \in Slots(SlotOf(s)) :
        /\ page[i * SlotOf(s)] # 0 <=> Id(p, i) \in DOMAIN R \cup X
        /\ Id(p, i) \in DOMAIN R =>
              Holds(page, i * SlotOf(s) + 1, SerializeRow(s, R[Id(p, i)]))
FixedPages(s, pgs, R, X) ==
    /\ \A p \in 1 .. Len(pgs) : FixedPage(s, pgs[p], p, R, X)
    /\ \A id \in DOMAIN R \cup X :
          \E p \in 1 .. Len(pgs), i \in Slots(SlotOf(s)) : id = Id(p, i)
    /\ DOMAIN R \cap X = {}

\* Page p of a table with strings: it has the rows it counts.
FlexiblePage(s, page, p, R) ==
    \A i \in 0 .. PageSize - 1 :
        /\ i < Count(page) <=> Id(p, i) \in DOMAIN R
        /\ Id(p, i) \in DOMAIN R =>
              /\ RowLength(page, i) = RowSpace(s, R[Id(p, i)])
              /\ Holds(page, PageSize - PrevSum(page, i + 1), SerializeRow(s, R[Id(p, i)]))
FlexiblePages(s, pgs, R) ==
    /\ \A p \in 1 .. Len(pgs) : FlexiblePage(s, pgs[p], p, R)
    /\ \A id \in DOMAIN R :
          \E p \in 1 .. Len(pgs), i \in 0 .. PageSize - 1 : id = Id(p, i)

\* The inductive invariant.
Inv ==
    /\ TypeOK
    /\ current <= MaxInserts
    /\ IsFiniteSet(DOMAIN rows)
    /\ ~Flexible => FixedPages(schema, pages, rows, phantoms)
    /\ Flexible =>
          /\ \A p \in 1 .. Len(pages) : Room(pages[p])
          /\ phantoms = {}
          /\ ~damaged => FlexiblePages(schema, pages, rows)

LEMMA SoundSchemas ==
    ASSUME NEW s \in Schemas
    PROVE  SoundSchema(s)
<1>1. /\ IsSequence(s) /\ s # <<>>
      /\ \A i \in DOMAIN s :
            /\ s[i] = Column(s[i].name, s[i].type, s[i].length)
            /\ s[i].type \in Types /\ s[i].length \in Nat
            /\ IsSequence(s[i].name) /\ Plain(s[i].name)
    BY SchemasAssumption
<1>2. PICK S : s \in Seq(S)
    BY <1>1 DEF IsSequence
<1>3. /\ Len(s) \in Nat \ {0} /\ DOMAIN s = 1 .. Len(s)
      /\ s = [i \in 1 .. Len(s) |-> s[i]]
    BY <1>1, <1>2
<1>4. \A i \in 1 .. Len(s) : SoundColumn(s[i])
    BY <1>1, <1>3 DEF SoundColumn
<1> QED
    BY <1>3, <1>4 DEF SoundSchema

LEMMA RowsOfSchemas ==
    ASSUME StringsFit, NEW s \in Schemas, NEW r \in RowsOf[s]
    PROVE  OfSchema(s, r)
<1>1. /\ Len(s) \in Nat \ {0} /\ DOMAIN s = 1 .. Len(s)
      /\ \A i \in 1 .. Len(s) : s[i].length \in Nat
    BY SoundSchemas DEF SoundSchema, SoundColumn
<1>2. 2 * Bit(Len(s)) <= Byte
    BY SchemasAssumption
<1>3. /\ IsSequence(r) /\ DOMAIN r = DOMAIN s
      /\ \A i \in DOMAIN s :
            r[i] # Null =>
               /\ r[i] \in Seq(0 .. Byte - 1)
               /\ s[i].type \notin {"varchar", "string"} => Len(r[i]) = 1
               /\ s[i].type = "varchar" =>
                     Len(r[i]) <= s[i].length /\ 0 \notin ToSet(r[i])
    BY RowsAssumption
<1>4. r = [i \in 1 .. Len(s) |-> r[i]]
    <2>1. PICK S : r \in Seq(S)
        BY <1>3 DEF IsSequence
    <2>2. r = [i \in DOMAIN r |-> r[i]]
        BY <2>1
    <2> QED
        BY <1>1, <1>3, <2>2
<1>5. ASSUME NEW i \in 1 .. Len(s) PROVE OfColumn(s[i], r[i])
    <2>1. r[i] # Null /\ s[i].type = "string" => Len(r[i]) < Byte
        BY <1>1 DEF StringsFit
    <2> QED
        BY <1>1, <1>3, <2>1 DEF OfColumn, Cell
<1> QED
    BY <1>1, <1>2, <1>4, <1>5 DEF OfSchema

\* A row without strings fits its slot.
LEMMA RowFits ==
    ASSUME NEW s, NEW r, OfSchema(s, r), ~HasString(s)
    PROVE  /\ SlotOf(s) \in Nat \ {0}
           /\ SerializeRow(s, r) \in Seq(Cell)
           /\ Len(SerializeRow(s, r)) \in Nat
           /\ Len(SerializeRow(s, r)) + 1 <= SlotOf(s)
<1>1. /\ Len(s) \in Nat \ {0} /\ DOMAIN s = 1 .. Len(s)
      /\ \A i \in 1 .. Len(s) : s[i].length \in Nat
    BY DEF OfSchema
<1>2. FixedRowSpace(s, 0) \in Nat \ {0} /\ RowSpace(s, r) <= FixedRowSpace(s, 0)
    BY <1>1, FixedSpace DEF HasString
<1>3. Len(SerializeRow(s, r)) = RowSpace(s, r) /\ RowSpace(s, r) \in Nat \ {0}
    BY RowSpaceIs
<1>4. SerializeRow(s, r) \in Seq(Cell)
    BY RowWritten
<1> QED
    BY <1>2, <1>3, <1>4 DEF SlotOf

LEMMA IdsApart ==
    ASSUME NEW p \in Int, NEW q \in Int, NEW i, NEW j, Id(p, i) = Id(q, j)
    PROVE  p = q /\ i = j
<1>1. p - 1 = q - 1 /\ i = j
    BY DEF Id
<1> QED
    BY <1>1

\* R with the row a put in, replaced or taken out.
Except(R, R2, a) ==
    \A x : x # a => /\ x \in DOMAIN R2 <=> x \in DOMAIN R
                    /\ x \in DOMAIN R => R2[x] = R[x]
Apart(X, X2, a) == \A x : x # a => (x \in X2 <=> x \in X)

\* A slot of a page is written.
LEMMA SlotChanged ==
    ASSUME NEW s, ~HasString(s), SlotOf(s) \in Nat \ {0},
           NEW pgs \in Seq(Page), NEW p \in 1 .. Len(pgs),
           NEW i \in Slots(SlotOf(s)), NEW q \in Page,
           \A j \in Slots(SlotOf(s)) : j # i =>
              \A n \in InSlot(SlotOf(s), j) : q[n] = pgs[p][n],
           NEW R, NEW R2, NEW X, NEW X2, FixedPages(s, pgs, R, X),
           \A id \in DOMAIN R : OfSchema(s, R[id]),
           Except(R, R2, Id(p, i)), Apart(X, X2, Id(p, i)),
           q[i * SlotOf(s)] # 0 <=> Id(p, i) \in DOMAIN R2 \cup X2,
           Id(p, i) \in DOMAIN R2 =>
              Holds(q, i * SlotOf(s) + 1, SerializeRow(s, R2[Id(p, i)])),
           ~(Id(p, i) \in DOMAIN R2 /\ Id(p, i) \in X2)
    PROVE  FixedPages(s, [pgs EXCEPT ![p] = q], R2, X2)
<1> DEFINE w == SlotOf(s)
           new == [pgs EXCEPT ![p] = q]
<1>1. Len(new) = Len(pgs) /\ \A n \in 1 .. Len(pgs) : new[n] = IF n = p THEN q ELSE pgs[n]
    OBVIOUS
<1>2. /\ Len(pgs) \in Nat /\ p \in Int /\ \A n \in 1 .. Len(pgs) : n \in Int
      /\ w \in Nat \ {0}
    OBVIOUS
<1> HIDE DEF new, w
<1>3. ASSUME NEW n \in 1 .. Len(pgs), NEW j \in Slots(w), n # p \/ j # i
      PROVE  /\ new[n][j * w] # 0 <=> Id(n, j) \in DOMAIN R2 \cup X2
             /\ Id(n, j) \in DOMAIN R2 =>
                   Holds(new[n], j * w + 1, SerializeRow(s, R2[Id(n, j)]))
    <2> DEFINE id == Id(n, j)
    <2>1. id # Id(p, i)
        BY <1>2, <1>3, IdsApart
    <2>2. /\ id \in DOMAIN R2 <=> id \in DOMAIN R
          /\ id \in DOMAIN R => R2[id] = R[id]
          /\ id \in X2 <=> id \in X
        BY <2>1 DEF Except, Apart
    <2>3. /\ pgs[n][j * w] # 0 <=> id \in DOMAIN R \cup X
          /\ id \in DOMAIN R => Holds(pgs[n], j * w + 1, SerializeRow(s, R[id]))
        BY DEF FixedPages, FixedPage, w
    <2> HIDE DEF id
    <2>4. CASE n # p
        BY <1>1, <2>2, <2>3, <2>4 DEF id
    <2>5. CASE n = p
        <3>1. \A c \in InSlot(w, j) : q[c] = pgs[p][c]
            BY <1>3, <2>5 DEF w
        <3>2. new[n] = q
            BY <1>1, <2>5
        <3>3. j * w \in Nat
            BY <1>2, SlotsFit DEF Slots
        <3>4. j * w \in InSlot(w, j)
            BY <1>2, <3>3 DEF InSlot
        <3>5. q[j * w] # 0 <=> id \in DOMAIN R2 \cup X2
            BY <2>2, <2>3, <2>5, <3>1, <3>4
        <3>6. ASSUME id \in DOMAIN R PROVE Holds(q, j * w + 1, SerializeRow(s, R[id]))
            <4> DEFINE t == SerializeRow(s, R[id])
                       at == j * w + 1
            <4>1. Len(t) \in Nat /\ Len(t) + 1 <= w
                BY <3>6, RowFits DEF w
            <4>2. Holds(pgs[p], at, t)
                BY <2>3, <2>5, <3>6
            <4> HIDE DEF t
            <4>3. \A c \in at .. at + Len(t) - 1 : c \in InSlot(w, j)
                BY <1>2, <3>3, <4>1 DEF InSlot
            <4>4. at \in Nat
                BY <3>3
            <4> HIDE DEF at
            <4>5. Holds(q, at, t)
                BY <3>1, <4>1, <4>2, <4>3, <4>4, StillHolds
            <4> QED
                BY <4>5 DEF t, at
        <3> QED
            BY <2>2, <3>2, <3>5, <3>6 DEF id
    <2> QED
        BY <2>4, <2>5
<1>4. /\ new[p][i * w] # 0 <=> Id(p, i) \in DOMAIN R2 \cup X2
      /\ Id(p, i) \in DOMAIN R2 =>
            Holds(new[p], i * w + 1, SerializeRow(s, R2[Id(p, i)]))
    BY <1>1 DEF w
<1>5. ASSUME NEW n \in 1 .. Len(pgs) PROVE FixedPage(s, new[n], n, R2, X2)
    <2>1. ASSUME NEW j \in Slots(w)
          PROVE  /\ new[n][j * w] # 0 <=> Id(n, j) \in DOMAIN R2 \cup X2
                 /\ Id(n, j) \in DOMAIN R2 =>
                       Holds(new[n], j * w + 1, SerializeRow(s, R2[Id(n, j)]))
        <3>1. CASE n # p \/ j # i
            BY <1>3, <3>1
        <3>2. CASE n = p /\ j = i
            BY <1>4, <3>2
        <3> QED
            BY <3>1, <3>2
    <2> QED
        BY <2>1 DEF FixedPage, w
<1>6. ASSUME NEW id \in DOMAIN R2 \cup X2
      PROVE  \E n \in 1 .. Len(pgs), j \in Slots(w) : id = Id(n, j)
    <2>1. CASE id = Id(p, i)
        BY <2>1 DEF w
    <2>2. CASE id # Id(p, i)
        <3>1. id \in DOMAIN R \cup X
            BY <2>2 DEF Except, Apart
        <3> QED
            BY <3>1 DEF FixedPages, w
    <2> QED
        BY <2>1, <2>2
<1>7. DOMAIN R2 \cap X2 = {}
    <2>1. ASSUME NEW x, x \in DOMAIN R2, x \in X2 PROVE FALSE
        <3>1. x # Id(p, i)
            BY <2>1
        <3>2. x \in DOMAIN R /\ x \in X
            BY <2>1, <3>1 DEF Except, Apart
        <3> QED
            BY <3>2 DEF FixedPages
    <2> QED
        BY <2>1
<1>8. FixedPages(s, new, R2, X2)
    BY <1>1, <1>5, <1>6, <1>7 DEF FixedPages, w
<1> QED
    BY <1>8 DEF new

\* R with the row r under a; R without a.
Added(R, a, r) == [x \in DOMAIN R \cup {a} |-> IF x = a THEN r ELSE R[x]]
Removed(R, a) == [x \in DOMAIN R \ {a} |-> R[x]]

LEMMA RowPut ==
    ASSUME NEW s, ~HasString(s), NEW pgs \in Seq(Page), NEW p \in 1 .. Len(pgs),
           NEW i \in Slots(SlotOf(s)), pgs[p][i * SlotOf(s)] = 0,
           NEW R, NEW X, FixedPages(s, pgs, R, X),
           \A id \in DOMAIN R : OfSchema(s, R[id]),
           NEW r, OfSchema(s, r),
           NEW q, q = With(pgs[p], i * SlotOf(s), << 1 >> \o SerializeRow(s, r))
    PROVE  /\ q \in Page /\ Id(p, i) \notin DOMAIN R \cup X
           /\ FixedPages(s, [pgs EXCEPT ![p] = q], Added(R, Id(p, i), r), X)
<1> DEFINE w == SlotOf(s)
           t == SerializeRow(s, r)
           a == Id(p, i)
           R2 == Added(R, a, r)
<1>1. w \in Nat \ {0} /\ t \in Seq(Cell) /\ Len(t) + 1 <= w
    BY RowFits
<1>2. pgs[p] \in Page
    OBVIOUS
<1>3. q = With(pgs[p], i * w, << 1 >> \o t) /\ i \in Slots(w)
    OBVIOUS
<1>4. FixedPage(s, pgs[p], p, R, X)
    BY DEF FixedPages
<1>5. a \notin DOMAIN R \cup X
    BY <1>4 DEF FixedPage
<1>6. a \in DOMAIN R2 /\ R2[a] = r
    BY DEF Added
<1>7. Except(R, R2, a) /\ Apart(X, X, a)
    BY DEF Except, Apart, Added
<1> HIDE DEF w, t, R2
<1>8. /\ q \in Page /\ q[i * w] = 1 /\ Holds(q, i * w + 1, t)
      /\ \A j \in Slots(w) : j # i => \A n \in InSlot(w, j) : q[n] = pgs[p][n]
    BY <1>1, <1>2, <1>3, SlotFilled
<1>9. FixedPages(s, [pgs EXCEPT ![p] = q], R2, X)
    <2>1. q[i * w] # 0 <=> a \in DOMAIN R2 \cup X
        BY <1>6, <1>8
    <2>2. a \in DOMAIN R2 => Holds(q, i * w + 1, SerializeRow(s, R2[a]))
        BY <1>6, <1>8 DEF t
    <2>3. ~(a \in DOMAIN R2 /\ a \in X)
        BY <1>5
    <2> QED
        BY <1>1, <1>7, <1>8, <2>1, <2>2, <2>3, SlotChanged DEF w
<1> QED
    BY <1>5, <1>8, <1>9 DEF R2

\* A slot with a flag set and no row inserted.
LEMMA PhantomPut ==
    ASSUME NEW s, ~HasString(s), SlotOf(s) \in Nat \ {0},
           NEW pgs \in Seq(Page), NEW p \in 1 .. Len(pgs),
           NEW i \in Slots(SlotOf(s)), pgs[p][i * SlotOf(s)] = 0,
           NEW R, NEW X, FixedPages(s, pgs, R, X),
           \A id \in DOMAIN R : OfSchema(s, R[id]),
           NEW t \in Seq(Cell), Len(t) + 1 <= SlotOf(s),
           NEW q, q = With(pgs[p], i * SlotOf(s), << 1 >> \o t)
    PROVE  /\ q \in Page
           /\ FixedPages(s, [pgs EXCEPT ![p] = q], R, X \cup {Id(p, i)})
<1> DEFINE w == SlotOf(s)
           a == Id(p, i)
           X2 == X \cup {a}
<1>1. pgs[p] \in Page
    OBVIOUS
<1>2. q = With(pgs[p], i * w, << 1 >> \o t) /\ i \in Slots(w) /\ w \in Nat \ {0}
      /\ Len(t) + 1 <= w
    OBVIOUS
<1>3. FixedPage(s, pgs[p], p, R, X)
    BY DEF FixedPages
<1>4. a \notin DOMAIN R \cup X
    BY <1>3 DEF FixedPage
<1>5. Except(R, R, a) /\ Apart(X, X2, a) /\ a \in X2
    BY DEF Except, Apart
<1> HIDE DEF w, X2
<1>6. /\ q \in Page /\ q[i * w] = 1
      /\ \A j \in Slots(w) : j # i => \A n \in InSlot(w, j) : q[n] = pgs[p][n]
    BY <1>1, <1>2, SlotFilled
<1>7. FixedPages(s, [pgs EXCEPT ![p] = q], R, X2)
    <2>1. q[i * w] # 0 <=> a \in DOMAIN R \cup X2
        BY <1>5, <1>6
    <2>2. a \in DOMAIN R => Holds(q, i * w + 1, SerializeRow(s, R[a]))
        BY <1>4
    <2>3. ~(a \in DOMAIN R /\ a \in X2)
        BY <1>4
    <2> QED
        BY <1>2, <1>5, <1>6, <2>1, <2>2, <2>3, SlotChanged DEF w
<1> QED
    BY <1>6, <1>7 DEF X2

LEMMA RowTaken ==
    ASSUME NEW s, ~HasString(s), SlotOf(s) \in Nat \ {0},
           NEW pgs \in Seq(Page), NEW p \in 1 .. Len(pgs),
           NEW i \in Slots(SlotOf(s)),
           NEW R, NEW X, FixedPages(s, pgs, R, X), Id(p, i) \in DOMAIN R,
           \A id \in DOMAIN R : OfSchema(s, R[id]),
           NEW q, q = Cleared(pgs[p], i * SlotOf(s))
    PROVE  /\ q \in Page
           /\ FixedPages(s, [pgs EXCEPT ![p] = q], Removed(R, Id(p, i)), X)
<1> DEFINE w == SlotOf(s)
           a == Id(p, i)
           R2 == Removed(R, a)
<1>1. pgs[p] \in Page
    OBVIOUS
<1>2. q = Cleared(pgs[p], i * w) /\ i \in Slots(w) /\ w \in Nat \ {0}
    OBVIOUS
<1>3. a \notin X
    BY DEF FixedPages
<1>4. a \notin DOMAIN R2
    BY DEF Removed
<1>5. Except(R, R2, a) /\ Apart(X, X, a)
    BY DEF Except, Apart, Removed
<1> HIDE DEF w, R2
<1>6. /\ q \in Page /\ q[i * w] = 0
      /\ \A j \in Slots(w) : j # i => \A n \in InSlot(w, j) : q[n] = pgs[p][n]
    BY <1>1, <1>2, SlotEmptied
<1>7. FixedPages(s, [pgs EXCEPT ![p] = q], R2, X)
    <2>1. q[i * w] # 0 <=> a \in DOMAIN R2 \cup X
        BY <1>3, <1>4, <1>6
    <2>2. a \in DOMAIN R2 => Holds(q, i * w + 1, SerializeRow(s, R2[a]))
        BY <1>4
    <2>3. ~(a \in DOMAIN R2 /\ a \in X)
        BY <1>3
    <2> QED
        BY <1>2, <1>5, <1>6, <2>1, <2>2, <2>3, SlotChanged DEF w
<1> QED
    BY <1>6, <1>7 DEF R2

\* A page of a table with strings is written: the rows of R2 on it are those it
\* counts, the ones that were there where they were.
LEMMA PageChanged ==
    ASSUME NEW s, NEW pgs \in Seq(Page), NEW p \in 1 .. Len(pgs), NEW q \in Page,
           NEW R, NEW R2, FlexiblePages(s, pgs, R), NEW a,
           a = Id(p, Count(pgs[p])), Room(pgs[p]),
           Except(R, R2, a),
           FlexiblePage(s, q, p, R2)
    PROVE  FlexiblePages(s, [pgs EXCEPT ![p] = q], R2)
<1> DEFINE new == [pgs EXCEPT ![p] = q]
<1>1. Len(new) = Len(pgs) /\ \A n \in 1 .. Len(pgs) : new[n] = IF n = p THEN q ELSE pgs[n]
    OBVIOUS
<1>2. /\ Len(pgs) \in Nat /\ p \in Int /\ \A n \in 1 .. Len(pgs) : n \in Int
    OBVIOUS
<1> HIDE DEF new
<1>3. ASSUME NEW n \in 1 .. Len(pgs) PROVE FlexiblePage(s, new[n], n, R2)
    <2>1. CASE n = p
        BY <1>1, <2>1
    <2>2. CASE n # p
        <3>1. FlexiblePage(s, pgs[n], n, R)
            BY DEF FlexiblePages
        <3>2. ASSUME NEW j \in 0 .. PageSize - 1
              PROVE  /\ Id(n, j) \in DOMAIN R2 <=> Id(n, j) \in DOMAIN R
                     /\ Id(n, j) \in DOMAIN R => R2[Id(n, j)] = R[Id(n, j)]
            <4>1. Id(n, j) # a
                BY <1>2, <2>2, IdsApart
            <4> QED
                BY <4>1 DEF Except
        <3>3. new[n] = pgs[n]
            BY <1>1, <2>2
        <3> QED
            BY <3>1, <3>2, <3>3 DEF FlexiblePage
    <2> QED
        BY <2>1, <2>2
<1>4. ASSUME NEW id \in DOMAIN R2
      PROVE  \E n \in 1 .. Len(pgs), j \in 0 .. PageSize - 1 : id = Id(n, j)
    <2>1. CASE id = a
        BY <2>1 DEF Room
    <2>2. CASE id # a
        <3>1. id \in DOMAIN R
            BY <2>2 DEF Except
        <3> QED
            BY <3>1 DEF FlexiblePages
    <2> QED
        BY <2>1, <2>2
<1>5. FlexiblePages(s, new, R2)
    BY <1>1, <1>3, <1>4 DEF FlexiblePages
<1> QED
    BY <1>5 DEF new

\* The row that is added is the one behind those the page counts.
LEMMA RowCounted ==
    ASSUME NEW s, NEW pgs \in Seq(Page), NEW p \in 1 .. Len(pgs), Room(pgs[p]),
           NEW R, FlexiblePages(s, pgs, R), \A id \in DOMAIN R : OfSchema(s, R[id]),
           NEW q \in Page, NEW r, OfSchema(s, r),
           Count(pgs[p]) + 1 \in 0 .. PageSize - 1,
           PrevSum(pgs[p], Count(pgs[p])) <= PageSize,
           Count(q) = Count(pgs[p]) + 1,
           Keeps(pgs[p], q, Count(pgs[p])),
           RowLength(q, Count(pgs[p])) = RowSpace(s, r),
           Holds(q, PageSize - PrevSum(q, Count(pgs[p]) + 1), SerializeRow(s, r))
    PROVE  /\ Id(p, Count(pgs[p])) \notin DOMAIN R
           /\ FlexiblePages(s, [pgs EXCEPT ![p] = q], Added(R, Id(p, Count(pgs[p])), r))
<1> DEFINE page == pgs[p]
           a == Id(p, Count(page))
           R2 == Added(R, a, r)
<1>1. PICK n \in 0 .. PageSize - 1 : n = Count(page)
    BY DEF Room
<1>2. page \in Page /\ p \in Int
    OBVIOUS
<1>3. FlexiblePage(s, page, p, R)
    BY DEF FlexiblePages
<1>4. a \notin DOMAIN R
    <2>1. n < Count(page) <=> Id(p, n) \in DOMAIN R
        BY <1>3 DEF FlexiblePage
    <2> QED
        BY <1>1, <2>1
<1>5. a \in DOMAIN R2 /\ R2[a] = r /\ Except(R, R2, a)
    BY DEF Added, Except
<1>6. /\ n + 1 \in 0 .. PageSize - 1 /\ PrevSum(page, n) <= PageSize
      /\ Count(q) = n + 1 /\ Keeps(page, q, n) /\ RowLength(q, n) = RowSpace(s, r)
      /\ Holds(q, PageSize - PrevSum(q, n + 1), SerializeRow(s, r))
      /\ a = Id(p, n) /\ Room(page)
    BY <1>1
<1> HIDE DEF page, R2
<1>7. ASSUME NEW j \in 0 .. PageSize - 1
      PROVE  /\ j < Count(q) <=> Id(p, j) \in DOMAIN R2
             /\ Id(p, j) \in DOMAIN R2 =>
                   /\ RowLength(q, j) = RowSpace(s, R2[Id(p, j)])
                   /\ Holds(q, PageSize - PrevSum(q, j + 1), SerializeRow(s, R2[Id(p, j)]))
    <2>1. CASE j = n
        <3>1. Id(p, j) = a /\ j < Count(q)
            BY <1>6, <2>1
        <3> QED
            BY <1>5, <1>6, <2>1, <3>1
    <2>2. CASE j # n
        <3>1. Id(p, j) # a
            BY <1>2, <1>6, <2>2, IdsApart
        <3>2. /\ Id(p, j) \in DOMAIN R2 <=> Id(p, j) \in DOMAIN R
              /\ Id(p, j) \in DOMAIN R => R2[Id(p, j)] = R[Id(p, j)]
            BY <1>5, <3>1 DEF Except
        <3>3. /\ j < n <=> Id(p, j) \in DOMAIN R
              /\ Id(p, j) \in DOMAIN R =>
                    /\ RowLength(page, j) = RowSpace(s, R[Id(p, j)])
                    /\ Holds(page, PageSize - PrevSum(page, j + 1),
                             SerializeRow(s, R[Id(p, j)]))
            BY <1>1, <1>3 DEF FlexiblePage
        <3>4. j < Count(q) <=> j < n
            BY <1>6, <2>2
        <3>5. ASSUME Id(p, j) \in DOMAIN R
              PROVE  /\ RowLength(q, j) = RowSpace(s, R[Id(p, j)])
                     /\ Holds(q, PageSize - PrevSum(q, j + 1), SerializeRow(s, R[Id(p, j)]))
            <4> DEFINE t == SerializeRow(s, R[Id(p, j)])
            <4>1. j \in 0 .. n - 1
                BY <3>3, <3>5
            <4>2. Len(t) \in Nat /\ Len(t) = RowSpace(s, R[Id(p, j)])
                BY <3>5, RowSpaceIs
            <4>3. Len(t) = RowLength(page, j) /\ Holds(page, PageSize - PrevSum(page, j + 1), t)
                BY <3>3, <3>5, <4>2
            <4> HIDE DEF t
            <4>4. RowLength(q, j) = Len(t) /\ Holds(q, PageSize - PrevSum(q, j + 1), t)
                BY <1>2, <1>6, <4>1, <4>2, <4>3, RowKept
            <4> QED
                BY <4>2, <4>4 DEF t
        <3> QED
            BY <3>2, <3>3, <3>4, <3>5
    <2> QED
        BY <2>1, <2>2
<1>8. FlexiblePage(s, q, p, R2)
    BY <1>7 DEF FlexiblePage
<1>9. FlexiblePages(s, [pgs EXCEPT ![p] = q], R2)
    <2>1. a = Id(p, Count(pgs[p])) /\ Room(pgs[p])
        BY DEF page
    <2> HIDE DEF a
    <2> QED
        BY <1>5, <1>8, <2>1, PageChanged
<1> QED
    BY <1>4, <1>9 DEF page, R2

\* What an insertRow that threw leaves is below the rows.
LEMMA RowsBelow ==
    ASSUME NEW s, NEW pgs \in Seq(Page), NEW p \in 1 .. Len(pgs), Room(pgs[p]),
           NEW R, FlexiblePages(s, pgs, R), \A id \in DOMAIN R : OfSchema(s, R[id]),
           NEW q \in Page, Count(q) = Count(pgs[p]),
           PrevSum(pgs[p], Count(pgs[p])) <= PageSize,
           Keeps(pgs[p], q, Count(pgs[p]))
    PROVE  FlexiblePages(s, [pgs EXCEPT ![p] = q], R)
<1> DEFINE page == pgs[p]
<1>1. PICK n \in 0 .. PageSize - 1 : n = Count(page)
    BY DEF Room
<1>2. page \in Page /\ p \in Int
    OBVIOUS
<1>3. FlexiblePage(s, page, p, R)
    BY DEF FlexiblePages
<1>4. PrevSum(page, n) <= PageSize /\ Count(q) = n /\ Keeps(page, q, n)
    BY <1>1
<1> HIDE DEF page
<1>5. ASSUME NEW j \in 0 .. PageSize - 1
      PROVE  /\ j < Count(q) <=> Id(p, j) \in DOMAIN R
             /\ Id(p, j) \in DOMAIN R =>
                   /\ RowLength(q, j) = RowSpace(s, R[Id(p, j)])
                   /\ Holds(q, PageSize - PrevSum(q, j + 1), SerializeRow(s, R[Id(p, j)]))
    <2>1. /\ j < n <=> Id(p, j) \in DOMAIN R
          /\ Id(p, j) \in DOMAIN R =>
                /\ RowLength(page, j) = RowSpace(s, R[Id(p, j)])
                /\ Holds(page, PageSize - PrevSum(page, j + 1), SerializeRow(s, R[Id(p, j)]))
        BY <1>1, <1>3 DEF FlexiblePage
    <2>2. ASSUME Id(p, j) \in DOMAIN R
          PROVE  /\ RowLength(q, j) = RowSpace(s, R[Id(p, j)])
                 /\ Holds(q, PageSize - PrevSum(q, j + 1), SerializeRow(s, R[Id(p, j)]))
        <3> DEFINE t == SerializeRow(s, R[Id(p, j)])
        <3>1. j \in 0 .. n - 1
            BY <2>1, <2>2
        <3>2. Len(t) \in Nat /\ Len(t) = RowSpace(s, R[Id(p, j)])
            BY <2>2, RowSpaceIs
        <3>3. Len(t) = RowLength(page, j) /\ Holds(page, PageSize - PrevSum(page, j + 1), t)
            BY <2>1, <2>2, <3>2
        <3> HIDE DEF t
        <3>4. RowLength(q, j) = Len(t) /\ Holds(q, PageSize - PrevSum(q, j + 1), t)
            BY <1>2, <1>4, <3>1, <3>2, <3>3, RowKept
        <3> QED
            BY <3>2, <3>4 DEF t
    <2> QED
        BY <1>4, <2>1, <2>2
<1>6. FlexiblePage(s, q, p, R)
    BY <1>5 DEF FlexiblePage
<1> DEFINE a == Id(p, Count(pgs[p]))
<1>7. Except(R, R, a)
    BY DEF Except
<1> QED
    BY <1>6, <1>7, PageChanged

\* A page more.
LEMMA ZeroPage ==
    /\ Zero \in Page /\ Room(Zero) /\ Count(Zero) = 0
    /\ \A i \in 0 .. PageSize - 1 : Zero[i] = 0
<1>1. 0 \in 0 .. Byte - 1 /\ 0 \in 0 .. PageSize - 1
    BY ByteAssumption, PageAssumption
<1>2. Zero \in Page /\ \A i \in 0 .. PageSize - 1 : Zero[i] = 0
    BY <1>1 DEF Zero, Page
<1>3. Count(Zero) = 0
    BY <1>1, <1>2 DEF Count
<1>4. PrevSum(Zero, 0) = 0
    BY <1>2, PrevSums
<1>5. Room(Zero)
    BY <1>1, <1>3, <1>4, PageAssumption DEF Room
<1> QED
    BY <1>2, <1>3, <1>5

LEMMA FixedPagesGrow ==
    ASSUME NEW s, SlotOf(s) \in Nat \ {0}, NEW pgs \in Seq(Page),
           NEW R, NEW X, FixedPages(s, pgs, R, X)
    PROVE  FixedPages(s, Append(pgs, Zero), R, X)
<1> DEFINE new == Append(pgs, Zero)
           n == Len(pgs) + 1
<1>1. /\ Len(new) = n /\ \A p \in 1 .. Len(pgs) : new[p] = pgs[p]
      /\ new[n] = Zero /\ Len(pgs) \in Nat
    OBVIOUS
<1>2. \A p \in 1 .. n : p = n \/ p \in 1 .. Len(pgs)
    BY <1>1
<1>3. \A p \in 1 .. Len(pgs) : p # n /\ p \in Int /\ n \in Int /\ p \in 1 .. n
    BY <1>1
<1> HIDE DEF new, n
<1>4. ASSUME NEW i \in Slots(SlotOf(s))
      PROVE  Zero[i * SlotOf(s)] = 0 /\ Id(n, i) \notin DOMAIN R \cup X
    <2>1. i * SlotOf(s) \in Nat /\ i * SlotOf(s) + SlotOf(s) <= PageSize
        BY SlotsFit DEF Slots
    <2>2. i * SlotOf(s) \in 0 .. PageSize - 1
        <3> DEFINE b == i * SlotOf(s)
        <3> HIDE DEF b
        <3>1. b \in Nat /\ b + SlotOf(s) <= PageSize
            BY <2>1 DEF b
        <3>2. b \in 0 .. PageSize - 1
            BY <3>1, PageAssumption
        <3> QED
            BY <3>2 DEF b
    <2>3. Zero[i * SlotOf(s)] = 0
        BY <2>2, ZeroPage
    <2>4. ASSUME Id(n, i) \in DOMAIN R \cup X PROVE FALSE
        <3>1. PICK p \in 1 .. Len(pgs), j \in Slots(SlotOf(s)) : Id(n, i) = Id(p, j)
            BY <2>4 DEF FixedPages
        <3> QED
            BY <1>3, <3>1, IdsApart
    <2> QED
        BY <2>3, <2>4
<1>5. FixedPage(s, Zero, n, R, X)
    BY <1>4 DEF FixedPage
<1>6. \A p \in 1 .. n : FixedPage(s, new[p], p, R, X)
    BY <1>1, <1>2, <1>5 DEF FixedPages
<1>7. FixedPages(s, new, R, X)
    BY <1>1, <1>3, <1>6 DEF FixedPages
<1> QED
    BY <1>7 DEF new

LEMMA FlexiblePagesGrow ==
    ASSUME NEW s, NEW pgs \in Seq(Page), NEW R, FlexiblePages(s, pgs, R)
    PROVE  FlexiblePages(s, Append(pgs, Zero), R)
<1> DEFINE new == Append(pgs, Zero)
           n == Len(pgs) + 1
<1>1. /\ Len(new) = n /\ \A p \in 1 .. Len(pgs) : new[p] = pgs[p]
      /\ new[n] = Zero /\ Len(pgs) \in Nat
    OBVIOUS
<1>2. \A p \in 1 .. n : p = n \/ p \in 1 .. Len(pgs)
    BY <1>1
<1>3. \A p \in 1 .. Len(pgs) : p # n /\ p \in Int /\ n \in Int /\ p \in 1 .. n
    BY <1>1
<1> HIDE DEF new, n
<1>4. ASSUME NEW i \in 0 .. PageSize - 1
      PROVE  ~(i < Count(Zero)) /\ Id(n, i) \notin DOMAIN R
    <2>1. ~(i < Count(Zero))
        BY ZeroPage
    <2>2. ASSUME Id(n, i) \in DOMAIN R PROVE FALSE
        <3>1. PICK p \in 1 .. Len(pgs), j \in 0 .. PageSize - 1 : Id(n, i) = Id(p, j)
            BY <2>2 DEF FlexiblePages
        <3> QED
            BY <1>3, <3>1, IdsApart
    <2> QED
        BY <2>1, <2>2
<1>5. FlexiblePage(s, Zero, n, R)
    BY <1>4 DEF FlexiblePage
<1>6. \A p \in 1 .. n : FlexiblePage(s, new[p], p, R)
    BY <1>1, <1>2, <1>5 DEF FlexiblePages
<1>7. FlexiblePages(s, new, R)
    BY <1>1, <1>3, <1>6 DEF FlexiblePages
<1> QED
    BY <1>7 DEF new

-----------------------------------------------------------------------------
(* The steps                                                               *)

LEMMA InvFacts ==
    ASSUME StringsFit, Inv
    PROVE  /\ schema \in Schemas /\ SoundSchema(schema)
           /\ Flexible <=> HasString(schema)
           /\ SlotSpace = SlotOf(schema) /\ SlotOf(schema) \in Nat \ {0}
           /\ Capacity = PageSize \div SlotOf(schema)
           /\ \A id \in DOMAIN rows : OfSchema(schema, rows[id])
           /\ inserting # NoRow => OfSchema(schema, inserting)
<1>1. /\ schema \in Schemas
      /\ \A id \in DOMAIN rows : rows[id] \in RowsOf[schema]
      /\ inserting \in RowsOf[schema] \cup {NoRow}
    BY DEF Inv, TypeOK
<1>2. SoundSchema(schema)
    BY <1>1, SoundSchemas
<1>3. Flexible <=> HasString(schema)
    BY DEF Flexible, HasString
<1>4. SlotSpace = SlotOf(schema) /\ Capacity = PageSize \div SlotOf(schema)
    BY DEF SlotSpace, SlotOf, Capacity
<1>5. SlotOf(schema) \in Nat \ {0}
    <2>1. /\ Len(schema) \in Nat \ {0} /\ DOMAIN schema = 1 .. Len(schema)
          /\ \A i \in 1 .. Len(schema) : schema[i].length \in Nat
        BY <1>2 DEF SoundSchema, SoundColumn
    <2>2. FixedRowSpace(schema, 0) \in Nat \ {0}
        BY <2>1, FixedSpace
    <2> QED
        BY <2>2 DEF SlotOf
<1>6. /\ \A id \in DOMAIN rows : OfSchema(schema, rows[id])
      /\ inserting # NoRow => OfSchema(schema, inserting)
    BY <1>1, RowsOfSchemas
<1> QED
    BY <1>1, <1>2, <1>3, <1>4, <1>5, <1>6

\* What a round of insertRow works on.
LEMMA AllocatedFacts ==
    ASSUME StringsFit, Inv
    PROVE  /\ Allocated \in Seq(Page) /\ current + 1 \in 1 .. Len(Allocated)
           /\ Tried \in Page /\ Tried = Allocated[current + 1]
           /\ Len(pages) \in Nat /\ Len(Allocated) \in Nat /\ Len(pages) <= Len(Allocated)
           /\ ~Flexible => FixedPages(schema, Allocated, rows, phantoms)
           /\ Flexible =>
                 /\ \A p \in 1 .. Len(Allocated) : Room(Allocated[p])
                 /\ Room(Tried)
                 /\ ~damaged => FlexiblePages(schema, Allocated, rows)
<1>1. /\ pages \in Seq(Page) /\ current \in 0 .. Len(pages) /\ Len(pages) \in Nat
    BY DEF Inv, TypeOK
<1>2. SlotOf(schema) \in Nat \ {0}
    BY InvFacts
<1>3. CASE current # Len(pages)
    <2>1. Allocated = pages
        BY <1>3 DEF Allocated
    <2>2. current + 1 \in 1 .. Len(pages)
        BY <1>1, <1>3
    <2>3. Tried = pages[current + 1] /\ pages[current + 1] \in Page
        BY <1>1, <2>1, <2>2 DEF Tried
    <2> QED
        BY <1>1, <2>1, <2>2, <2>3 DEF Inv
<1>4. CASE current = Len(pages)
    <2> DEFINE new == Append(pages, Zero)
    <2>1. Allocated = new
        BY <1>4 DEF Allocated
    <2>2. /\ new \in Seq(Page) /\ Len(new) = Len(pages) + 1
          /\ new[Len(pages) + 1] = Zero
          /\ \A p \in 1 .. Len(pages) : new[p] = pages[p]
        BY <1>1, ZeroPage
    <2>3. ~Flexible => FixedPages(schema, new, rows, phantoms)
        BY <1>1, <1>2, FixedPagesGrow DEF Inv
    <2>4. Flexible => \A p \in 1 .. Len(new) : Room(new[p])
        <3>1. \A p \in 1 .. Len(new) : p = Len(pages) + 1 \/ p \in 1 .. Len(pages)
            BY <1>1, <2>2
        <3> QED
            BY <2>2, <3>1, ZeroPage DEF Inv
    <2>5. Flexible /\ ~damaged => FlexiblePages(schema, new, rows)
        BY <1>1, FlexiblePagesGrow DEF Inv
    <2> HIDE DEF new
    <2>6. current + 1 \in 1 .. Len(new) /\ Len(new) \in Nat /\ Len(pages) <= Len(new)
        BY <1>1, <1>4, <2>2
    <2>7. Tried = Zero
        BY <1>4, <2>1, <2>2 DEF Tried
    <2> QED
        BY <1>1, <1>4, <2>1, <2>2, <2>3, <2>4, <2>5, <2>6, <2>7, ZeroPage DEF Tried
<1> QED
    BY <1>3, <1>4

\* A row number on a page.
LEMMA RowNumbers ==
    ASSUME StringsFit, Inv
    PROVE  /\ \A i \in 0 .. Capacity - 1 : i \in Slots(SlotOf(schema))
                                           /\ i \in 0 .. PageSize - 1
           /\ \A i \in Slots(SlotOf(schema)) : i \in 0 .. Capacity - 1
<1>1. SlotOf(schema) \in Nat \ {0} /\ Capacity = PageSize \div SlotOf(schema)
    BY InvFacts
<1> DEFINE w == SlotOf(schema)
<1> HIDE DEF w
<1>2. w \in Nat \ {0} /\ Capacity = PageSize \div w
    BY <1>1 DEF w
<1>3. ASSUME NEW i \in 0 .. Capacity - 1 PROVE i \in 0 .. PageSize - 1
    <2>1. i * w \in Nat /\ i * w + w <= PageSize /\ i \in Nat
        BY <1>2, SlotsFit
    <2>2. PICK d \in Nat : w = 1 + d
        <3>1. w - 1 \in Nat /\ w = 1 + (w - 1)
            BY <1>2
        <3> QED
            BY <3>1
    <2>3. i * w = i + i * d /\ i * d \in Nat
        BY <2>1, <2>2
    <2> DEFINE x == i * w
               y == i * d
    <2>4. x = i + y /\ y \in Nat /\ x + w <= PageSize /\ x \in Nat
        BY <2>1, <2>3
    <2> HIDE DEF x, y
    <2> QED
        BY <1>2, <2>1, <2>4, PageAssumption
<1> QED
    BY <1>2, <1>3 DEF Slots, w

LEMMA InitInv == Init => Inv
<1> SUFFICES ASSUME Init PROVE Inv
    OBVIOUS
<1>1. schema \in Schemas
    <2>1. PICK s \in Schemas : schema = DeserializeSchema(SchemaText(s))
        BY DEF Init
    <2> QED
        BY <2>1, SoundSchemas, SchemaSent
<1>2. pages = <<>> /\ Len(pages) = 0 /\ pages \in Seq(Page)
    BY DEF Init
<1>3. rows = <<>> /\ DOMAIN rows = {} /\ IsFiniteSet(DOMAIN rows)
    BY FS_EmptySet DEF Init
<1>4. TypeOK /\ current <= MaxInserts
    <2>1. MaxInserts \in Nat /\ MaxThrows \in Nat
        BY InsertsAssumption
    <2>2. /\ current = 0 /\ inserting = NoRow /\ aborted = FALSE /\ damaged = FALSE
          /\ phantoms = {} /\ inserts = 0 /\ throws = 0
        BY DEF Init
    <2>3. DOMAIN rows \subseteq RowIdType /\ \A id \in DOMAIN rows : rows[id] \in RowsOf[schema]
        BY <1>3
    <2>4. current \in 0 .. Len(pages) /\ inserts \in 0 .. MaxInserts /\ throws \in 0 .. MaxThrows
          /\ current <= MaxInserts
        BY <1>2, <2>1, <2>2
    <2> QED
        BY <1>1, <1>2, <2>2, <2>3, <2>4 DEF TypeOK
<1>5. phantoms = {} /\ \A p : p \notin 1 .. Len(pages)
    BY <1>2 DEF Init
<1>6. FixedPages(schema, pages, rows, phantoms)
    BY <1>3, <1>5 DEF FixedPages
<1>7. FlexiblePages(schema, pages, rows)
    BY <1>3, <1>5 DEF FlexiblePages
<1> QED
    BY <1>3, <1>4, <1>5, <1>6, <1>7 DEF Inv

\* A step that leaves the pages and the rows alone.
LEMMA SamePages ==
    ASSUME Inv, UNCHANGED <<schema, pages, rows, phantoms, damaged>>, TypeOK',
           current' <= MaxInserts
    PROVE  Inv'
<1>1. Flexible' <=> Flexible
    BY DEF Flexible
<1> QED
    BY <1>1 DEF Inv

LEMMA InsertRowKeeps ==
    ASSUME StringsFit, Inv, NEW row \in RowsOf[schema], InsertRow(row)
    PROVE  Inv'
<1>1. AddSerializedRow(schema, RowText(schema, row)) = row
    <2>1. OfSchema(schema, row)
        BY InvFacts, RowsOfSchemas
    <2> QED
        BY <2>1, RowSent
<1>2. inserting' \in RowsOf[schema]
    BY <1>1 DEF InsertRow
<1>3. inserts' \in 0 .. MaxInserts
    BY InsertsAssumption DEF InsertRow, Inv, TypeOK
<1>4. TypeOK'
    BY <1>2, <1>3 DEF InsertRow, Inv, TypeOK
<1> QED
    BY <1>4, SamePages DEF InsertRow, Inv

\* What putting a row on the page that is tried leaves.
LEMMA InsertedFacts ==
    ASSUME StringsFit, Inv, inserting # NoRow, damaged' \in BOOLEAN,
           NEW i \in 0 .. PageSize - 1, NEW page \in Page, InsertedAt(i, page)
    PROVE  /\ TypeOK' /\ current' <= MaxInserts /\ IsFiniteSet(DOMAIN rows')
           /\ Flexible' <=> Flexible
           /\ pages' = [Allocated EXCEPT ![current + 1] = page]
           /\ rows' = Added(rows, Id(current + 1, i), inserting)
           /\ schema' = schema /\ phantoms' = phantoms
<1> DEFINE id == [page |-> current, row |-> i]
           p == current + 1
<1>1. /\ pages' = [Allocated EXCEPT ![p] = page]
      /\ rows' = [x \in DOMAIN rows \cup {id} |-> IF x = id THEN inserting ELSE rows[x]]
      /\ inserting' = NoRow
      /\ UNCHANGED <<schema, current, aborted, phantoms, inserts, throws>>
    BY DEF InsertedAt
<1>2. /\ current \in Nat /\ current <= MaxInserts /\ MaxInserts \in Nat
      /\ current \in 0 .. Len(pages)
    <2>1. current \in 0 .. Len(pages) /\ pages \in Seq(Page) /\ current <= MaxInserts
        BY DEF Inv, TypeOK
    <2> QED
        BY <2>1, InsertsAssumption
<1>3. id = Id(p, i)
    <2>1. p - 1 = current
        BY <1>2
    <2> QED
        BY <2>1 DEF Id
<1>4. rows' = Added(rows, Id(p, i), inserting)
    BY <1>1, <1>3 DEF Added
<1>5. /\ Allocated \in Seq(Page) /\ p \in 1 .. Len(Allocated) /\ Len(pages) <= Len(Allocated)
      /\ Len(pages) \in Nat /\ Len(Allocated) \in Nat
    BY AllocatedFacts
<1>6. pages' \in Seq(Page) /\ Len(pages') = Len(Allocated)
    BY <1>1, <1>5
<1>7. current' \in 0 .. Len(pages')
    BY <1>1, <1>2, <1>5, <1>6
<1>8. id \in RowIdType
    <2>1. current \in 0 .. MaxInserts
        BY <1>2
    <2> QED
        BY <2>1 DEF RowIdType
<1>9. DOMAIN rows' = DOMAIN rows \cup {id}
    BY <1>1
<1>10. IsFiniteSet(DOMAIN rows')
    BY <1>9, FS_AddElement DEF Inv
<1>11. /\ DOMAIN rows \subseteq RowIdType
       /\ \A x \in DOMAIN rows : rows[x] \in RowsOf[schema]
       /\ inserting \in RowsOf[schema]
    BY DEF Inv, TypeOK
<1>12. DOMAIN rows' \subseteq RowIdType /\ \A x \in DOMAIN rows' : rows'[x] \in RowsOf[schema]
    BY <1>1, <1>8, <1>9, <1>11
<1>13. TypeOK'
    BY <1>1, <1>6, <1>7, <1>12 DEF Inv, TypeOK
<1>14. Flexible' <=> Flexible
    BY <1>1 DEF Flexible
<1> QED
    BY <1>1, <1>2, <1>4, <1>10, <1>13, <1>14

LEMMA InsertFixedKeeps ==
    ASSUME StringsFit, Inv, InsertFixed
    PROVE  /\ Inv'
           /\ \E id : /\ id \notin DOMAIN rows \cup phantoms
                      /\ rows' = Added(rows, id, inserting) /\ phantoms' = phantoms
<1> DEFINE p == current + 1
           w == SlotOf(schema)
<1>1. PICK i \in 0 .. Capacity - 1 :
        FreeSlot(Tried, i) /\ InsertedAt(i, FixedWith(Tried, i, inserting))
    BY DEF InsertFixed
<1>2. inserting # NoRow /\ ~Flexible /\ damaged' = damaged /\ damaged \in BOOLEAN
    BY DEF InsertFixed, Inv, TypeOK
<1>3. i \in Slots(w) /\ i \in 0 .. PageSize - 1
    BY RowNumbers
<1>4. /\ ~HasString(schema) /\ SlotSpace = w /\ OfSchema(schema, inserting)
      /\ \A id \in DOMAIN rows : OfSchema(schema, rows[id])
    BY <1>2, InvFacts
<1>5. /\ Allocated \in Seq(Page) /\ p \in 1 .. Len(Allocated)
      /\ Tried = Allocated[p] /\ FixedPages(schema, Allocated, rows, phantoms)
    BY <1>2, AllocatedFacts
<1> DEFINE page == FixedWith(Tried, i, inserting)
<1>6. /\ page = With(Allocated[p], i * w, << 1 >> \o SerializeRow(schema, inserting))
      /\ Allocated[p][i * w] = 0
    BY <1>1, <1>4, <1>5 DEF FixedWith, FreeSlot, Flag
<1> HIDE DEF page, p, w
<1>7. /\ page \in Page /\ Id(p, i) \notin DOMAIN rows \cup phantoms
      /\ FixedPages(schema, [Allocated EXCEPT ![p] = page],
                    Added(rows, Id(p, i), inserting), phantoms)
    BY <1>3, <1>4, <1>5, <1>6, RowPut DEF w
<1>8. InsertedAt(i, page) /\ damaged' \in BOOLEAN
    BY <1>1, <1>2 DEF page
<1>9. /\ TypeOK' /\ current' <= MaxInserts /\ IsFiniteSet(DOMAIN rows')
      /\ Flexible' <=> Flexible
      /\ pages' = [Allocated EXCEPT ![p] = page]
      /\ rows' = Added(rows, Id(p, i), inserting)
      /\ schema' = schema /\ phantoms' = phantoms
    BY <1>2, <1>3, <1>7, <1>8, InsertedFacts DEF p
<1>10. FixedPages(schema', pages', rows', phantoms')
    BY <1>7, <1>9
<1>11. Inv'
    BY <1>2, <1>9, <1>10 DEF Inv
<1> QED
    BY <1>7, <1>9, <1>11

LEMMA InsertFlexibleKeeps ==
    ASSUME StringsFit, Inv, InsertFlexible
    PROVE  /\ Inv'
           /\ ~damaged' => \E id : /\ id \notin DOMAIN rows \cup phantoms
                                   /\ rows' = Added(rows, id, inserting)
                                   /\ phantoms' = phantoms
<1> DEFINE p == current + 1
           n == Count(Tried)
           space == RowSpace(schema, inserting)
           t == SerializeRow(schema, inserting)
           page == FlexibleWith(Tried, inserting)
<1>1. /\ inserting # NoRow /\ Flexible /\ HasSpace(Tried, inserting) /\ space < Byte
      /\ InsertedAt(n, page)
      /\ damaged' = (damaged \/ n + 1 = Byte)
    BY DEF InsertFlexible
<1>2. damaged \in BOOLEAN /\ damaged' \in BOOLEAN
    <2>1. damaged \in BOOLEAN
        BY DEF Inv, TypeOK
    <2> QED
        BY <1>1, <2>1
<1>3. /\ Allocated \in Seq(Page) /\ p \in 1 .. Len(Allocated)
      /\ Tried = Allocated[p] /\ Tried \in Page /\ Room(Tried)
      /\ \A q \in 1 .. Len(Allocated) : Room(Allocated[q])
      /\ ~damaged => FlexiblePages(schema, Allocated, rows)
    BY <1>1, AllocatedFacts
<1>4. /\ OfSchema(schema, inserting)
      /\ \A id \in DOMAIN rows : OfSchema(schema, rows[id])
    BY <1>1, InvFacts
<1>5. t \in Seq(Cell) /\ Len(t) = space /\ space \in Nat \ {0} /\ space \in Cell
    <2>1. t \in Seq(Cell) /\ Len(t) = space /\ space \in Nat \ {0}
        BY <1>4, RowWritten, RowSpaceIs
    <2> HIDE DEF space
    <2>2. space \in Cell
        BY <1>1, <2>1, ByteAssumption DEF Cell
    <2> QED
        BY <2>1, <2>2
<1>6. n \in 0 .. PageSize - 1 /\ PrevSum(Tried, n) \in Nat
      /\ PrevSum(Tried, n) + space + 2 + n <= PageSize
    <2>1. n \in 0 .. PageSize - 1
        BY <1>3 DEF Room
    <2>2. PrevSum(Tried, n) \in Nat
        BY <1>3, <2>1, PrevSums
    <2> QED
        BY <1>1, <2>1, <2>2 DEF HasSpace
<1> DEFINE filled == With(Tried, PageSize - PrevSum(Tried, Count(Tried)) - space, t)
<1>7. page = Counted(filled, Count(Tried), space)
    BY DEF FlexibleWith, Counted
<1> HIDE DEF page, space, t, filled
<1>8. /\ page \in Page /\ Room(page)
      /\ n + 1 # Byte =>
           /\ Count(page) = n + 1 /\ Keeps(Tried, page, n)
           /\ RowLength(page, n) = space
           /\ Holds(page, PageSize - PrevSum(page, n + 1), t)
    <2>1. filled = With(Tried, PageSize - PrevSum(Tried, Count(Tried)) - space, t)
        BY DEF filled
    <2> QED
        BY <1>3, <1>5, <1>6, <1>7, <2>1, RowAdded
<1>9. /\ TypeOK' /\ current' <= MaxInserts /\ IsFiniteSet(DOMAIN rows')
      /\ Flexible' <=> Flexible
      /\ pages' = [Allocated EXCEPT ![p] = page]
      /\ rows' = Added(rows, Id(p, n), inserting)
      /\ schema' = schema /\ phantoms' = phantoms
    BY <1>1, <1>2, <1>6, <1>8, InsertedFacts
<1>10. phantoms = {}
    BY <1>1 DEF Inv
<1> HIDE DEF p
<1>11. \A q \in 1 .. Len(pages') : Room(pages'[q])
    <2> DEFINE new == [Allocated EXCEPT ![p] = page]
    <2>1. Len(new) = Len(Allocated)
          /\ \A q \in 1 .. Len(Allocated) : new[q] = IF q = p THEN page ELSE Allocated[q]
        BY <1>3
    <2>2. pages' = new
        BY <1>9
    <2> HIDE DEF new
    <2> QED
        BY <1>3, <1>8, <2>1, <2>2
<1>12. ASSUME ~damaged'
       PROVE  /\ Id(p, n) \notin DOMAIN rows
              /\ FlexiblePages(schema, [Allocated EXCEPT ![p] = page],
                               Added(rows, Id(p, n), inserting))
    <2>1. n + 1 # Byte /\ ~damaged
        BY <1>1, <1>12
    <2>2. FlexiblePages(schema, Allocated, rows)
        BY <1>3, <2>1
    <2>3. n + 1 \in 0 .. PageSize - 1 /\ PrevSum(Tried, n) <= PageSize
        <3> DEFINE m == PrevSum(Tried, n)
        <3>1. m \in Nat /\ m + space + 2 + n <= PageSize /\ n \in Nat /\ space \in Nat \ {0}
            BY <1>5, <1>6
        <3> HIDE DEF m, n
        <3>2. n + 1 \in 0 .. PageSize - 1 /\ m <= PageSize
            BY <3>1, PageAssumption
        <3> QED
            BY <3>2 DEF m
    <2> DEFINE a == Allocated[p]
    <2>4. /\ Count(a) + 1 \in 0 .. PageSize - 1 /\ PrevSum(a, Count(a)) <= PageSize
          /\ Count(page) = Count(a) + 1 /\ Keeps(a, page, Count(a))
          /\ RowLength(page, Count(a)) = RowSpace(schema, inserting)
          /\ Holds(page, PageSize - PrevSum(page, Count(a) + 1),
                   SerializeRow(schema, inserting))
          /\ Room(a) /\ Count(a) = n
        BY <1>3, <1>8, <2>1, <2>3 DEF space, t
    <2>5. /\ Id(p, Count(Allocated[p])) \notin DOMAIN rows
          /\ FlexiblePages(schema, [Allocated EXCEPT ![p] = page],
                           Added(rows, Id(p, Count(Allocated[p])), inserting))
        BY <1>3, <1>4, <1>8, <2>2, <2>4, RowCounted
    <2> QED
        BY <2>4, <2>5
<1>13. ~damaged' => FlexiblePages(schema', pages', rows')
    BY <1>9, <1>12
<1>14. Inv'
    BY <1>1, <1>9, <1>10, <1>11, <1>13 DEF Inv
<1> QED
    BY <1>9, <1>10, <1>12, <1>14

\* A page more, or none, and nothing else.
LEMMA AllocatedKeeps ==
    ASSUME StringsFit, Inv, pages' = Allocated, TypeOK', current' <= MaxInserts,
           UNCHANGED <<schema, rows, phantoms, damaged>>
    PROVE  Inv'
<1>1. Flexible' <=> Flexible
    BY DEF Flexible
<1>2. /\ ~Flexible => FixedPages(schema, Allocated, rows, phantoms)
      /\ Flexible =>
            /\ \A p \in 1 .. Len(Allocated) : Room(Allocated[p])
            /\ ~damaged => FlexiblePages(schema, Allocated, rows)
    BY AllocatedFacts
<1>3. IsFiniteSet(DOMAIN rows') /\ (Flexible => phantoms' = {})
    BY DEF Inv
<1>4. ~Flexible' => FixedPages(schema', pages', rows', phantoms')
    BY <1>1, <1>2
<1>5. Flexible' =>
        /\ \A p \in 1 .. Len(pages') : Room(pages'[p])
        /\ ~damaged' => FlexiblePages(schema', pages', rows')
    <2>1. pages' = Allocated
        OBVIOUS
    <2> HIDE DEF Allocated
    <2> QED
        BY <1>1, <1>2, <2>1
<1> QED
    BY <1>1, <1>3, <1>4, <1>5 DEF Inv

LEMMA InsertNextPageKeeps ==
    ASSUME StringsFit, Inv, InsertNextPage
    PROVE  Inv'
<1>1. /\ pages' = Allocated /\ current' = current + 1 /\ current < MaxInserts
      /\ UNCHANGED <<schema, inserting, aborted, rows, damaged, phantoms, inserts, throws>>
    BY DEF InsertNextPage
<1>2. Allocated \in Seq(Page) /\ current + 1 \in 1 .. Len(Allocated)
    BY AllocatedFacts
<1>3. current \in Nat /\ MaxInserts \in Nat
    <2>1. current \in 0 .. Len(pages) /\ pages \in Seq(Page)
        BY DEF Inv, TypeOK
    <2> QED
        BY <2>1, InsertsAssumption
<1>4. current' \in 0 .. Len(pages') /\ current' <= MaxInserts
    <2> DEFINE new == Allocated
    <2>1. new \in Seq(Page) /\ current + 1 \in 1 .. Len(new) /\ pages' = new
        BY <1>1, <1>2
    <2> HIDE DEF new
    <2>2. Len(new) \in Nat
        BY <2>1
    <2> QED
        BY <1>1, <1>3, <2>1, <2>2
<1>5. TypeOK'
    BY <1>1, <1>2, <1>4 DEF Inv, TypeOK
<1> QED
    BY <1>1, <1>4, <1>5, AllocatedKeeps

LEMMA InsertAbortsKeeps ==
    ASSUME Inv, InsertAborts
    PROVE  Inv'
<1>1. TypeOK' /\ current' <= MaxInserts
    BY DEF InsertAborts, Inv, TypeOK
<1> QED
    BY <1>1, SamePages DEF InsertAborts

LEMMA ReopenKeeps ==
    ASSUME Inv, Reopen
    PROVE  Inv'
<1>1. current' \in 0 .. Len(pages) /\ current' <= MaxInserts
    <2>1. Len(pages) \in Nat
        BY DEF Inv, TypeOK
    <2> QED
        BY <2>1, InsertsAssumption DEF Reopen
<1>2. TypeOK'
    BY <1>1 DEF Reopen, Inv, TypeOK
<1> QED
    BY <1>1, <1>2, SamePages DEF Reopen

\* The columns before the one whose value is refused.
LEMMA WrittenFacts ==
    ASSUME StringsFit, Inv, inserting # NoRow, NEW k \in DOMAIN schema
    PROVE  /\ Written(k) \in Seq(Cell) /\ Len(Written(k)) \in Nat
           /\ Len(Written(k)) <= RowSpace(schema, inserting)
           /\ RowSpace(schema, inserting) \in Nat \ {0}
<1>1. OfSchema(schema, inserting) /\ SoundSchema(schema)
    BY InvFacts
<1>2. Len(schema) \in Nat /\ k \in 1 .. Len(schema)
    BY <1>1 DEF SoundSchema
<1>3. k - 1 \in 0 .. Len(schema)
    BY <1>2
<1>4. /\ RowSpace(schema, inserting) \in Nat \ {0}
      /\ \A n \in 0 .. Len(schema) :
            LET u == <<GetNulls(inserting)>>
                       \o FlattenSeq([i \in 1 .. n |-> SerializeValue(schema[i], inserting[i])])
            IN  u \in Seq(Cell) /\ Len(u) <= RowSpace(schema, inserting)
    BY <1>1, RowSpaceIs
<1>5. Written(k) \in Seq(Cell) /\ Len(Written(k)) <= RowSpace(schema, inserting)
    BY <1>3, <1>4 DEF Written
<1>6. Len(Written(k)) \in Nat
    BY <1>5
<1> QED
    BY <1>4, <1>5, <1>6

LEMMA ThrowsFacts ==
    ASSUME Inv, NEW k \in DOMAIN schema, Throws(k)
    PROVE  /\ inserting # NoRow /\ throws' \in 0 .. MaxThrows /\ inserting' = NoRow
           /\ throws' # throws /\ current' = current /\ current' <= MaxInserts
           /\ UNCHANGED <<schema, current, aborted, rows, damaged, inserts>>
<1>1. throws \in 0 .. MaxThrows /\ throws < MaxThrows /\ throws' = throws + 1
    BY DEF Throws, Inv, TypeOK
<1>2. throws' \in 0 .. MaxThrows /\ throws' # throws
    BY <1>1, InsertsAssumption
<1> QED
    BY <1>2 DEF Throws, Inv

LEMMA InsertThrowsFixedKeeps ==
    ASSUME StringsFit, Inv, NEW k \in DOMAIN schema, InsertThrowsFixed(k)
    PROVE  Inv'
<1> DEFINE p == current + 1
           w == SlotOf(schema)
           t == Written(k)
<1>1. ~Flexible /\ Throws(k)
    BY DEF InsertThrowsFixed
<1>2. PICK i \in 0 .. Capacity - 1 :
          /\ FreeSlot(Tried, i)
          /\ pages' = [Allocated EXCEPT ![current + 1] =
                          With(@, i * SlotSpace, << 1 >> \o Written(k))]
          /\ phantoms' = phantoms \cup {[page |-> current, row |-> i]}
    BY DEF InsertThrowsFixed
<1>3. /\ inserting # NoRow /\ throws' \in 0 .. MaxThrows /\ inserting' = NoRow
      /\ current' <= MaxInserts
      /\ UNCHANGED <<schema, current, aborted, rows, damaged, inserts>>
    BY <1>1, ThrowsFacts
<1>4. i \in Slots(w) /\ i \in 0 .. PageSize - 1
    BY RowNumbers
<1>5. /\ ~HasString(schema) /\ SlotSpace = w /\ w \in Nat \ {0}
      /\ OfSchema(schema, inserting)
      /\ \A id \in DOMAIN rows : OfSchema(schema, rows[id])
    BY <1>1, <1>3, InvFacts
<1>6. /\ Allocated \in Seq(Page) /\ p \in 1 .. Len(Allocated)
      /\ Tried = Allocated[p] /\ FixedPages(schema, Allocated, rows, phantoms)
      /\ Len(pages) \in Nat /\ Len(Allocated) \in Nat /\ Len(pages) <= Len(Allocated)
    BY <1>1, AllocatedFacts
<1>7. t \in Seq(Cell) /\ Len(t) + 1 <= w
    <2>1. /\ t \in Seq(Cell) /\ Len(t) \in Nat /\ Len(t) <= RowSpace(schema, inserting)
          /\ RowSpace(schema, inserting) \in Nat \ {0}
        BY <1>3, WrittenFacts
    <2>2. /\ Len(SerializeRow(schema, inserting)) + 1 <= w
          /\ Len(SerializeRow(schema, inserting)) = RowSpace(schema, inserting)
        BY <1>5, RowFits, RowSpaceIs
    <2> HIDE DEF t, w
    <2>3. PICK space \in Nat : space = RowSpace(schema, inserting)
        BY <2>1
    <2>4. Len(t) <= space /\ space + 1 <= w
        BY <2>1, <2>2, <2>3
    <2> QED
        BY <1>5, <2>1, <2>4
<1> DEFINE page == With(Allocated[p], i * w, << 1 >> \o t)
           id == [page |-> current, row |-> i]
<1>8. Allocated[p][i * w] = 0
    BY <1>2, <1>5, <1>6 DEF FreeSlot, Flag
<1>9. pages' = [Allocated EXCEPT ![p] = page] /\ phantoms' = phantoms \cup {id}
    BY <1>2, <1>5
<1>10. current \in 0 .. Len(pages) /\ current \in 0 .. MaxInserts
    <2>1. current \in 0 .. Len(pages) /\ pages \in Seq(Page) /\ current <= MaxInserts
        BY DEF Inv, TypeOK
    <2> QED
        BY <2>1, InsertsAssumption
<1>11. id = Id(p, i) /\ id \in RowIdType
    <2>1. p - 1 = current
        BY <1>10
    <2> QED
        BY <1>4, <1>10, <2>1 DEF Id, RowIdType
<1> HIDE DEF p, w, t
<1>12. /\ page \in Page
       /\ FixedPages(schema, [Allocated EXCEPT ![p] = page], rows, phantoms \cup {Id(p, i)})
    <2>1. page = With(Allocated[p], i * w, << 1 >> \o t)
        OBVIOUS
    <2> HIDE DEF page
    <2> QED
        BY <1>4, <1>5, <1>6, <1>7, <1>8, <2>1, PhantomPut DEF w
<1> HIDE DEF page, id
<1>13. FixedPages(schema', pages', rows', phantoms')
    BY <1>3, <1>9, <1>11, <1>12
<1>14. pages' \in Seq(Page) /\ Len(pages') = Len(Allocated)
    BY <1>6, <1>9, <1>12
<1>15. current' \in 0 .. Len(pages')
    BY <1>3, <1>6, <1>10, <1>14
<1>16. TypeOK'
    BY <1>3, <1>9, <1>11, <1>14, <1>15 DEF Inv, TypeOK
<1>17. Flexible' <=> Flexible
    BY <1>3 DEF Flexible
<1> QED
    BY <1>1, <1>3, <1>13, <1>16, <1>17 DEF Inv

LEMMA InsertThrowsFlexibleKeeps ==
    ASSUME StringsFit, Inv, NEW k \in DOMAIN schema, InsertThrowsFlexible(k)
    PROVE  Inv'
<1> DEFINE p == current + 1
           t == Written(k)
           n == Count(Tried)
           space == RowSpace(schema, inserting)
           low == PageSize - PrevSum(Tried, Count(Tried)) - space
<1>1. Flexible /\ Throws(k) /\ UNCHANGED phantoms
    BY DEF InsertThrowsFlexible
<1>2. \/ pages' = Allocated
      \/ /\ HasSpace(Tried, inserting)
         /\ pages' = [Allocated EXCEPT ![p] = With(@, low, t)]
    BY DEF InsertThrowsFlexible
<1>3. /\ inserting # NoRow /\ throws' \in 0 .. MaxThrows /\ inserting' = NoRow
      /\ current' <= MaxInserts
      /\ UNCHANGED <<schema, current, aborted, rows, damaged, inserts>>
    BY <1>1, ThrowsFacts
<1>4. \A id \in DOMAIN rows : OfSchema(schema, rows[id])
    BY InvFacts
<1>5. /\ Allocated \in Seq(Page) /\ p \in 1 .. Len(Allocated)
      /\ Tried = Allocated[p] /\ Tried \in Page /\ Room(Tried)
      /\ \A q \in 1 .. Len(Allocated) : Room(Allocated[q])
      /\ ~damaged => FlexiblePages(schema, Allocated, rows)
      /\ Len(pages) \in Nat /\ Len(Allocated) \in Nat /\ Len(pages) <= Len(Allocated)
    BY <1>1, AllocatedFacts
<1>6. current \in 0 .. Len(pages)
    BY DEF Inv, TypeOK
<1>7. current' \in 0 .. Len(Allocated)
    BY <1>3, <1>5, <1>6
<1>8. CASE pages' = Allocated
    <2>1. pages' \in Seq(Page) /\ current' \in 0 .. Len(pages')
        BY <1>5, <1>7, <1>8
    <2>2. TypeOK'
        BY <1>1, <1>3, <2>1 DEF Inv, TypeOK
    <2> QED
        BY <1>1, <1>3, <1>8, <2>2, AllocatedKeeps
<1>9. CASE /\ HasSpace(Tried, inserting)
           /\ pages' = [Allocated EXCEPT ![p] = With(@, low, t)]
    <2> DEFINE page == With(Tried, low, t)
    <2>1. t \in Seq(Cell) /\ Len(t) <= space /\ space \in Nat
        BY <1>3, WrittenFacts
    <2>2. n \in 0 .. PageSize - 1 /\ PrevSum(Tried, n) \in Nat
        <3>1. n \in 0 .. PageSize - 1
            BY <1>5 DEF Room
        <3> QED
            BY <1>5, <3>1, PrevSums
    <2>3. PrevSum(Tried, Count(Tried)) + space + 2 + Count(Tried) <= PageSize
        BY <1>9 DEF HasSpace
    <2>4. PrevSum(Tried, n) <= PageSize
        <3> DEFINE m == PrevSum(Tried, n)
        <3>1. m \in Nat /\ m + space + 2 + n <= PageSize /\ n \in Nat
            BY <2>2, <2>3
        <3> HIDE DEF m, n, space
        <3>2. m <= PageSize
            BY <2>1, <3>1, PageAssumption
        <3> QED
            BY <3>2 DEF m
    <2>5. pages' = [Allocated EXCEPT ![p] = page]
        BY <1>5, <1>9
    <2>6. page = With(Tried, PageSize - PrevSum(Tried, Count(Tried)) - space, t)
        OBVIOUS
    <2> HIDE DEF page, t, space
    <2>7. /\ page \in Page /\ Room(page) /\ Count(page) = Count(Tried)
          /\ Keeps(Tried, page, Count(Tried))
        BY <1>5, <2>1, <2>3, <2>6, RowTorn
    <2> HIDE DEF p
    <2>8. pages' \in Seq(Page) /\ Len(pages') = Len(Allocated)
          /\ \A q \in 1 .. Len(Allocated) : pages'[q] = IF q = p THEN page ELSE Allocated[q]
        BY <1>5, <2>5, <2>7
    <2>9. \A q \in 1 .. Len(pages') : Room(pages'[q])
        BY <1>5, <2>7, <2>8
    <2>10. ASSUME ~damaged PROVE FlexiblePages(schema, [Allocated EXCEPT ![p] = page], rows)
        <3>1. FlexiblePages(schema, Allocated, rows)
            BY <1>5, <2>10
        <3> DEFINE a == Allocated[p]
        <3>2. /\ Room(a) /\ Count(page) = Count(a) /\ PrevSum(a, Count(a)) <= PageSize
              /\ Keeps(a, page, Count(a))
            BY <1>5, <2>4, <2>7
        <3> QED
            BY <1>4, <1>5, <2>7, <3>1, <3>2, RowsBelow
    <2>11. ~damaged' => FlexiblePages(schema', pages', rows')
        BY <1>3, <2>5, <2>10
    <2>12. TypeOK'
        <3>1. current' \in 0 .. Len(pages')
            BY <1>7, <2>8
        <3> QED
            BY <1>1, <1>3, <2>8, <3>1 DEF Inv, TypeOK
    <2>13. Flexible' <=> Flexible
        BY <1>3 DEF Flexible
    <2> QED
        BY <1>1, <1>3, <2>9, <2>11, <2>12, <2>13 DEF Inv
<1> QED
    BY <1>2, <1>8, <1>9

LEMMA DeleteRowKeeps ==
    ASSUME StringsFit, Inv, NEW id \in DOMAIN rows, DeleteRow(id)
    PROVE  Inv'
<1> DEFINE p == id.page + 1
           i == id.row
           w == SlotOf(schema)
<1>1. /\ Flexible => i < Count(pages[p])
      /\ pages' = [pages EXCEPT ![p] = IF Flexible THEN FlexibleWithout(@, i)
                                       ELSE FixedWithout(@, i)]
      /\ rows' = Restrict(rows, DOMAIN rows \ {id})
      /\ damaged' = (damaged \/ Flexible)
      /\ UNCHANGED <<schema, current, inserting, aborted, phantoms, inserts, throws>>
    BY DEF DeleteRow
<1>2. rows' = Removed(rows, id) /\ DOMAIN rows' = DOMAIN rows \ {id}
    BY <1>1 DEF Removed, Restrict
<1>3. /\ pages \in Seq(Page) /\ current \in 0 .. Len(pages) /\ id \in RowIdType
      /\ DOMAIN rows \subseteq RowIdType
      /\ \A x \in DOMAIN rows : rows[x] \in RowsOf[schema]
      /\ damaged \in BOOLEAN
    BY DEF Inv, TypeOK
<1>4. IsFiniteSet(DOMAIN rows')
    BY <1>2, FS_Subset DEF Inv
<1>5. \A x \in DOMAIN rows' : rows'[x] \in RowsOf[schema]
    BY <1>2, <1>3 DEF Removed
<1>6. Flexible' <=> Flexible
    BY <1>1 DEF Flexible
<1>7. ASSUME pages' \in Seq(Page), Len(pages') = Len(pages) PROVE TypeOK'
    BY <1>1, <1>2, <1>3, <1>5, <1>7 DEF Inv, TypeOK
<1>8. CASE ~Flexible
    <2>1. FixedPages(schema, pages, rows, phantoms)
        BY <1>8 DEF Inv
    <2>2. PICK q \in 1 .. Len(pages), j \in Slots(w) : id = Id(q, j)
        BY <2>1 DEF FixedPages
    <2>3. p = q /\ i = j
        <3>1. q \in Int
            BY <1>3
        <3>2. id.page = q - 1 /\ id.row = j
            BY <2>2 DEF Id
        <3> QED
            BY <3>1, <3>2
    <2>4. p \in 1 .. Len(pages) /\ i \in Slots(w) /\ id = Id(p, i)
        BY <2>2, <2>3
    <2>5. /\ ~HasString(schema) /\ SlotSpace = w /\ w \in Nat \ {0}
          /\ \A x \in DOMAIN rows : OfSchema(schema, rows[x])
        BY <1>8, InvFacts
    <2> DEFINE page == Cleared(pages[p], i * w)
    <2>6. pages' = [pages EXCEPT ![p] = page]
        BY <1>1, <1>8, <2>5 DEF Cleared, FixedWithout
    <2>7. page = Cleared(pages[p], i * w)
        OBVIOUS
    <2> HIDE DEF page, p, i, w
    <2>8. /\ page \in Page
          /\ FixedPages(schema, [pages EXCEPT ![p] = page], Removed(rows, Id(p, i)), phantoms)
        BY <1>3, <2>1, <2>4, <2>5, <2>7, RowTaken DEF w
    <2>9. pages' \in Seq(Page) /\ Len(pages') = Len(pages)
        BY <1>3, <2>4, <2>6, <2>8
    <2>10. FixedPages(schema', pages', rows', phantoms')
        BY <1>1, <1>2, <2>4, <2>6, <2>8
    <2> QED
        BY <1>1, <1>4, <1>6, <1>7, <1>8, <2>9, <2>10 DEF Inv
<1>9. CASE Flexible
    <2>1. \A q \in 1 .. Len(pages) : Room(pages[q])
        BY <1>9 DEF Inv
    <2>2. i \in Nat
        BY <1>3, PageAssumption DEF RowIdType
    <2> DEFINE page == FlexibleWithout(pages[p], i)
    <2>3. pages' = [pages EXCEPT ![p] = page]
        BY <1>1, <1>9
    <2>4. CASE p \in 1 .. Len(pages)
        <3>1. pages[p] \in Page /\ Room(pages[p]) /\ i < Count(pages[p])
            BY <1>1, <1>3, <1>9, <2>1, <2>4
        <3>2. page \in Page /\ Room(page)
            BY <2>2, <3>1, RowErased
        <3> HIDE DEF page, p, i
        <3>3. /\ pages' \in Seq(Page) /\ Len(pages') = Len(pages)
              /\ \A q \in 1 .. Len(pages) : pages'[q] = IF q = p THEN page ELSE pages[q]
            BY <1>3, <2>3, <2>4, <3>2
        <3>4. \A q \in 1 .. Len(pages') : Room(pages'[q])
            BY <2>1, <3>2, <3>3
        <3> QED
            BY <1>1, <1>4, <1>6, <1>7, <1>9, <3>3, <3>4 DEF Inv
    <2>5. CASE p \notin 1 .. Len(pages)
        <3> HIDE DEF page, p, i
        <3>1. pages' = pages
            BY <1>3, <2>3, <2>5
        <3> QED
            BY <1>1, <1>3, <1>4, <1>6, <1>7, <1>9, <2>1, <3>1 DEF Inv
    <2> QED
        BY <2>4, <2>5
<1> QED
    BY <1>8, <1>9

\* Inv is inductive.
LEMMA NextKeeps ==
    ASSUME StringsFit, Inv, [Next]_vars
    PROVE  Inv'
<1>1. CASE \E r \in RowsOf[schema] : InsertRow(r)
    BY <1>1, InsertRowKeeps
<1>2. CASE InsertFixed
    BY <1>2, InsertFixedKeeps
<1>3. CASE InsertFlexible
    BY <1>3, InsertFlexibleKeeps
<1>4. CASE InsertAborts
    BY <1>4, InsertAbortsKeeps
<1>5. CASE InsertNextPage
    BY <1>5, InsertNextPageKeeps
<1>6. CASE \E k \in DOMAIN schema : InsertThrowsFixed(k)
    BY <1>6, InsertThrowsFixedKeeps
<1>7. CASE \E k \in DOMAIN schema : InsertThrowsFlexible(k)
    BY <1>7, InsertThrowsFlexibleKeeps
<1>8. CASE \E id \in DOMAIN rows : DeleteRow(id)
    BY <1>8, DeleteRowKeeps
<1>9. CASE Reopen
    BY <1>9, ReopenKeeps
<1>10. CASE UNCHANGED vars
    <2>1. TypeOK' /\ current' <= MaxInserts
        BY <1>10 DEF vars, Inv, TypeOK
    <2> QED
        BY <1>10, <2>1, SamePages DEF vars
<1> QED
    BY <1>1, <1>2, <1>3, <1>4, <1>5, <1>6, <1>7, <1>8, <1>9, <1>10 DEF Next, InsertRound

LEMMA Invariance ==
    ASSUME StringsFit
    PROVE  Spec => []Inv
<1>1. Inv /\ [Next]_vars => Inv'
    BY NextKeeps
<1> QED
    BY <1>1, InitInv, PTL DEF Spec

\* What a row that holds is read back as.
LEMMA ReadBack ==
    ASSUME StringsFit, Inv
    PROVE  RowsReadBack
<1> SUFFICES ASSUME ~damaged PROVE
        /\ \A id \in DOMAIN rows : id.page < Len(pages) /\ GetRow(id) = rows[id]
        /\ \A p \in 0 .. Len(pages) - 1, i \in 0 .. RowCount - 1 :
              LET id == [page |-> p, row |-> i]
              IN  GetRow(id) # NoRow => id \in DOMAIN rows \cup phantoms
    BY DEF RowsReadBack
<1> DEFINE w == SlotOf(schema)
<1>1. /\ w \in Nat \ {0} /\ SlotSpace = w
      /\ \A id \in DOMAIN rows : OfSchema(schema, rows[id])
      /\ Capacity = PageSize \div w
    BY InvFacts
<1>2. pages \in Seq(Page) /\ Len(pages) \in Nat /\ \A q \in 1 .. Len(pages) : q \in Int
    BY DEF Inv, TypeOK
<1>3. ASSUME NEW p \in 0 .. Len(pages) - 1, NEW i
      PROVE  [page |-> p, row |-> i] = Id(p + 1, i) /\ p + 1 \in 1 .. Len(pages)
    <2>1. p + 1 - 1 = p /\ p + 1 \in 1 .. Len(pages)
        BY <1>2
    <2> QED
        BY <2>1 DEF Id
<1>4. ASSUME NEW q \in 1 .. Len(pages), NEW i
      PROVE  /\ Id(q, i).page = q - 1 /\ Id(q, i).row = i /\ Id(q, i).page + 1 = q
             /\ Id(q, i).page < Len(pages)
    <2>1. q - 1 + 1 = q /\ q - 1 < Len(pages)
        BY <1>2
    <2> QED
        BY <2>1 DEF Id
<1>5. CASE ~Flexible
    <2>1. FixedPages(schema, pages, rows, phantoms)
        BY <1>5 DEF Inv
    <2>2. \A id : GetRow(id) = IF pages[id.page + 1][id.row * w] = 0 THEN NoRow
                               ELSE DeserializeRow(schema, pages[id.page + 1], id.row * w + 1)
        BY <1>1, <1>5 DEF GetRow, FixedRow, Flag
    <2> HIDE DEF w
    <2>3. ASSUME NEW id \in DOMAIN rows
          PROVE  id.page < Len(pages) /\ GetRow(id) = rows[id]
        <3>1. PICK q \in 1 .. Len(pages), i \in Slots(w) : id = Id(q, i)
            BY <2>1 DEF FixedPages, w
        <3>2. FixedPage(schema, pages[q], q, rows, phantoms)
            BY <2>1 DEF FixedPages
        <3>3. /\ pages[q][i * w] # 0
              /\ Holds(pages[q], i * w + 1, SerializeRow(schema, rows[id]))
            BY <3>1, <3>2 DEF FixedPage, w
        <3>4. i * w + 1 \in Int
            <4>1. i * w \in Nat
                BY <1>1, SlotsFit DEF Slots
            <4> QED
                BY <4>1
        <3>5. DeserializeRow(schema, pages[q], i * w + 1) = rows[id]
            BY <1>1, <3>3, <3>4, RowReadBack
        <3>6. id.page + 1 = q /\ id.row = i /\ id.page < Len(pages)
            BY <1>4, <3>1
        <3>7. pages[id.page + 1][id.row * w] # 0
            BY <3>3, <3>6
        <3>8. DeserializeRow(schema, pages[id.page + 1], id.row * w + 1) = rows[id]
            BY <3>5, <3>6
        <3> QED
            BY <2>2, <3>6, <3>7, <3>8
    <2>4. ASSUME NEW p \in 0 .. Len(pages) - 1, NEW i \in 0 .. RowCount - 1,
                 GetRow([page |-> p, row |-> i]) # NoRow
          PROVE  [page |-> p, row |-> i] \in DOMAIN rows \cup phantoms
        <3> DEFINE q == p + 1
                   id == Id(q, i)
        <3>1. q \in 1 .. Len(pages) /\ [page |-> p, row |-> i] = id
            BY <1>3
        <3>2. i \in Slots(w)
            BY <1>1, <1>5 DEF RowCount, Slots
        <3> HIDE DEF q
        <3>3. id.page + 1 = q /\ id.row = i
            BY <1>4, <3>1
        <3>4. GetRow(id) # NoRow
            BY <2>4, <3>1
        <3>5. pages[id.page + 1][id.row * w] # 0
            BY <2>2, <3>4
        <3>6. pages[q][i * w] # 0
            BY <3>3, <3>5
        <3>7. FixedPage(schema, pages[q], q, rows, phantoms)
            BY <2>1, <3>1 DEF FixedPages
        <3> QED
            BY <3>1, <3>2, <3>6, <3>7 DEF FixedPage, w
    <2> QED
        BY <2>3, <2>4
<1>6. CASE Flexible
    <2>1. /\ FlexiblePages(schema, pages, rows)
          /\ \A q \in 1 .. Len(pages) : Room(pages[q])
        BY <1>6 DEF Inv
    <2>2. \A id : GetRow(id) =
            IF \/ id.row >= Count(pages[id.page + 1])
               \/ RowLength(pages[id.page + 1], id.row) = 0 THEN NoRow
            ELSE DeserializeRow(schema, pages[id.page + 1],
                                PageSize - PrevSum(pages[id.page + 1], id.row + 1))
        BY <1>6 DEF GetRow, FlexibleRow
    <2>3. ASSUME NEW id \in DOMAIN rows
          PROVE  id.page < Len(pages) /\ GetRow(id) = rows[id]
        <3>1. PICK q \in 1 .. Len(pages), i \in 0 .. PageSize - 1 : id = Id(q, i)
            BY <2>1 DEF FlexiblePages
        <3>2. FlexiblePage(schema, pages[q], q, rows)
            BY <2>1 DEF FlexiblePages
        <3>3. /\ i < Count(pages[q])
              /\ RowLength(pages[q], i) = RowSpace(schema, rows[id])
              /\ Holds(pages[q], PageSize - PrevSum(pages[q], i + 1),
                       SerializeRow(schema, rows[id]))
            BY <3>1, <3>2 DEF FlexiblePage
        <3>4. RowLength(pages[q], i) # 0
            <4>1. RowSpace(schema, rows[id]) \in Nat \ {0}
                BY <1>1, RowSpaceIs
            <4> QED
                BY <3>3, <4>1
        <3>5. /\ PageSize - PrevSum(pages[q], i + 1) \in Int
              /\ ~(i >= Count(pages[q]))
            <4>1. pages[q] \in Page /\ Count(pages[q]) \in 0 .. PageSize - 1
                BY <1>2, <2>1 DEF Room
            <4>2. i + 1 \in 0 .. PageSize - 1 /\ ~(i >= Count(pages[q]))
                BY <3>3, <4>1, PageAssumption
            <4>3. PrevSum(pages[q], i + 1) \in Nat
                BY <4>1, <4>2, PrevSums
            <4> QED
                BY <4>2, <4>3, PageAssumption
        <3>6. DeserializeRow(schema, pages[q], PageSize - PrevSum(pages[q], i + 1)) = rows[id]
            BY <1>1, <3>3, <3>5, RowReadBack
        <3>7. id.page + 1 = q /\ id.row = i /\ id.page < Len(pages)
            BY <1>4, <3>1
        <3>8. GetRow(id) =
                IF i >= Count(pages[q]) \/ RowLength(pages[q], i) = 0 THEN NoRow
                ELSE DeserializeRow(schema, pages[q], PageSize - PrevSum(pages[q], i + 1))
            BY <2>2, <3>7
        <3> QED
            BY <3>4, <3>5, <3>6, <3>7, <3>8
    <2>4. ASSUME NEW p \in 0 .. Len(pages) - 1, NEW i \in 0 .. RowCount - 1,
                 GetRow([page |-> p, row |-> i]) # NoRow
          PROVE  [page |-> p, row |-> i] \in DOMAIN rows \cup phantoms
        <3> DEFINE q == p + 1
                   id == Id(q, i)
        <3>1. q \in 1 .. Len(pages) /\ [page |-> p, row |-> i] = id
            BY <1>3
        <3>2. i \in 0 .. PageSize - 1
            BY <1>6, PageAssumption DEF RowCount
        <3> HIDE DEF q
        <3>3. id.page + 1 = q /\ id.row = i
            BY <1>4, <3>1
        <3>4. GetRow(id) # NoRow
            BY <2>4, <3>1
        <3>5. ~(i >= Count(pages[q]))
            BY <2>2, <3>3, <3>4
        <3>6. i < Count(pages[q])
            <4>1. Count(pages[q]) \in 0 .. PageSize - 1
                BY <2>1, <3>1 DEF Room
            <4> QED
                BY <3>2, <3>5, <4>1
        <3>7. FlexiblePage(schema, pages[q], q, rows)
            BY <2>1, <3>1 DEF FlexiblePages
        <3> QED
            BY <3>1, <3>2, <3>6, <3>7 DEF FlexiblePage
    <2> QED
        BY <2>3, <2>4
<1> QED
    BY <1>5, <1>6

\* TypeOK for every page size and every set of schemas and rows: bytes stay bytes
\* and row ids within pages, through torn rows, erased rows and row counts that
\* come back to 0 (table.cpp, fixed.cpp, flexible.cpp).
THEOREM TypeCorrect ==
    ASSUME StringsFit
    PROVE  Spec => []TypeOK
<1>1. Inv => TypeOK
    BY DEF Inv
<1> QED
    BY <1>1, Invariance, PTL

\* RowsReadBack: getRow of the id that insertRow returned is the row, as long as
\* no flexible page is damaged.
THEOREM RowsAreReadBack ==
    ASSUME StringsFit
    PROVE  Spec => []RowsReadBack
<1>1. Inv => RowsReadBack
    BY ReadBack
<1> QED
    BY <1>1, Invariance, PTL

\* An id more, which was not there.
LEMMA OneMore ==
    ASSUME IsFiniteSet(DOMAIN rows), NEW id, id \notin DOMAIN rows \cup phantoms,
           DOMAIN rows \cap phantoms = {},
           rows' = Added(rows, id, inserting)
    PROVE  /\ Cardinality(DOMAIN rows') = Cardinality(DOMAIN rows) + 1
           /\ DOMAIN rows' \cap phantoms = {}
<1>1. DOMAIN rows' = DOMAIN rows \cup {id}
    BY DEF Added
<1> QED
    BY <1>1, FS_AddElement

LEMMA InsertStep ==
    ASSUME StringsFit, Inv, [Next]_vars,
           ~damaged', inserting # NoRow, inserting' = NoRow, throws' = throws
    PROVE  /\ Cardinality(DOMAIN rows') = Cardinality(DOMAIN rows) + 1
           /\ DOMAIN rows' \cap phantoms = {}
<1>1. IsFiniteSet(DOMAIN rows) /\ DOMAIN rows \cap phantoms = {}
    BY DEF Inv, FixedPages
<1>2. CASE InsertFixed
    <2>1. PICK id : id \notin DOMAIN rows \cup phantoms /\ rows' = Added(rows, id, inserting)
        BY <1>2, InsertFixedKeeps
    <2> QED
        BY <1>1, <2>1, OneMore
<1>3. CASE InsertFlexible
    <2>1. PICK id : id \notin DOMAIN rows \cup phantoms /\ rows' = Added(rows, id, inserting)
        BY <1>3, InsertFlexibleKeeps
    <2> QED
        BY <1>1, <2>1, OneMore
<1>4. ASSUME NEW k \in DOMAIN schema, InsertThrowsFixed(k) \/ InsertThrowsFlexible(k)
      PROVE  FALSE
    <2>1. Throws(k)
        BY <1>4 DEF InsertThrowsFixed, InsertThrowsFlexible
    <2> QED
        BY <2>1, ThrowsFacts
<1>5. ~(\E r \in RowsOf[schema] : InsertRow(r)) /\ ~InsertAborts /\ ~InsertNextPage
      /\ ~(\E id \in DOMAIN rows : DeleteRow(id)) /\ ~Reopen /\ ~(UNCHANGED vars)
    BY DEF InsertRow, InsertAborts, InsertNextPage, DeleteRow, Reopen, vars
<1> QED
    BY <1>2, <1>3, <1>4, <1>5 DEF Next, InsertRound

\* InsertTakesFreeId: insertRow never returns the id of a row that is there, also
\* after rows were deleted and the table opened again.
THEOREM InsertsTakeFreeIds ==
    ASSUME StringsFit
    PROVE  Spec => InsertTakesFreeId
<1>1. Inv /\ [Next]_vars
        => [~damaged' /\ inserting # NoRow /\ inserting' = NoRow /\ throws' = throws
              => /\ Cardinality(DOMAIN rows') = Cardinality(DOMAIN rows) + 1
                 /\ DOMAIN rows' \cap phantoms = {}]_vars
    BY InsertStep
<1> QED
    BY <1>1, Invariance, PTL DEF Spec, InsertTakesFreeId

-----------------------------------------------------------------------------
(* The scan                                                                *)

LEMMA OnePlace ==
    ASSUME NEW R \in Nat \ {0}, NEW p \in Nat, NEW q \in Nat,
           NEW i \in 0 .. R - 1, NEW j \in 0 .. R - 1, p * R + i = q * R + j
    PROVE  p = q /\ i = j
<1> DEFINE x == p * R
           y == q * R
<1>1. x \in Nat /\ y \in Nat
    OBVIOUS
<1>2. p # q => x + R <= y \/ y + R <= x
    BY SlotsApart
<1>3. x + i = y + j /\ (p = q => x = y)
    OBVIOUS
<1> HIDE DEF x, y
<1>4. ~(x + R <= y) /\ ~(y + R <= x)
    BY <1>1, <1>3
<1>5. p = q
    BY <1>2, <1>4
<1> QED
    BY <1>1, <1>3, <1>5

\* What the loop of a scan is at after so many steps.
Steps(id, N) ==
    /\ id[0] = Begin
    /\ \A n \in 1 .. N * RowCount : id[n] = After(id[n - 1])

ByPage(id, N) ==
    /\ N * RowCount \in Nat \ {0}
    /\ \A n \in 0 .. N * RowCount - 1 :
          \E p \in 0 .. N - 1, i \in 0 .. RowCount - 1 :
             n = p * RowCount + i /\ id[n] = [page |-> p, row |-> i]
    /\ \A p \in 0 .. N - 1, i \in 0 .. RowCount - 1 :
          /\ p * RowCount + i \in 0 .. N * RowCount - 1
          /\ id[p * RowCount + i] = [page |-> p, row |-> i]

\* The ids of the loop are the rows of the first page, then those of the next one.
LEMMA PageByPage ==
    ASSUME NEW N \in Nat \ {0}, RowCount \in Nat \ {0}, NEW id, Steps(id, N)
    PROVE  ByPage(id, N)
<1> DEFINE R == RowCount
           M == N * R
           Reached(n) == \E p \in 0 .. N - 1, i \in 0 .. R - 1 :
                       n = p * R + i /\ id[n] = [page |-> p, row |-> i]
           S == {n \in 0 .. M - 1 : Reached(n)}
<1>0. R \in Nat \ {0}
    OBVIOUS
<1>1. /\ id[0] = Begin
      /\ \A n \in 1 .. M : id[n] = After(id[n - 1])
    BY DEF Steps
<1>2. \A x \in Nat, y \in Nat :
        After([page |-> x, row |-> y])
          = IF y + 1 < R THEN [page |-> x, row |-> y + 1] ELSE [page |-> x + 1, row |-> 0]
    BY DEF After
<1> HIDE DEF R
<1>3. /\ M \in Nat \ {0}
      /\ \A p \in 0 .. N - 1 : p * R \in Nat /\ p * R + R <= M
      /\ 0 * R = 0 /\ \A p \in Nat : p * R \in Nat /\ (p + 1) * R = p * R + R
    <2>1. M \in Nat
        BY <1>0
    <2>2. ASSUME NEW p \in 0 .. N - 1 PROVE p * R \in Nat /\ p * R + R <= M
        <3>1. p \in Nat /\ p < N
            OBVIOUS
        <3>2. p * R + R <= N * R
            BY <1>0, <3>1, Times
        <3> QED
            BY <1>0, <3>1, <3>2
    <2>3. 0 * R = 0
        BY <1>0
    <2>4. 0 \in 0 .. N - 1
        OBVIOUS
    <2>5. 0 + R <= M
        BY <2>2, <2>3, <2>4
    <2>6. M # 0
        BY <1>0, <2>1, <2>5
    <2>7. \A p \in Nat : p * R \in Nat /\ (p + 1) * R = p * R + R
        BY <1>0
    <2> HIDE DEF M
    <2> QED
        BY <2>1, <2>2, <2>3, <2>6, <2>7
<1> HIDE DEF M
<1>4. Reached(0)
    <2>1. 0 \in 0 .. N - 1 /\ 0 \in 0 .. R - 1 /\ 0 = 0 * R + 0
        BY <1>0, <1>3
    <2>2. id[0] = [page |-> 0, row |-> 0]
        BY <1>1 DEF Begin
    <2> QED
        BY <2>1, <2>2
<1>5. ASSUME NEW n \in 0 .. M - 1 - 1, Reached(n) PROVE Reached(n + 1)
    <2>1. PICK p \in 0 .. N - 1, i \in 0 .. R - 1 :
            n = p * R + i /\ id[n] = [page |-> p, row |-> i]
        BY <1>5
    <2>2. n + 1 \in 1 .. M /\ n + 1 - 1 = n
        BY <1>3
    <2>3. id[n + 1] = After([page |-> p, row |-> i])
        BY <1>1, <2>1, <2>2
    <2>4. p \in Nat /\ i \in Nat /\ p * R \in Nat /\ (p + 1) * R = p * R + R
        BY <1>0, <1>3, <2>1
    <2>5. CASE i + 1 < R
        <3>1. i + 1 \in 0 .. R - 1 /\ n + 1 = p * R + (i + 1)
            BY <1>0, <2>1, <2>4, <2>5
        <3>2. id[n + 1] = [page |-> p, row |-> i + 1]
            BY <1>2, <2>3, <2>4, <2>5
        <3> QED
            BY <2>1, <3>1, <3>2
    <2>6. CASE ~(i + 1 < R)
        <3>1. i + 1 = R
            BY <1>0, <2>1, <2>6
        <3>2. n + 1 = (p + 1) * R + 0
            BY <1>0, <2>1, <2>4, <3>1
        <3>3. id[n + 1] = [page |-> p + 1, row |-> 0]
            BY <1>2, <2>3, <2>4, <2>6
        <3>4. p + 1 \in 0 .. N - 1
            <4>1. CASE p + 1 = N
                <5>1. n + 1 = M
                    BY <1>3, <2>4, <3>2, <4>1 DEF M
                <5> QED
                    BY <1>3, <5>1
            <4> QED
                BY <2>1, <4>1
        <3>5. 0 \in 0 .. R - 1
            BY <1>0
        <3> QED
            BY <3>2, <3>3, <3>4, <3>5
    <2> QED
        BY <2>5, <2>6
<1> HIDE DEF Reached
<1>6. \A n \in 0 .. M - 1 : n \in S
    <2>1. 0 \in S
        BY <1>3, <1>4
    <2>2. \A n \in 0 .. M - 1 - 1 : n \in S => n + 1 \in S
        <3> SUFFICES ASSUME NEW n \in 0 .. M - 1 - 1, n \in S PROVE n + 1 \in S
            OBVIOUS
        <3>1. n + 1 \in 0 .. M - 1
            BY <1>3
        <3> QED
            BY <1>5, <3>1
    <2>3. M - 1 \in Nat
        BY <1>3
    <2> HIDE DEF S
    <2> QED
        BY <2>1, <2>2, <2>3, BoundedInduction
<1>7. \A n \in 0 .. M - 1 : Reached(n)
    BY <1>6
<1>8. ASSUME NEW p \in 0 .. N - 1, NEW i \in 0 .. R - 1
      PROVE  p * R + i \in 0 .. M - 1 /\ id[p * R + i] = [page |-> p, row |-> i]
    <2>0. PICK n : n = p * R + i
        OBVIOUS
    <2>1. n \in 0 .. M - 1
        BY <1>0, <1>3, <2>0
    <2>2. PICK q \in 0 .. N - 1, j \in 0 .. R - 1 :
            n = q * R + j /\ id[n] = [page |-> q, row |-> j]
        BY <1>7, <2>1 DEF Reached
    <2>3. p \in Nat /\ q \in Nat
        OBVIOUS
    <2>4. p = q /\ i = j
        <3>1. p * R + i = q * R + j
            BY <2>0, <2>2
        <3>2. i \in 0 .. R - 1 /\ j \in 0 .. R - 1
            OBVIOUS
        <3> QED
            BY <1>0, <2>3, <3>1, <3>2, OnePlace
    <2> QED
        BY <2>0, <2>1, <2>2, <2>4
<1> QED
    BY <1>3, <1>7, <1>8 DEF R, M, Reached, ByPage

Walks(id, N) ==
    id = [n \in 0 .. N * RowCount |-> IF n = 0 THEN Begin ELSE After(id[n - 1])]

LEMMA WalksExist ==
    ASSUME NEW N \in Nat, RowCount \in Nat
    PROVE  \E id : Walks(id, N)
<1> DEFINE Is(g, k) == g = [n \in 0 .. k |-> IF n = 0 THEN Begin ELSE After(g[n - 1])]
           S == {k \in Nat : \E g : Is(g, k)}
<1>1. 0 \in S
    <2> DEFINE g == [n \in 0 .. 0 |-> Begin]
    <2>1. \A n \in 0 .. 0 : n = 0
        OBVIOUS
    <2>2. Is(g, 0)
        BY <2>1
    <2> QED
        BY <2>2
<1>2. ASSUME NEW k \in Nat, k \in S PROVE k + 1 \in S
    <2>1. PICK g : Is(g, k)
        BY <1>2
    <2> DEFINE h == [n \in 0 .. k + 1 |-> IF n = k + 1 THEN After(g[k]) ELSE g[n]]
    <2>2. ASSUME NEW n \in 0 .. k + 1
          PROVE  h[n] = IF n = 0 THEN Begin ELSE After(h[n - 1])
        <3>1. CASE n = k + 1
            <4>1. n # 0 /\ n - 1 = k /\ k \in 0 .. k + 1 /\ k # k + 1
                BY <3>1
            <4> QED
                BY <3>1, <4>1
        <3>2. CASE n # k + 1
            <4>1. n \in 0 .. k /\ (n # 0 => n - 1 \in 0 .. k + 1 /\ n - 1 # k + 1)
                BY <3>2
            <4>2. g[n] = IF n = 0 THEN Begin ELSE After(g[n - 1])
                BY <2>1, <4>1
            <4> QED
                BY <3>2, <4>1, <4>2
        <3> QED
            BY <3>1, <3>2
    <2>3. Is(h, k + 1)
        BY <2>2
    <2>4. k + 1 \in Nat
        OBVIOUS
    <2> HIDE DEF h, Is
    <2> QED
        BY <2>3, <2>4
<1> HIDE DEF S
<1>3. \A k \in Nat : k \in S
    BY <1>1, <1>2, SetInduction
<1>4. N * RowCount \in Nat
    OBVIOUS
<1>5. PICK g : Is(g, N * RowCount)
    BY <1>3, <1>4 DEF S
<1>6. Walks(g, N)
    BY <1>5 DEF Walks
<1> QED
    BY <1>6

\* A scan visits every id but the last one.
LEMMA VisitedIs ==
    ASSUME Len(pages) \in Nat \ {0}, RowCount \in Nat \ {0}
    PROVE  \E id : /\ Steps(id, Len(pages))
                   /\ Visited = [n \in 1 .. Len(pages) * RowCount - 1 |-> id[n - 1]]
<1> DEFINE N == Len(pages)
           R == RowCount
           M == N * R
           id == CHOOSE g : Walks(g, N)
           Ends(n) == id[n] = End /\ \A m \in 0 .. n - 1 : id[m] # End
           end == CHOOSE n \in 0 .. M : Ends(n)
<1>1. Walks(id, N)
    BY WalksExist
<1>2. Visited = [n \in 1 .. end |-> id[n - 1]]
    BY DEF Visited, Walks
<1> HIDE DEF id, end
<1>0. N \in Nat \ {0} /\ R \in Nat \ {0}
    OBVIOUS
<1>3. Steps(id, N)
    <2>1. M \in Nat
        OBVIOUS
    <2>2. id[0] = Begin
        BY <1>1, <2>1 DEF Walks
    <2>3. ASSUME NEW n \in 1 .. M PROVE id[n] = After(id[n - 1])
        <3>1. n \in 0 .. M /\ n # 0
            OBVIOUS
        <3> QED
            BY <1>1, <3>1 DEF Walks
    <2> QED
        BY <2>2, <2>3 DEF Steps
<1>4. /\ M \in Nat \ {0}
      /\ \A n \in 0 .. M - 1 :
            \E p \in 0 .. N - 1, i \in 0 .. R - 1 :
               n = p * R + i /\ id[n] = [page |-> p, row |-> i]
      /\ \A p \in 0 .. N - 1, i \in 0 .. R - 1 :
            /\ p * R + i \in 0 .. M - 1
            /\ id[p * R + i] = [page |-> p, row |-> i]
    <2>1. ByPage(id, N)
        BY <1>0, <1>3, PageByPage
    <2> QED
        BY <2>1 DEF ByPage
<1>5. End = [page |-> N - 1, row |-> R - 1]
    BY DEF End
<1> HIDE DEF N, R
<1>6. (N - 1) * R + (R - 1) = M - 1
    BY <1>0
<1>7. N - 1 \in 0 .. N - 1 /\ R - 1 \in 0 .. R - 1
    BY <1>0
<1> HIDE DEF M
<1>8. id[M - 1] = End
    <2> DEFINE x == (N - 1) * R + (R - 1)
    <2>1. id[x] = [page |-> N - 1, row |-> R - 1]
        BY <1>4, <1>7
    <2>2. x = M - 1
        BY <1>6
    <2> HIDE DEF x
    <2> QED
        BY <1>5, <2>1, <2>2
<1>9. ASSUME NEW m \in 0 .. M - 1, id[m] = End PROVE m = M - 1
    <2>1. PICK p \in 0 .. N - 1, i \in 0 .. R - 1 :
            m = p * R + i /\ id[m] = [page |-> p, row |-> i]
        BY <1>4
    <2>2. p = N - 1 /\ i = R - 1
        BY <1>5, <1>9, <2>1
    <2> QED
        BY <1>6, <2>1, <2>2
<1>10. Ends(M - 1) /\ M - 1 \in 0 .. M
    BY <1>4, <1>8, <1>9
<1>11. ASSUME NEW n \in 0 .. M, Ends(n) PROVE n = M - 1
    <2>1. ~(M - 1 \in 0 .. n - 1)
        BY <1>8, <1>11
    <2>2. n \in 0 .. M - 1
        BY <1>4, <2>1
    <2> QED
        BY <1>9, <1>11, <2>2
<1> HIDE DEF Ends
<1>12. end \in 0 .. M /\ Ends(end)
    BY <1>10 DEF end
<1>13. end = M - 1
    BY <1>11, <1>12
<1> QED
    BY <1>2, <1>3, <1>13 DEF M, N, R

\* The ids of all slots.
AllIds == {[page |-> p, row |-> i] : p \in 0 .. Len(pages) - 1, i \in 0 .. RowCount - 1}

LEMMA ScanVisits ==
    ASSUME Len(pages) \in Nat \ {0}, RowCount \in Nat \ {0}
    PROVE  /\ Len(pages) * RowCount - 1 \in Nat
           /\ DOMAIN Visited = 1 .. Len(pages) * RowCount - 1
           /\ Visited \in Seq(AllIds)
           /\ IsInjective(Visited)
           /\ ToSet(Visited) = AllIds \ {End}
           /\ IsFiniteSet(ToSet(Visited))
           /\ Cardinality(ToSet(Visited)) = Len(pages) * RowCount - 1
<1> DEFINE N == Len(pages)
           R == RowCount
           M == N * R
           v == Visited
           T == ToSet(v)
<1>0. N \in Nat \ {0} /\ R \in Nat \ {0}
    OBVIOUS
<1>1. PICK id : Steps(id, N) /\ v = [n \in 1 .. M - 1 |-> id[n - 1]]
    BY VisitedIs
<1>2. /\ M \in Nat \ {0}
      /\ \A n \in 0 .. M - 1 :
            \E p \in 0 .. N - 1, i \in 0 .. R - 1 :
               n = p * R + i /\ id[n] = [page |-> p, row |-> i]
      /\ \A p \in 0 .. N - 1, i \in 0 .. R - 1 :
            /\ p * R + i \in 0 .. M - 1
            /\ id[p * R + i] = [page |-> p, row |-> i]
    <2>1. ByPage(id, N)
        BY <1>0, <1>1, PageByPage
    <2> QED
        BY <2>1 DEF ByPage
<1>3. End = [page |-> N - 1, row |-> R - 1]
    BY DEF End
<1>4. AllIds = {[page |-> p, row |-> i] : p \in 0 .. N - 1, i \in 0 .. R - 1}
    BY DEF AllIds
<1> HIDE DEF N, R, v
<1>5. (N - 1) * R + (R - 1) = M - 1
    BY <1>0
<1>6. N - 1 \in 0 .. N - 1 /\ R - 1 \in 0 .. R - 1
    BY <1>0
<1> HIDE DEF M
<1>7. ASSUME NEW n \in 0 .. M - 1 PROVE id[n] \in AllIds
    <2>1. PICK p \in 0 .. N - 1, i \in 0 .. R - 1 : id[n] = [page |-> p, row |-> i]
        BY <1>2
    <2> QED
        BY <1>4, <2>1
<1>8. id[M - 1] = End
    <2> DEFINE x == (N - 1) * R + (R - 1)
    <2>1. id[x] = [page |-> N - 1, row |-> R - 1]
        BY <1>2, <1>6
    <2>2. x = M - 1
        BY <1>5
    <2> HIDE DEF x
    <2> QED
        BY <1>3, <2>1, <2>2
<1>9. ASSUME NEW m \in 0 .. M - 1, NEW n \in 0 .. M - 1, id[m] = id[n]
      PROVE  m = n
    <2>1. PICK p \in 0 .. N - 1, i \in 0 .. R - 1 :
            m = p * R + i /\ id[m] = [page |-> p, row |-> i]
        BY <1>2
    <2>2. PICK q \in 0 .. N - 1, j \in 0 .. R - 1 :
            n = q * R + j /\ id[n] = [page |-> q, row |-> j]
        BY <1>2
    <2>3. p = q /\ i = j
        BY <1>9, <2>1, <2>2
    <2> QED
        BY <2>1, <2>2, <2>3
<1>10. DOMAIN v = 1 .. M - 1 /\ \A n \in 1 .. M - 1 : v[n] = id[n - 1]
    BY <1>1
<1>11. M \in Nat \ {0} /\ M - 1 \in Nat
    BY <1>2
<1>12. v \in Seq(AllIds)
    <2>1. \A n \in 1 .. M - 1 : n - 1 \in 0 .. M - 1
        BY <1>11
    <2>2. v \in [1 .. M - 1 -> AllIds]
        BY <1>1, <1>7, <2>1
    <2> QED
        BY <1>11, <2>2
<1>13. IsInjective(v)
    <2> SUFFICES ASSUME NEW m \in 1 .. M - 1, NEW n \in 1 .. M - 1, v[m] = v[n]
                 PROVE  m = n
        BY <1>10 DEF IsInjective
    <2>1. m - 1 \in 0 .. M - 1 /\ n - 1 \in 0 .. M - 1 /\ id[m - 1] = id[n - 1]
        BY <1>10, <1>11
    <2>2. m - 1 = n - 1
        BY <1>9, <2>1
    <2> QED
        BY <2>2
<1>14. T = AllIds \ {End}
    <2>1. T = {v[n] : n \in 1 .. M - 1}
        BY <1>10 DEF ToSet
    <2>2. ASSUME NEW n \in 1 .. M - 1 PROVE v[n] \in AllIds /\ v[n] # End
        <3>1. n - 1 \in 0 .. M - 1 /\ M - 1 \in 0 .. M - 1 /\ n - 1 # M - 1
            BY <1>11
        <3>2. id[n - 1] # id[M - 1]
            BY <1>9, <3>1
        <3> QED
            BY <1>7, <1>8, <1>10, <3>1, <3>2
    <2>3. ASSUME NEW x \in AllIds, x # End PROVE \E n \in 1 .. M - 1 : v[n] = x
        <3>1. PICK p \in 0 .. N - 1, i \in 0 .. R - 1 : x = [page |-> p, row |-> i]
            BY <1>4
        <3>2. PICK m \in 0 .. M - 1 : id[m] = x
            BY <1>2, <3>1
        <3>3. m # M - 1
            BY <1>8, <2>3, <3>2
        <3>4. m + 1 \in 1 .. M - 1 /\ m + 1 - 1 = m
            BY <1>11, <3>3
        <3> QED
            BY <1>10, <3>2, <3>4
    <2> QED
        BY <2>1, <2>2, <2>3
<1>15. IsFiniteSet(T) /\ Cardinality(T) = M - 1
    <2>1. IsFiniteSet(1 .. M - 1) /\ Cardinality(1 .. M - 1) = M - 1
        <3>2. CASE M - 1 = 0
            <4>1. 1 .. M - 1 = {}
                BY <3>2
            <4> QED
                BY <3>2, <4>1, FS_EmptySet
        <3>3. CASE M - 1 # 0
            <4> DEFINE k == M - 1
            <4>1. k \in Int /\ 1 \in Int /\ 1 <= k /\ k - 1 + 1 = k
                BY <1>11, <3>3
            <4> HIDE DEF k
            <4>2. IsFiniteSet(1 .. k) /\ Cardinality(1 .. k) = k - 1 + 1
                BY <4>1, FS_Interval
            <4> QED
                BY <4>1, <4>2 DEF k
        <3> QED
            BY <3>2, <3>3
    <2>2. T = {v[n] : n \in 1 .. M - 1}
        BY <1>10 DEF ToSet
    <2>3. v \in [1 .. M - 1 -> T]
        BY <1>1, <1>10, <2>2
    <2>4. v \in Surjection(1 .. M - 1, T) /\ v \in Injection(1 .. M - 1, T)
        BY <1>13, <2>2, <2>3 DEF Surjection, Injection
    <2> QED
        BY <2>1, <2>4, FS_Surjection
<1> QED
    BY <1>10, <1>11, <1>12, <1>13, <1>14, <1>15 DEF M, N, R, v

LEMMA NothingRead ==
    Deserialize(Serialize(<<>>)) = <<>>
<1>1. Serialize(<<>>) = <<>>
    BY DEF Serialize, FlattenSeq
<1>2. PICK got : SplitsAre(got, <<>>, Blank, {})
    BY Splitting
<1>3. Split(<<>>, Blank, {}) = <<>>
    BY <1>2 DEF SplitsAre
<1> QED
    BY <1>1, <1>3 DEF Deserialize, Pieces

\* A client cuts the rows that a chunk sends out of the bytes of all.
LEMMA ContentSent ==
    ASSUME NEW s, SoundSchema(s), NEW k \in Nat, NEW rs,
           rs = [i \in 1 .. k |-> rs[i]], \A i \in 1 .. k : OfSchema(s, rs[i])
    PROVE  GetTableContent(Content(s, rs)) = rs
<1> DEFINE bytes == [i \in 1 .. k |-> SerializeRow(s, rs[i])]
           lengths == [i \in 1 .. k |-> RowSpace(s, rs[i])]
           all == FlattenSeq(bytes)
           read == Deserialize(Serialize(lengths))
           b == Bytes(Serialize(all))
<1>1. Content(s, rs) = [rows |-> Serialize(all), lengths |-> Serialize(lengths),
                        schema |-> SchemaText(s)]
    <2>1. DOMAIN rs = 1 .. k
        OBVIOUS
    <2> QED
        BY <2>1 DEF Content
<1>2. GetTableContent(Content(s, rs))
        = [i \in DOMAIN read |-> DeserializeRow(s, b, Starts(read)[i])]
    <2>1. PICK a : a = Content(s, rs)
        OBVIOUS
    <2>2. /\ Serialize(all) = a.rows /\ Serialize(lengths) = a.lengths
          /\ SchemaText(s) = a.schema
        BY <1>1, <2>1
    <2>3. DeserializeSchema(a.schema) = s
        BY <2>2, SchemaSent
    <2>4. read = Deserialize(a.lengths) /\ b = Bytes(a.rows)
        BY <2>2
    <2> HIDE DEF read, b
    <2>5. GetTableContent(a)
            = [i \in DOMAIN read |-> DeserializeRow(s, b, Starts(read)[i])]
        BY <2>3, <2>4 DEF GetTableContent
    <2> QED
        BY <2>1, <2>5
<1>3. /\ bytes \in [1 .. k -> Seq(Cell)] /\ lengths \in [1 .. k -> Nat]
      /\ \A i \in 1 .. k : /\ lengths[i] = Len(bytes[i]) /\ lengths[i] # 0
                           /\ bytes[i] = SerializeRow(s, rs[i])
    <2>1. \A i \in 1 .. k : /\ SerializeRow(s, rs[i]) \in Seq(Cell)
                            /\ Len(SerializeRow(s, rs[i])) = RowSpace(s, rs[i])
                            /\ RowSpace(s, rs[i]) \in Nat \ {0}
        BY RowWritten, RowSpaceIs
    <2> QED
        BY <2>1
<1> HIDE DEF bytes, lengths
<1>4. CASE k = 0
    <2>1. lengths = <<>>
        BY <1>3, <1>4
    <2>2. read = <<>>
        BY <2>1, NothingRead
    <2>3. DOMAIN read = 1 .. k
        BY <1>4, <2>2
    <2>4. rs = <<>>
        BY <1>4
    <2> HIDE DEF b, read
    <2> QED
        BY <1>2, <1>4, <2>2, <2>4
<1>5. CASE k # 0
    <2>1. lengths \in Seq(Nat) /\ lengths # <<>>
        <3>1. lengths \in Seq(Nat) /\ DOMAIN lengths = 1 .. k
            BY <1>3
        <3>2. 1 \in DOMAIN lengths
            BY <1>5, <3>1
        <3>3. lengths # <<>>
            BY <3>2
        <3> QED
            BY <3>1, <3>3
    <2>2. read = lengths
        BY <2>1, NumbersRead
    <2>3. k \in Nat \ {0}
        BY <1>5
    <2>4. PICK o : Lays(all, bytes, k, o)
        BY <1>3, <2>3, Laid
    <2>5. all \in Seq(Cell)
        BY <1>3, <2>3, Laid
    <2> HIDE DEF all
    <2>6. \A n \in 0 .. k : o[n] = Total(lengths, 1 .. n)
        <3>1. LengthsOf(lengths, bytes, k)
            BY <1>3 DEF LengthsOf
        <3> QED
            BY <2>4, <3>1, LaidTotals
    <2>7. /\ o \in [0 .. k -> Nat] /\ o[0] = 0 /\ Len(all) = o[k]
          /\ \A i \in 0 .. k : o[i] <= Len(all)
          /\ \A i \in 1 .. k : /\ o[i] = o[i - 1] + Len(bytes[i])
                               /\ \A j \in 1 .. Len(bytes[i]) :
                                    all[o[i - 1] + j] = bytes[i][j]
        BY <2>4 DEF Lays
    <2>8. all # <<>> /\ Len(all) \in Nat
        <3>1. 1 \in 1 .. k /\ 1 - 1 = 0 /\ 1 \in 0 .. k
            BY <2>3
        <3>2. o[1] = 0 + Len(bytes[1])
            BY <2>7, <3>1
        <3>5. lengths[1] \in Nat /\ lengths[1] = Len(bytes[1]) /\ lengths[1] # 0
            BY <1>3, <3>1
        <3>3. o[1] <= Len(all)
            BY <2>7, <3>1
        <3>4. Len(all) # 0
            BY <2>5, <3>2, <3>3, <3>5
        <3> QED
            BY <2>5, <3>4
    <2>9. b = [j \in 0 .. Len(all) - 1 |-> all[j + 1]]
        <3>1. Deserialize(Serialize(all)) = all
            BY <2>5, <2>8, NumbersRead
        <3> QED
            BY <3>1 DEF Bytes
    <2> HIDE DEF b
    <2>10. DOMAIN lengths = 1 .. k
        BY <1>3
    <2>11. ASSUME NEW i \in 1 .. k PROVE Starts(lengths)[i] = o[i - 1]
        <3>1. i - 1 \in 0 .. k
            OBVIOUS
        <3> QED
            BY <2>6, <2>10, <3>1 DEF Starts, Total
    <2>12. ASSUME NEW i \in 1 .. k PROVE DeserializeRow(s, b, o[i - 1]) = rs[i]
        <3>1. i - 1 \in 0 .. k /\ i \in 0 .. k
            OBVIOUS
        <3>2. PICK u \in Nat : u = o[i - 1]
            BY <2>7, <3>1
        <3>3. u + Len(bytes[i]) <= Len(all) /\ Len(bytes[i]) \in Nat
            BY <1>3, <2>7, <3>1, <3>2
        <3>4. ASSUME NEW j \in 1 .. Len(bytes[i]) PROVE b[u + j - 1] = bytes[i][j]
            <4>1. u + j - 1 \in 0 .. Len(all) - 1 /\ u + j - 1 + 1 = u + j
                BY <2>8, <3>3
            <4>2. b[u + j - 1] = all[u + j]
                BY <2>9, <4>1
            <4> QED
                BY <2>7, <3>2, <4>2
        <3>5. Holds(b, u, SerializeRow(s, rs[i]))
            BY <1>3, <3>4 DEF Holds
        <3> QED
            BY <3>2, <3>5, RowReadBack
    <2> HIDE DEF read
    <2> QED
        BY <1>2, <2>2, <2>10, <2>11, <2>12
<1> QED
    BY <1>4, <1>5

\* What is read of a varchar, wherever, is a value of one.
LEMMA VarcharRead ==
    ASSUME NEW length \in Nat, NEW page, NEW p \in Nat,
           \A j \in 0 .. length - 1 : page[p + j] \in Cell
    PROVE  OfColumn([type |-> "varchar", length |-> length], Varchar(page, p, length))
<1> DEFINE Ends(n) == /\ n < length => page[p + n] = 0
                      /\ \A j \in 0 .. n - 1 : page[p + j] # 0
           end == CHOOSE n \in 0 .. length : Ends(n)
           v == [n \in 1 .. end |-> page[p + n - 1]]
           S == {n \in 0 .. length : \A j \in 0 .. n - 1 : page[p + j] # 0}
<1>1. Varchar(page, p, length) = v
    BY DEF Varchar
<1>2. \E n \in 0 .. length : Ends(n)
    <2> SUFFICES ASSUME \A n \in 0 .. length : ~Ends(n) PROVE FALSE
        OBVIOUS
    <2>1. 0 \in S
        OBVIOUS
    <2>2. ASSUME NEW n \in 0 .. length - 1, n \in S PROVE n + 1 \in S
        <3>1. n \in 0 .. length /\ n + 1 \in 0 .. length /\ n < length
            OBVIOUS
        <3>2. \A j \in 0 .. n - 1 : page[p + j] # 0
            BY <2>2
        <3>3. page[p + n] # 0
            BY <3>1, <3>2
        <3>4. \A j \in 0 .. n + 1 - 1 : j = n \/ j \in 0 .. n - 1
            OBVIOUS
        <3> QED
            BY <3>1, <3>2, <3>3, <3>4
    <2> HIDE DEF S
    <2>3. \A n \in 0 .. length : n \in S
        BY <2>1, <2>2, BoundedInduction
    <2>4. length \in 0 .. length /\ length \in S
        BY <2>3
    <2>5. Ends(length)
        BY <2>4 DEF S
    <2> QED
        BY <2>4, <2>5
<1>3. end \in 0 .. length /\ Ends(end)
    BY <1>2
<1> HIDE DEF end
<1>4. ASSUME NEW n \in 1 .. end PROVE page[p + n - 1] \in Cell /\ page[p + n - 1] # 0
    <2>1. n - 1 \in 0 .. length - 1 /\ n - 1 \in 0 .. end - 1 /\ p + (n - 1) = p + n - 1
        BY <1>3
    <2> QED
        BY <1>3, <2>1
<1>5. end \in Nat /\ end <= length
    BY <1>3
<1>6. v \in Seq(Cell) /\ Len(v) = end /\ DOMAIN v = 1 .. end
    BY <1>4, <1>5
<1>7. 0 \notin ToSet(v)
    BY <1>4, <1>6 DEF ToSet
<1> QED
    BY <1>1, <1>5, <1>6, <1>7 DEF OfColumn

\* Whatever a slot holds is read as a row.
LEMMA SlotRead ==
    ASSUME NEW s \in Schemas, ~HasString(s), NEW page \in Page, NEW at \in Nat,
           at + FixedRowSpace(s, 0) <= PageSize
    PROVE  OfSchema(s, DeserializeRow(s, page, at))
<1> DEFINE N == Len(s)
           w == [i \in DOMAIN s |-> Width(s[i])]
<1>1. /\ N \in Nat \ {0} /\ DOMAIN s = 1 .. N
      /\ \A i \in 1 .. N : s[i].length \in Nat /\ s[i].type # "string"
      /\ 2 * Bit(N) <= Byte
    <2>1. 2 * Bit(N) <= Byte
        BY SchemasAssumption
    <2> QED
        BY <2>1, SoundSchemas DEF SoundSchema, SoundColumn, HasString
<1>2. PICK got : ReadsAre(got, s, page, at)
    BY <1>1, Deserializing
<1>3. \A i \in 1 .. N : w[i] \in Nat /\ w[i] = Width(s[i])
    BY <1>1 DEF Width
<1>4. FixedRowSpace(s, 0) = 1 + Total(w, 1 .. N)
    <2>1. ASSUME NEW i \in 1 .. N PROVE ~IsNull(0, i)
        <3>1. Bit(i) \in Nat \ {0}
            <4>1. i \in Nat \ {0}
                BY <1>1
            <4> QED
                BY <4>1, BitIs
        <3>2. 0 \in 0 .. Bit(i) - 1 /\ 0 = 0 + Bit(i) * 0
            BY <3>1
        <3>3. 0 \div Bit(i) = 0
            BY <3>1, <3>2, Dividing
        <3> QED
            BY <3>3 DEF IsNull
    <2>2. {i \in DOMAIN s : ~IsNull(0, i)} = 1 .. N
        BY <1>1, <2>1
    <2> QED
        BY <2>2 DEF FixedRowSpace, Total
<1>5. \A n \in 0 .. N : /\ Total(w, 1 .. n) \in Nat /\ Total(w, 1 .. n) <= Total(w, 1 .. N)
                        /\ n # N => Total(w, 1 .. n + 1) = Total(w, 1 .. n) + w[n + 1]
    <2> HIDE DEF w
    <2> SUFFICES ASSUME NEW n \in 0 .. N
                 PROVE  /\ Total(w, 1 .. n) \in Nat /\ Total(w, 1 .. n) <= Total(w, 1 .. N)
                        /\ n # N => Total(w, 1 .. n + 1) = Total(w, 1 .. n) + w[n + 1]
        OBVIOUS
    <2>1. IsFiniteSet(1 .. N) /\ 1 .. n \subseteq 1 .. N
        BY <1>1, FS_Interval
    <2>2. \A i \in 1 .. n : w[i] \in Nat /\ w[i] <= w[i]
        BY <1>3, <2>1
    <2>3. Total(w, 1 .. n) <= Total(w, 1 .. N)
        BY <1>3, <2>1, <2>2, SumBelow
    <2>4. n \in Nat
        OBVIOUS
    <2>5. Total(w, 1 .. n) \in Nat
        BY <2>2, <2>4, TotalOfCells
    <2>6. ASSUME n # N PROVE Total(w, 1 .. n + 1) = Total(w, 1 .. n) + w[n + 1]
        <3> HIDE DEF N
        <3>1. \A i \in 1 .. n + 1 : i \in 1 .. N
            <4>1. N \in Nat
                BY <1>1
            <4> QED
                BY <2>4, <2>6, <4>1
        <3>2. \A i \in 1 .. n + 1 : w[i] \in Nat
            BY <1>3, <3>1
        <3> QED
            BY <2>4, <3>2, TotalOfOneMore
    <2> QED
        BY <2>3, <2>5, <2>6
<1>6. /\ got[0] = [row |-> <<>>, next |-> at + 1]
      /\ \A i \in 1 .. N : got[i] = ReadColumn(got[i - 1], s[i], i, page[at], page)
      /\ DeserializeRow(s, page, at) = got[N].row
    BY <1>2 DEF ReadsAre
<1> HIDE DEF N, w
<1> DEFINE V == Seq(Cell) \cup {Null}
           S == {n \in 0 .. N :
                   /\ got[n].next \in Nat /\ at + 1 <= got[n].next
                   /\ got[n].next <= at + 1 + Total(w, 1 .. n)
                   /\ got[n].row \in Seq(V) /\ Len(got[n].row) = n
                   /\ \A i \in 1 .. n : OfColumn(s[i], got[n].row[i])}
<1> HIDE DEF V
<1>7. 0 \in S
    <2>1. 0 \in 0 .. N /\ Total(w, 1 .. 0) = 0
        BY <1>1, TotalOfEmpty
    <2>2. got[0].next = at + 1 /\ got[0].row = <<>>
        BY <1>6
    <2>3. <<>> \in Seq(V) /\ Len(<<>>) = 0
        OBVIOUS
    <2>4. /\ got[0].next \in Nat /\ at + 1 <= got[0].next
          /\ got[0].next <= at + 1 + Total(w, 1 .. 0)
        BY <2>1, <2>2
    <2>5. \A i \in 1 .. 0 : OfColumn(s[i], got[0].row[i])
        OBVIOUS
    <2>6. got[0].row \in Seq(V) /\ Len(got[0].row) = 0
        BY <2>2, <2>3
    <2> QED
        BY <2>1, <2>4, <2>5, <2>6
<1>8. ASSUME NEW n \in 0 .. N - 1, n \in S PROVE n + 1 \in S
    <2> DEFINE c == s[n + 1]
               p == got[n].next
               r == got[n].row
               null == IsNull(page[at], n + 1)
    <2>1. /\ n + 1 \in 1 .. N /\ n + 1 - 1 = n /\ n \in 0 .. N /\ n # N
          /\ n + 1 \in 0 .. N /\ n \in Nat
        BY <1>1
    <2>2. /\ p \in Nat /\ at + 1 <= p /\ p <= at + 1 + Total(w, 1 .. n)
          /\ r \in Seq(V) /\ Len(r) = n /\ \A i \in 1 .. n : OfColumn(s[i], r[i])
        BY <1>8
    <2>3. got[n + 1] = ReadColumn(got[n], c, n + 1, page[at], page)
        BY <1>6, <2>1
    <2>4. /\ c.length \in Nat /\ c.type # "string" /\ w[n + 1] = Width(c)
          /\ Width(c) \in Nat
        BY <1>1, <1>3, <2>1
    <2>5. /\ Total(w, 1 .. n) \in Nat /\ Total(w, 1 .. N) \in Nat
          /\ Total(w, 1 .. n + 1) = Total(w, 1 .. n) + w[n + 1]
          /\ Total(w, 1 .. n + 1) <= Total(w, 1 .. N)
        BY <1>1, <1>5, <2>1
    <2>6. p + Width(c) <= at + 1 + Total(w, 1 .. n + 1) /\ p + Width(c) <= PageSize
        BY <1>4, <2>2, <2>4, <2>5, PageAssumption
    <2>7. \A j \in 0 .. PageSize - 1 : page[j] \in Cell
        BY DEF Page, Cell
    <2> SUFFICES \E v, d : /\ got[n + 1] = [row |-> Append(r, v), next |-> p + d]
                           /\ d \in 0 .. Width(c) /\ v \in V /\ OfColumn(c, v)
        <3>1. PICK v, d : /\ got[n + 1] = [row |-> Append(r, v), next |-> p + d]
                          /\ d \in 0 .. Width(c) /\ v \in V /\ OfColumn(c, v)
            OBVIOUS
        <3> DEFINE t == Append(r, v)
        <3>2. /\ t \in Seq(V) /\ Len(t) = n + 1 /\ t[n + 1] = v
              /\ \A i \in 1 .. n : t[i] = r[i]
            BY <2>1, <2>2, <3>1
        <3> HIDE DEF t
        <3>3. ASSUME NEW i \in 1 .. n + 1 PROVE OfColumn(s[i], t[i])
            <4>1. CASE i = n + 1
                BY <3>1, <3>2, <4>1
            <4>2. CASE i # n + 1
                <5>1. i \in 1 .. n
                    BY <4>2
                <5> QED
                    BY <2>2, <3>2, <5>1
            <4> QED
                BY <4>1, <4>2
        <3>4. /\ p + d \in Nat /\ at + 1 <= p + d
              /\ p + d <= at + 1 + Total(w, 1 .. n + 1)
            <4> HIDE DEF p
            <4>1. p \in Nat /\ at + 1 <= p /\ d \in Nat /\ d <= Width(c)
                BY <2>2, <2>4, <3>1
            <4>2. PICK x \in Nat : x = Total(w, 1 .. n + 1)
                BY <2>4, <2>5
            <4>3. p + Width(c) <= at + 1 + x /\ Width(c) \in Nat
                BY <2>4, <2>6, <4>2
            <4>4. p + d \in Nat /\ at + 1 <= p + d
                BY <4>1
            <4>5. p + d <= at + 1 + x
                BY <4>1, <4>3
            <4> QED
                BY <4>2, <4>4, <4>5
        <3>5. got[n + 1].next = p + d /\ got[n + 1].row = t
            BY <3>1 DEF t
        <3> HIDE DEF p
        <3> QED
            BY <2>1, <3>2, <3>3, <3>4, <3>5
    <2> HIDE DEF p, r
    <2>8. got[n].next = p /\ got[n].row = r
        BY DEF p, r
    <2>9. CASE null
        <3>1. got[n + 1] = [row |-> Append(r, Null), next |-> p]
            BY <2>3, <2>8, <2>9 DEF ReadColumn
        <3>2. p + 0 = p /\ 0 \in 0 .. Width(c) /\ Null \in V /\ OfColumn(c, Null)
            BY <2>2, <2>4 DEF V, OfColumn
        <3> QED
            BY <3>1, <3>2
    <2>10. CASE ~null /\ c.type = "varchar"
        <3> DEFINE v == Varchar(page, p, c.length)
        <3>1. got[n + 1] = [row |-> Append(r, v), next |-> p + c.length]
            BY <2>3, <2>8, <2>10 DEF ReadColumn
        <3>2. Width(c) = c.length
            BY <2>10 DEF Width
        <3>3. \A j \in 0 .. c.length - 1 : p + j \in 0 .. PageSize - 1
            BY <2>2, <2>4, <2>6, <3>2, PageAssumption
        <3>4. \A j \in 0 .. c.length - 1 : page[p + j] \in Cell
            BY <2>7, <3>3
        <3>5. OfColumn([type |-> "varchar", length |-> c.length], v)
            BY <2>2, <2>4, <3>4, VarcharRead
        <3>6. OfColumn(c, v)
            BY <2>10, <3>5 DEF OfColumn
        <3>7. v \in V
            BY <3>6 DEF OfColumn, V
        <3>8. c.length \in 0 .. Width(c)
            BY <2>4, <3>2
        <3> QED
            BY <3>1, <3>6, <3>7, <3>8
    <2>11. CASE ~null /\ c.type # "varchar"
        <3> DEFINE v == Cells(page, p, 1)
        <3>1. got[n + 1] = [row |-> Append(r, v), next |-> p + 1]
            BY <2>3, <2>4, <2>8, <2>11 DEF ReadColumn
        <3>2. Width(c) = 1
            BY <2>11 DEF Width
        <3>3. p \in 0 .. PageSize - 1
            BY <2>2, <2>6, <3>2, PageAssumption
        <3>4. v = [j \in 1 .. 1 |-> page[p]]
            BY <2>2 DEF Cells
        <3> HIDE DEF v
        <3>5. v \in Seq(Cell) /\ Len(v) = 1
            <4>1. page[p] \in Cell
                BY <2>7, <3>3
            <4> QED
                BY <3>4, <4>1
        <3>6. OfColumn(c, v) /\ v \in V
            BY <2>4, <2>11, <3>5 DEF OfColumn, V
        <3> QED
            <4>1. 1 \in 0 .. Width(c)
                BY <3>2
            <4> QED
                BY <3>1, <3>6, <4>1
    <2> QED
        BY <2>9, <2>10, <2>11
<1> HIDE DEF S
<1>9. N \in S
    <2>1. \A n \in 0 .. N : n \in S
        BY <1>1, <1>7, <1>8, BoundedInduction
    <2> QED
        BY <1>1, <2>1
<1>10. /\ got[N].row \in Seq(V) /\ Len(got[N].row) = N
       /\ \A i \in 1 .. N : OfColumn(s[i], got[N].row[i])
    BY <1>9 DEF S
<1>11. got[N].row = [i \in 1 .. N |-> got[N].row[i]]
    BY <1>10
<1> QED
    BY <1>1, <1>6, <1>10, <1>11 DEF OfSchema, N

\* The content crashes the chunk exactly if an id that is visited has no row.
LEMMA Crashing ==
    ASSUME Len(pages) \in Nat \ {0}, RowCount \in Nat \ {0}
    PROVE  ContentCrashes <=> \E id \in AllIds \ {End} : GetRow(id) = NoRow
<1> DEFINE v == Visited
<1>1. DOMAIN v = 1 .. Len(pages) * RowCount - 1 /\ ToSet(v) = AllIds \ {End}
    BY ScanVisits
<1>2. Scanned = [i \in DOMAIN v |-> GetRow(v[i])]
    BY DEF Scanned
<1> HIDE DEF v
<1>3. ContentCrashes <=> \E i \in DOMAIN v : GetRow(v[i]) = NoRow
    BY <1>2 DEF ContentCrashes, ToSet
<1> QED
    BY <1>1, <1>3 DEF ToSet

\* The ids of a table of fixed pages.
LEMMA FixedIds ==
    ASSUME StringsFit, Inv, ~Flexible, Len(pages) \in Nat \ {0}, RowCount \in Nat \ {0}
    PROVE  /\ DOMAIN rows \cup phantoms \subseteq AllIds
           /\ \A id \in AllIds :
                IF id \in DOMAIN rows \cup phantoms
                THEN OfSchema(schema, GetRow(id)) /\ GetRow(id) # NoRow
                ELSE GetRow(id) = NoRow
<1> DEFINE w == SlotOf(schema)
<1>1. /\ w \in Nat \ {0} /\ SlotSpace = w /\ schema \in Schemas /\ ~HasString(schema)
      /\ Capacity = PageSize \div w
    BY InvFacts
<1>2. RowCount = Capacity /\ 0 .. RowCount - 1 = Slots(w)
    BY <1>1 DEF RowCount, Slots
<1>3. FixedPages(schema, pages, rows, phantoms)
    BY DEF Inv
<1>4. \A id : GetRow(id) = IF pages[id.page + 1][id.row * w] = 0 THEN NoRow
                           ELSE DeserializeRow(schema, pages[id.page + 1], id.row * w + 1)
    BY <1>1 DEF GetRow, FixedRow, Flag
<1>5. pages \in Seq(Page) /\ \A q \in 1 .. Len(pages) : pages[q] \in Page
    BY DEF Inv, TypeOK
<1>6. w = 1 + FixedRowSpace(schema, 0) /\ FixedRowSpace(schema, 0) \in Nat
    <2>1. /\ Len(schema) \in Nat \ {0} /\ DOMAIN schema = 1 .. Len(schema)
          /\ \A i \in 1 .. Len(schema) : schema[i].length \in Nat
        BY <1>1, SoundSchemas DEF SoundSchema, SoundColumn
    <2> QED
        BY <2>1, FixedSpace DEF SlotOf
<1> HIDE DEF w
<1>7. ASSUME NEW q \in 1 .. Len(pages), NEW i \in Slots(w) PROVE Id(q, i) \in AllIds
    <2>1. q - 1 \in 0 .. Len(pages) - 1
        OBVIOUS
    <2> QED
        BY <1>2, <2>1 DEF AllIds, Id
<1>8. DOMAIN rows \cup phantoms \subseteq AllIds
    BY <1>3, <1>7 DEF FixedPages, w
<1>9. ASSUME NEW id \in AllIds
      PROVE  IF id \in DOMAIN rows \cup phantoms
             THEN OfSchema(schema, GetRow(id)) /\ GetRow(id) # NoRow
             ELSE GetRow(id) = NoRow
    <2>1. PICK p \in 0 .. Len(pages) - 1, i \in 0 .. RowCount - 1 :
            id = [page |-> p, row |-> i]
        BY DEF AllIds
    <2>2. p + 1 \in 1 .. Len(pages) /\ p + 1 - 1 = p /\ i \in Slots(w)
        BY <1>2, <2>1
    <2>3. id = Id(p + 1, i) /\ id.page + 1 = p + 1 /\ id.row = i
        BY <2>1, <2>2 DEF Id
    <2> DEFINE page == pages[p + 1]
    <2>4. page \in Page
        BY <1>5, <2>2
    <2>5. page[i * w] # 0 <=> id \in DOMAIN rows \cup phantoms
        <3>1. FixedPage(schema, page, p + 1, rows, phantoms)
            BY <1>3, <2>2 DEF FixedPages
        <3> QED
            BY <2>2, <2>3, <3>1 DEF FixedPage, w
    <2>6. GetRow(id) = IF page[i * w] = 0 THEN NoRow
                       ELSE DeserializeRow(schema, page, i * w + 1)
        BY <1>4, <2>3
    <2> HIDE DEF page
    <2>7. i * w + 1 \in Nat /\ i * w + 1 + FixedRowSpace(schema, 0) <= PageSize
        <3>1. i * w \in Nat /\ i * w + w <= PageSize
            BY <1>1, <2>2, SlotsFit DEF Slots
        <3> DEFINE x == i * w
        <3>2. x \in Nat /\ x + w <= PageSize
            BY <3>1
        <3> HIDE DEF x
        <3>3. x + 1 \in Nat /\ x + 1 + FixedRowSpace(schema, 0) <= PageSize
            BY <1>6, <3>2, PageAssumption
        <3> QED
            BY <3>3 DEF x
    <2>8. OfSchema(schema, DeserializeRow(schema, page, i * w + 1))
        BY <1>1, <2>4, <2>7, SlotRead
    <2>9. DeserializeRow(schema, page, i * w + 1) # NoRow
        <3>1. PICK r : r = DeserializeRow(schema, page, i * w + 1)
            OBVIOUS
        <3>2. Len(schema) \in Nat \ {0} /\ r = [j \in 1 .. Len(schema) |-> r[j]]
            BY <2>8, <3>1 DEF OfSchema
        <3>3. 1 \in DOMAIN r
            BY <3>2
        <3>4. r # <<>>
            BY <3>3
        <3> QED
            BY <3>1, <3>4 DEF NoRow
    <2> QED
        BY <2>5, <2>6, <2>8, <2>9
<1> QED
    BY <1>8, <1>9

LEMMA FixedScan ==
    ASSUME StringsFit, Inv, ~Flexible, Len(pages) \in Nat \ {0}, RowCount \in Nat \ {0}
    PROVE  /\ DOMAIN rows \ ToSet(Visited) \subseteq {End}
           /\ ContentCrashes <=>
                Cardinality((DOMAIN rows \cup phantoms) \ {End})
                   < Len(pages) * Capacity - 1
           /\ ~ContentCrashes => GetTableContent(Content(schema, Scanned)) = Scanned
<1> DEFINE O == DOMAIN rows \cup phantoms
           V == AllIds \ {End}
           M == Len(pages) * RowCount
<1>1. /\ M - 1 \in Nat /\ DOMAIN Visited = 1 .. M - 1 /\ Visited \in Seq(AllIds)
      /\ ToSet(Visited) = V
      /\ IsFiniteSet(V) /\ Cardinality(V) = M - 1
    BY ScanVisits
<1>2. /\ O \subseteq AllIds
      /\ \A id \in AllIds : IF id \in O
                            THEN OfSchema(schema, GetRow(id)) /\ GetRow(id) # NoRow
                            ELSE GetRow(id) = NoRow
    BY FixedIds
<1>3. M = Len(pages) * Capacity
    BY DEF RowCount
<1>4. ContentCrashes <=> \E id \in V : id \notin O
    BY <1>2, Crashing
<1> HIDE DEF O, V, M
<1>5. O \ {End} \subseteq V
    BY <1>2 DEF V
<1>6. DOMAIN rows \ ToSet(Visited) \subseteq {End}
    BY <1>1, <1>5 DEF O
<1>7. (\E id \in V : id \notin O) <=> Cardinality(O \ {End}) < M - 1
    <2>1. IsFiniteSet(O \ {End}) /\ Cardinality(O \ {End}) <= M - 1
        BY <1>1, <1>5, FS_Subset
    <2>2. Cardinality(O \ {End}) \in Nat
        BY <2>1, FS_CardinalityType
    <2>3. Cardinality(O \ {End}) = M - 1 <=> V = O \ {End}
        BY <1>1, <1>5, FS_Subset
    <2>4. V = O \ {End} <=> \A id \in V : id \in O
        BY <1>5 DEF V
    <2> QED
        BY <1>1, <2>1, <2>2, <2>3, <2>4
<1>8. ASSUME ~ContentCrashes
      PROVE  GetTableContent(Content(schema, Scanned)) = Scanned
    <2> DEFINE v == Visited
               r == Scanned
    <2>1. r = [i \in 1 .. M - 1 |-> GetRow(v[i])]
        BY <1>1 DEF Scanned
    <2>2. ASSUME NEW i \in 1 .. M - 1 PROVE OfSchema(schema, GetRow(v[i]))
        <3>1. v[i] \in V
            BY <1>1 DEF ToSet
        <3>2. v[i] \in O /\ v[i] \in AllIds
            BY <1>4, <1>8, <3>1 DEF V
        <3> QED
            BY <1>2, <3>2
    <2> HIDE DEF v, r
    <2>3. r = [i \in 1 .. M - 1 |-> r[i]] /\ \A i \in 1 .. M - 1 : OfSchema(schema, r[i])
        BY <2>1, <2>2
    <2>4. SoundSchema(schema)
        BY InvFacts
    <2>5. GetTableContent(Content(schema, r)) = r
        BY <1>1, <2>3, <2>4, ContentSent
    <2> QED
        BY <2>5 DEF r
<1> QED
    BY <1>3, <1>4, <1>6, <1>7, <1>8 DEF O

\* A row of a flexible page takes a byte at least: a page has room for fewer
\* rows than a scan visits.
LEMMA FewRows ==
    ASSUME StringsFit, Inv, Flexible, ~damaged, PageSize > 3, NEW q \in 1 .. Len(pages)
    PROVE  Count(pages[q]) \in Nat /\ Count(pages[q]) <= PageSize - 3
<1> DEFINE page == pages[q]
           S == {n \in Nat : n <= PrevSum(page, n)}
<1>1. page \in Page /\ PageSize \in Nat
    BY PageAssumption DEF Inv, TypeOK
<1>2. PICK c \in 0 .. PageSize - 1 :
        c = Count(page) /\ PrevSum(page, c) + 1 + c <= PageSize
    BY DEF Inv, Room
<1>3. FlexiblePage(schema, page, q, rows)
    BY DEF Inv, FlexiblePages
<1>4. \A id \in DOMAIN rows : OfSchema(schema, rows[id])
    BY InvFacts
<1> HIDE DEF page
<1>5. ASSUME NEW n \in 0 .. c - 1 PROVE page[n + 1] \in Nat \ {0}
    <2>1. n \in 0 .. PageSize - 1 /\ n < Count(page)
        BY <1>1, <1>2
    <2>2. Id(q, n) \in DOMAIN rows /\ RowLength(page, n) = RowSpace(schema, rows[Id(q, n)])
        BY <1>3, <2>1 DEF FlexiblePage
    <2>3. RowSpace(schema, rows[Id(q, n)]) \in Nat \ {0}
        BY <1>4, <2>2, RowSpaceIs
    <2> QED
        BY <2>2, <2>3 DEF RowLength
<1>6. 0 \in S
    BY <1>1, PrevSums
<1>7. ASSUME NEW n \in 0 .. c - 1, n \in S PROVE n + 1 \in S
    <2>1. n \in Nat /\ n \in 0 .. PageSize - 2 /\ n \in 0 .. PageSize - 1
        BY <1>1, <1>2
    <2>2. PrevSum(page, n + 1) = PrevSum(page, n) + page[n + 1] /\ PrevSum(page, n) \in Nat
        BY <1>1, <2>1, PrevSums
    <2>3. n <= PrevSum(page, n) /\ page[n + 1] \in Nat \ {0}
        BY <1>5, <1>7
    <2> QED
        BY <2>1, <2>2, <2>3
<1>8. c \in S
    <2>1. c \in Nat /\ c \in 0 .. c
        BY <1>2
    <2> HIDE DEF S
    <2>2. \A n \in 0 .. c : n \in S
        BY <1>6, <1>7, <2>1, BoundedInduction
    <2> QED
        BY <2>1, <2>2
<1>9. PrevSum(page, c) \in Nat
    BY <1>1, <1>2, PrevSums
<1> HIDE DEF S
<1>10. c <= PrevSum(page, c)
    BY <1>8 DEF S
<1>11. c \in Nat /\ c <= PageSize - 3
    BY <1>1, <1>2, <1>9, <1>10
<1> QED
    BY <1>2, <1>11 DEF page

\* Every scan of a table of flexible pages comes to a slot without a row.
LEMMA FlexibleScan ==
    ASSUME StringsFit, Inv, Flexible, ~damaged, PageSize > 3, Len(pages) \in Nat \ {0}
    PROVE  /\ DOMAIN rows \ ToSet(Visited) \subseteq {End}
           /\ End \notin DOMAIN rows
           /\ ContentCrashes
<1>1. PageSize \in Nat /\ RowCount = PageSize - 1 /\ RowCount \in Nat \ {0}
    BY PageAssumption DEF RowCount
<1>2. ASSUME NEW id \in DOMAIN rows
      PROVE  \E p \in 0 .. Len(pages) - 1, i \in 0 .. PageSize - 4 :
                id = [page |-> p, row |-> i]
    <2>1. PICK q \in 1 .. Len(pages), i \in 0 .. PageSize - 1 : id = Id(q, i)
        BY DEF Inv, FlexiblePages
    <2>2. FlexiblePage(schema, pages[q], q, rows)
        BY DEF Inv, FlexiblePages
    <2>3. i < Count(pages[q])
        BY <2>1, <2>2 DEF FlexiblePage
    <2>4. Count(pages[q]) \in Nat /\ Count(pages[q]) <= PageSize - 3
        BY FewRows
    <2>5. i \in 0 .. PageSize - 4 /\ q - 1 \in 0 .. Len(pages) - 1
        BY <1>1, <2>3, <2>4
    <2> QED
        BY <2>1, <2>5 DEF Id
<1>3. ASSUME NEW id \in DOMAIN rows PROVE id \in AllIds \ {End}
    <2>1. PICK p \in 0 .. Len(pages) - 1, i \in 0 .. PageSize - 4 :
            id = [page |-> p, row |-> i]
        BY <1>2
    <2>2. i \in 0 .. RowCount - 1 /\ i # RowCount - 1
        BY <1>1
    <2> QED
        BY <2>1, <2>2 DEF AllIds, End
<1>4. ToSet(Visited) = AllIds \ {End}
    BY <1>1, ScanVisits
<1> DEFINE free == [page |-> 0, row |-> PageSize - 3]
<1>5. free \in AllIds \ {End}
    <2>1. 0 \in 0 .. Len(pages) - 1
        OBVIOUS
    <2>2. PageSize - 3 \in 0 .. RowCount - 1 /\ PageSize - 3 # RowCount - 1
        BY <1>1
    <2> QED
        BY <2>1, <2>2 DEF AllIds, End
<1>6. GetRow(free) = NoRow
    <2>1. 1 \in 1 .. Len(pages)
        OBVIOUS
    <2>2. Count(pages[1]) \in Nat /\ Count(pages[1]) <= PageSize - 3
        BY <2>1, FewRows
    <2>3. PageSize - 3 >= Count(pages[1])
        BY <1>1, <2>2
    <2>4. FlexibleRow(pages[1], PageSize - 3) = NoRow
        BY <2>3 DEF FlexibleRow
    <2>5. free.page + 1 = 1 /\ free.row = PageSize - 3
        OBVIOUS
    <2> HIDE DEF free
    <2> QED
        BY <2>4, <2>5 DEF GetRow
<1>7. ContentCrashes
    BY <1>1, <1>5, <1>6, Crashing
<1> QED
    BY <1>3, <1>4, <1>7

LEMMA ScanFinds ==
    ASSUME StringsFit, PageSize > 3, Inv
    PROVE  ScanFindsRows
<1> SUFFICES ASSUME ~damaged, pages # <<>>, RowCount > 0
             PROVE  /\ IsInjective(Visited)
                    /\ DOMAIN rows \ ToSet(Visited) \subseteq {End}
                    /\ Flexible => End \notin DOMAIN rows /\ ContentCrashes
                    /\ ~Flexible => (ContentCrashes <=>
                          Cardinality((DOMAIN rows \cup phantoms) \ {End})
                             < Len(pages) * Capacity - 1)
                    /\ ~ContentCrashes =>
                          GetTableContent(Content(schema, Scanned)) = Scanned
    BY DEF ScanFindsRows
<1>1. Len(pages) \in Nat \ {0}
    BY DEF Inv, TypeOK
<1>2. RowCount \in Nat \ {0}
    <2>1. SlotOf(schema) \in Nat \ {0} /\ Capacity = PageSize \div SlotOf(schema)
        BY InvFacts
    <2>2. PICK w : w = SlotOf(schema)
        OBVIOUS
    <2>3. Capacity \in Nat
        BY <2>1, <2>2, SlotsFit
    <2> QED
        BY <2>3, PageAssumption DEF RowCount
<1>3. IsInjective(Visited)
    BY <1>1, <1>2, ScanVisits
<1>4. CASE Flexible
    BY <1>1, <1>3, <1>4, FlexibleScan
<1>5. CASE ~Flexible
    BY <1>1, <1>2, <1>3, <1>5, FixedScan
<1> QED
    BY <1>4, <1>5

\* ScanFindsRows: a loop from Table::begin to Table::end visits every row once,
\* but for the last slot of the last page, and the content a chunk sends of a
\* table is the rows it visits or cannot be sent.  Pages of more than three
\* bytes: on smaller ones there is no slot that a flexible row cannot have.
THEOREM ScansFindRows ==
    ASSUME StringsFit, PageSize > 3
    PROVE  Spec => []ScanFindsRows
<1>1. Inv => ScanFindsRows
    BY ScanFinds
<1> QED
    BY <1>1, Invariance, PTL
=============================================================================
