------------------------------ MODULE Iteration ------------------------------
(***************************************************************************)
(* Facts about counting up and about functions defined by iteration, in    *)
(* the form the proofs of the other modules use: induction over a set of   *)
(* numbers instead of a predicate, iteration of a function instead of an   *)
(* operator; about sequences put one after the other, and sums over finite *)
(* sets.                                                                   *)
(***************************************************************************)
EXTENDS Integers, SequencesExt, FiniteSetTheorems, SequenceTheorems, TLAPS

\* A set of numbers that holds 0 and with every number the next one holds all.
LEMMA SetInduction ==
    ASSUME NEW S, 0 \in S, \A n \in Nat : n \in S => n + 1 \in S
    PROVE  \A n \in Nat : n \in S
<1> DEFINE R == OpToRel(<, Nat)
           T == {n \in Nat : n \notin S}
<1>1. \A m, n \in Nat : m < n => <<m, n>> \in R
    BY DEF OpToRel
<1>2. IsWellFoundedOn(R, Nat)
    BY NatLessThanWellFounded
<1> HIDE DEF R
<1> SUFFICES ASSUME T # {} PROVE FALSE
    OBVIOUS
<1>3. PICK m \in T : \A n \in T : ~ (<<n, m>> \in R)
    BY <1>2, WFMin
<1>4. m - 1 \in Nat /\ m - 1 < m /\ m - 1 + 1 = m
    OBVIOUS
<1>5. m - 1 \notin T
    BY <1>1, <1>3, <1>4
<1> QED
    BY <1>4, <1>5

\* The same up to a bound.
LEMMA BoundedInduction ==
    ASSUME NEW S, NEW N \in Nat, 0 \in S,
           \A n \in 0 .. N - 1 : n \in S => n + 1 \in S
    PROVE  \A n \in 0 .. N : n \in S
<1> DEFINE T == {n \in Nat : n <= N => n \in S}
<1>1. 0 \in T
    OBVIOUS
<1>2. \A n \in Nat : n \in T => n + 1 \in T
    OBVIOUS
<1> HIDE DEF T
<1>3. \A n \in Nat : n \in T
    BY <1>1, <1>2, SetInduction
<1> QED
    BY <1>3 DEF T

\* A set of numbers with a bound has a greatest one.
LEMMA Greatest ==
    ASSUME NEW N \in Nat, NEW S \in SUBSET (0 .. N), S # {}
    PROVE  \E x \in S : \A y \in S : y <= x
<1> SUFFICES ASSUME \A x \in S : \E y \in S : ~(y <= x) PROVE FALSE
    OBVIOUS
<1> DEFINE T == {n \in Nat : \E y \in S : y >= n}
<1>1. 0 \in T
    <2>1. PICK y \in S : TRUE
        OBVIOUS
    <2>2. y \in 0 .. N
        OBVIOUS
    <2> QED
        BY <2>2
<1>2. ASSUME NEW n \in 0 .. N - 1, n \in T PROVE n + 1 \in T
    <2>1. PICK y \in S : y >= n
        BY <1>2
    <2>2. PICK z \in S : ~(z <= y)
        OBVIOUS
    <2>3. y \in Nat /\ z \in Nat
        OBVIOUS
    <2>4. z >= n + 1
        BY <2>1, <2>2, <2>3
    <2> QED
        BY <2>4
<1> HIDE DEF T
<1>3. N \in T
    <2>1. \A n \in 0 .. N : n \in T
        BY <1>1, <1>2, BoundedInduction
    <2> QED
        BY <2>1
<1>4. PICK y \in S : y >= N
    BY <1>3 DEF T
<1>5. PICK z \in S : ~(z <= y)
    OBVIOUS
<1>6. y \in 0 .. N /\ z \in 0 .. N
    OBVIOUS
<1> QED
    BY <1>4, <1>5, <1>6

-----------------------------------------------------------------------------
\* f is the iteration of F from a, up to N.
Iterates(f, a, F, N) ==
    f = [n \in 0 .. N |-> IF n = 0 THEN a ELSE F[<<n, f[n - 1]>>]]

\* Every iteration is a function.
LEMMA IterationExists ==
    ASSUME NEW A, NEW a \in A, NEW F \in [Nat \X A -> A], NEW N \in Nat
    PROVE  \E f \in [0 .. N -> A] : Iterates(f, a, F, N)
<1> DEFINE S == {n \in Nat : \E f \in [0 .. n -> A] : Iterates(f, a, F, n)}
<1>1. 0 \in S
    <2> DEFINE f == [n \in 0 .. 0 |-> a]
    <2>1. f \in [0 .. 0 -> A] /\ Iterates(f, a, F, 0)
        BY DEF Iterates
    <2> QED
        BY <2>1
<1>2. ASSUME NEW n \in Nat, n \in S PROVE n + 1 \in S
    <2>1. PICK f \in [0 .. n -> A] : Iterates(f, a, F, n)
        BY <1>2
    <2> DEFINE g == [m \in 0 .. n + 1 |->
                        IF m = n + 1 THEN F[<<n + 1, f[n]>>] ELSE f[m]]
    <2>2. g \in [0 .. n + 1 -> A]
        OBVIOUS
    <2>3. ASSUME NEW m \in 0 .. n + 1
          PROVE  g[m] = IF m = 0 THEN a ELSE F[<<m, g[m - 1]>>]
        <3>1. CASE m = n + 1
            <4>1. m # 0 /\ m - 1 = n /\ n \in 0 .. n + 1 /\ n # n + 1
                BY <3>1
            <4> QED
                BY <3>1, <4>1
        <3>2. CASE m \in 0 .. n
            BY <2>1, <3>2 DEF Iterates
        <3> QED
            BY <3>1, <3>2
    <2>4. Iterates(g, a, F, n + 1)
        BY <2>3 DEF Iterates
    <2> QED
        BY <2>2, <2>4
<1> HIDE DEF S
<1>3. \A n \in Nat : n \in S
    BY <1>1, <1>2, SetInduction
<1> QED
    BY <1>3 DEF S

-----------------------------------------------------------------------------
(* Sequences put one after the other                                       *)

\* FlattenSeq puts one sequence after the other.
FlatBy(f, seqs, N) ==
    /\ f[1] = seqs[1]
    /\ \A i \in 1 .. N - 1 : f[i + 1] = f[i] \o seqs[i + 1]
    /\ FlattenSeq(seqs) = f[N]

LEMMA Flattened ==
    ASSUME NEW T, NEW N \in Nat \ {0}, NEW seqs \in [1 .. N -> Seq(T)]
    PROVE  \E f : FlatBy(f, seqs, N)
<1> DEFINE F == [z \in Nat \X Seq(T) |->
                    IF z[1] + 1 \in 1 .. N THEN z[2] \o seqs[z[1] + 1] ELSE z[2]]
           IsFlat(g) == g = [i \in 1 .. N |->
                                IF i = 1 THEN seqs[i] ELSE g[i - 1] \o seqs[i]]
<1>1. /\ N - 1 \in Nat /\ Len(seqs) = N /\ seqs \in Seq(Seq(T))
      /\ \A i \in 1 .. N : seqs[i] \in Seq(T)
    OBVIOUS
<1>2. F \in [Nat \X Seq(T) -> Seq(T)]
    BY <1>1, ConcatProperties
<1>3. \A n \in Nat, s \in Seq(T) : n + 1 \in 1 .. N =>
        F[<<n, s>>] = s \o seqs[n + 1]
    OBVIOUS
<1>4. FlattenSeq(seqs) = LET flatten == CHOOSE g : IsFlat(g) IN flatten[N]
    BY <1>1 DEF FlattenSeq
<1>5. seqs[1] \in Seq(T)
    BY <1>1
<1> HIDE DEF F
<1>6. PICK f \in [0 .. N - 1 -> Seq(T)] : Iterates(f, seqs[1], F, N - 1)
    BY <1>1, <1>2, <1>5, IterationExists
<1> DEFINE g == [i \in 1 .. N |-> f[i - 1]]
<1>7. ASSUME NEW i \in 1 .. N
      PROVE  g[i] = IF i = 1 THEN seqs[i] ELSE g[i - 1] \o seqs[i]
    <2>1. i - 1 \in 0 .. N - 1 /\ g[i] = f[i - 1]
        BY <1>1
    <2>2. CASE i = 1
        <3>1. f[0] = seqs[1]
            BY <1>1, <1>6 DEF Iterates
        <3> QED
            BY <2>1, <2>2, <3>1
    <2>3. CASE i # 1
        <3>1. /\ i - 1 # 0 /\ i - 1 \in Nat
              /\ i - 1 - 1 \in 0 .. N - 1 /\ i - 1 \in 1 .. N
              /\ i - 1 + 1 = i
            BY <1>1, <2>3
        <3>2. PICK k \in 0 .. N - 1 : k = i - 1 /\ k # 0
            BY <2>1, <3>1
        <3>3. f[k] = F[<<k, f[k - 1]>>]
            BY <1>6, <3>2 DEF Iterates
        <3>4. f[k - 1] \in Seq(T) /\ g[i - 1] = f[k - 1]
            BY <1>1, <1>6, <3>1, <3>2
        <3>5. F[<<k, f[k - 1]>>] = f[k - 1] \o seqs[i]
            <4>1. k \in Nat /\ k + 1 = i /\ k + 1 \in 1 .. N
                BY <3>1, <3>2
            <4>2. F[<<k, f[k - 1]>>] = f[k - 1] \o seqs[k + 1]
                BY <1>3, <3>4, <4>1
            <4> QED
                BY <4>1, <4>2
        <3> QED
            BY <2>1, <2>3, <3>2, <3>3, <3>4, <3>5
    <2> QED
        BY <2>2, <2>3
<1>8. IsFlat(g)
    BY <1>7
<1> HIDE DEF g
<1> DEFINE flatten == CHOOSE h : IsFlat(h)
<1>9. IsFlat(flatten)
    BY <1>8
<1>10. FlattenSeq(seqs) = flatten[N]
    BY <1>4
<1> HIDE DEF flatten
<1>11. \A i \in 1 .. N :
        flatten[i] = IF i = 1 THEN seqs[i] ELSE flatten[i - 1] \o seqs[i]
    BY <1>9
<1>12. flatten[1] = seqs[1]
    BY <1>11
<1>13. ASSUME NEW i \in 1 .. N - 1
       PROVE  flatten[i + 1] = flatten[i] \o seqs[i + 1]
    <2>1. i + 1 \in 1 .. N /\ i + 1 # 1 /\ (i + 1) - 1 = i
        BY <1>1
    <2> QED
        BY <1>11, <2>1
<1>14. FlatBy(flatten, seqs, N)
    BY <1>10, <1>12, <1>13 DEF FlatBy
<1> QED
    BY <1>14

-----------------------------------------------------------------------------
(* The sum of a function over a finite set                                 *)

AnyOf(s) == CHOOSE x \in s : TRUE

\* g has the sums of f over the subsets of S.
Sums(g, f, S) ==
    g = [s \in SUBSET S |->
           IF s = {} THEN 0 ELSE f[AnyOf(s)] + g[s \ {AnyOf(s)}]]

LEMMA OneLess ==
    ASSUME NEW S, IsFiniteSet(S), S # {}
    PROVE  /\ AnyOf(S) \in S
           /\ IsFiniteSet(S \ {AnyOf(S)})
           /\ Cardinality(S \ {AnyOf(S)}) = Cardinality(S) - 1
           /\ Cardinality(S) \in Nat \ {0}
<1>1. AnyOf(S) \in S
    BY DEF AnyOf
<1>2. Cardinality(S) \in Nat /\ Cardinality(S) # 0
    BY FS_CardinalityType, FS_EmptySet
<1> QED
    BY <1>1, <1>2, FS_RemoveElement

\* The sums exist: after n rounds those over sets of n elements are right.
LEMMA SumsExist ==
    ASSUME NEW S, IsFiniteSet(S), NEW f, \A x \in S : f[x] \in Nat
    PROVE  \E g \in [SUBSET S -> Nat] : Sums(g, f, S)
<1> DEFINE A == [SUBSET S -> Nat]
           Next(h) == [s \in SUBSET S |->
                         IF s = {} THEN 0 ELSE f[AnyOf(s)] + h[s \ {AnyOf(s)}]]
           F == [z \in Nat \X A |-> Next(z[2])]
           zero == [s \in SUBSET S |-> 0]
           N == Cardinality(S)
<1>1. ASSUME NEW h \in A PROVE Next(h) \in A
    <2>1. ASSUME NEW s \in SUBSET S, s # {}
          PROVE  f[AnyOf(s)] + h[s \ {AnyOf(s)}] \in Nat
        <3>1. AnyOf(s) \in S
            BY <2>1 DEF AnyOf
        <3>2. s \ {AnyOf(s)} \in SUBSET S
            OBVIOUS
        <3>3. f[AnyOf(s)] \in Nat /\ h[s \ {AnyOf(s)}] \in Nat
            BY <3>1, <3>2
        <3> QED
            BY <3>3
    <2> QED
        BY <2>1
<1>2. F \in [Nat \X A -> A] /\ zero \in A
    BY <1>1
<1>3. \A n \in Nat : \A h \in A : F[<<n, h>>] = Next(h)
    OBVIOUS
<1>4. N \in Nat /\ N + 1 \in Nat
    BY FS_CardinalityType
<1> HIDE DEF A, F, zero, N
<1>5. PICK rounds \in [0 .. N + 1 -> A] : Iterates(rounds, zero, F, N + 1)
    BY <1>2, <1>4, IterationExists
<1>6. ASSUME NEW n \in 0 .. N
      PROVE  rounds[n + 1] = Next(rounds[n]) /\ rounds[n] \in A
    <2>1. /\ n + 1 # 0 /\ n + 1 \in 0 .. N + 1 /\ n + 1 \in Nat
          /\ n + 1 - 1 = n /\ n \in 0 .. N + 1
        BY <1>4
    <2>2. rounds[n + 1] = F[<<n + 1, rounds[n]>>]
        BY <1>5, <2>1 DEF Iterates
    <2> QED
        BY <1>3, <1>5, <2>1, <2>2
<1> DEFINE Right(n) == \A s \in SUBSET S :
                         Cardinality(s) <= n => rounds[n + 1][s] = rounds[n][s]
           T == {n \in Nat : Right(n)}
<1>7. ASSUME NEW n \in 0 .. N, NEW s \in SUBSET S
      PROVE  rounds[n + 1][s] = IF s = {} THEN 0
                                ELSE f[AnyOf(s)] + rounds[n][s \ {AnyOf(s)}]
    BY <1>6
<1>8. 0 \in T
    <2>1. ASSUME NEW s \in SUBSET S, Cardinality(s) <= 0 PROVE s = {}
        <3>1. IsFiniteSet(s)
            BY FS_Subset
        <3> QED
            BY <2>1, <3>1, FS_CardinalityType, FS_EmptySet
    <2>2. 0 \in 0 .. N /\ {} \in SUBSET S
        BY <1>4
    <2>3. rounds[0 + 1][{}] = 0
        BY <1>7, <2>2
    <2>4. rounds[0] = zero
        BY <1>4, <1>5 DEF Iterates
    <2>5. rounds[0][{}] = 0
        BY <2>4 DEF zero
    <2> QED
        BY <2>1, <2>3, <2>5
<1>9. ASSUME NEW n \in 0 .. N - 1, n \in T PROVE n + 1 \in T
    <2>0. n \in 0 .. N /\ n \in Nat /\ n + 1 \in 0 .. N /\ n + 1 \in Nat
        BY <1>4
    <2>1. ASSUME NEW s \in SUBSET S, Cardinality(s) <= n + 1
          PROVE  rounds[n + 1 + 1][s] = rounds[n + 1][s]
        <3>1. CASE s = {}
            <4>1. rounds[n + 1 + 1][s] = 0
                BY <1>7, <2>0, <3>1
            <4>2. rounds[n + 1][s] = 0
                BY <1>7, <2>0, <3>1
            <4> QED
                BY <4>1, <4>2
        <3>2. CASE s # {}
            <4> DEFINE r == s \ {AnyOf(s)}
            <4>1. IsFiniteSet(s)
                BY FS_Subset
            <4>2. r \in SUBSET S /\ Cardinality(r) <= n
                <5>1. /\ Cardinality(r) = Cardinality(s) - 1
                      /\ Cardinality(s) \in Nat
                    BY <3>2, <4>1, OneLess
                <5> QED
                    BY <2>0, <2>1, <5>1
            <4>3. rounds[n + 1][r] = rounds[n][r]
                BY <1>9, <4>2
            <4>4. rounds[n + 1 + 1][s] = f[AnyOf(s)] + rounds[n + 1][r]
                BY <1>7, <2>0, <3>2
            <4>5. rounds[n + 1][s] = f[AnyOf(s)] + rounds[n][r]
                BY <1>7, <2>0, <3>2
            <4> QED
                BY <4>3, <4>4, <4>5
        <3> QED
            BY <3>1, <3>2
    <2> QED
        BY <2>0, <2>1
<1> HIDE DEF T
<1>10. \A n \in 0 .. N : n \in T
    BY <1>4, <1>8, <1>9, BoundedInduction
<1> DEFINE g == rounds[N]
<1>11. g \in A /\ \A s \in SUBSET S : rounds[N + 1][s] = g[s]
    <2>1. \A s \in SUBSET S : Cardinality(s) <= N
        BY FS_Subset DEF N
    <2>2. N \in T /\ N \in 0 .. N + 1
        BY <1>4, <1>10
    <2> QED
        BY <1>5, <2>1, <2>2 DEF T
<1>12. rounds[N + 1] = Next(g) /\ rounds[N + 1] \in A
    <2>1. N \in 0 .. N /\ N + 1 \in 0 .. N + 1
        BY <1>4
    <2> QED
        BY <1>5, <1>6, <2>1
<1>13. g = rounds[N + 1]
    BY <1>11, <1>12 DEF A
<1>14. Sums(g, f, S)
    BY <1>12, <1>13 DEF Sums
<1> QED
    BY <1>11, <1>14 DEF A

\* Sums of functions that agree on a set agree on it.
LEMMA SumsAgree ==
    ASSUME NEW g, NEW f, NEW S, Sums(g, f, S),
           NEW h, NEW k, NEW R, Sums(h, k, R),
           NEW U, IsFiniteSet(U), U \subseteq S, U \subseteq R,
           \A x \in U : f[x] = k[x]
    PROVE  g[U] = h[U]
<1> DEFINE T == {n \in Nat : \A s \in SUBSET U :
                    Cardinality(s) = n => g[s] = h[s]}
<1>1. \A s \in SUBSET U : /\ IsFiniteSet(s) /\ Cardinality(s) \in Nat
                          /\ s \in SUBSET S /\ s \in SUBSET R
    BY FS_Subset, FS_CardinalityType
<1>2. 0 \in T
    <2>1. ASSUME NEW s \in SUBSET U, Cardinality(s) = 0 PROVE g[s] = h[s]
        <3>1. s = {} /\ s \in SUBSET S /\ s \in SUBSET R
            BY <1>1, <2>1, FS_EmptySet
        <3> QED
            BY <3>1 DEF Sums
    <2> QED
        BY <2>1
<1>3. ASSUME NEW n \in Nat, n \in T PROVE n + 1 \in T
    <2>1. ASSUME NEW s \in SUBSET U, Cardinality(s) = n + 1 PROVE g[s] = h[s]
        <3> DEFINE x == AnyOf(s)
                   r == s \ {x}
        <3>1. s # {}
            BY <2>1, FS_EmptySet
        <3>2. x \in U /\ r \in SUBSET U /\ Cardinality(r) = n
            <4>1. /\ x \in s
                  /\ Cardinality(r) = Cardinality(s) - 1
                BY <1>1, <3>1, OneLess
            <4> QED
                BY <2>1, <4>1
        <3>3. g[r] = h[r] /\ f[x] = k[x]
            BY <1>3, <3>2
        <3>4. g[s] = f[x] + g[r]
            BY <1>1, <3>1 DEF Sums
        <3>5. h[s] = k[x] + h[r]
            BY <1>1, <3>1 DEF Sums
        <3> QED
            BY <3>3, <3>4, <3>5
    <2> QED
        BY <2>1
<1> HIDE DEF T
<1>4. \A n \in Nat : n \in T
    BY <1>2, <1>3, SetInduction
<1>5. U \in SUBSET U /\ Cardinality(U) \in T
    BY <1>1, <1>4
<1> QED
    BY <1>5 DEF T

Total(f, S) == SumFunctionOnSet(f, S)

LEMMA SumIs ==
    ASSUME NEW S, IsFiniteSet(S), NEW f, \A x \in S : f[x] \in Nat
    PROVE  \E g \in [SUBSET S -> Nat] : Sums(g, f, S) /\ Total(f, S) = g[S]
<1> DEFINE h == CHOOSE sum : Sums(sum, f, S)
<1>1. PICK g \in [SUBSET S -> Nat] : Sums(g, f, S)
    BY SumsExist
<1>2. Sums(h, f, S)
    BY <1>1
<1>3. SumFunctionOnSet(f, S) = h[S]
    BY DEF SumFunctionOnSet, FoldFunctionOnSet, MapThenFoldSet, Sums, AnyOf
<1> HIDE DEF h
<1>4. h[S] = g[S]
    BY <1>1, <1>2, SumsAgree
<1> QED
    BY <1>1, <1>3, <1>4 DEF Total

\* The sum depends on the values in the set only.
LEMMA SumSame ==
    ASSUME NEW S, IsFiniteSet(S), NEW f, NEW k,
           \A x \in S : f[x] \in Nat /\ k[x] = f[x]
    PROVE  Total(k, S) = Total(f, S)
<1>1. PICK g \in [SUBSET S -> Nat] : Sums(g, f, S) /\ Total(f, S) = g[S]
    BY SumIs
<1>2. PICK h \in [SUBSET S -> Nat] : Sums(h, k, S) /\ Total(k, S) = h[S]
    BY SumIs
<1> QED
    BY <1>1, <1>2, SumsAgree

LEMMA SumOfNone ==
    ASSUME NEW f
    PROVE  Total(f, {}) = 0
<1>1. PICK g \in [SUBSET {} -> Nat] : Sums(g, f, {}) /\ Total(f, {}) = g[{}]
    BY FS_EmptySet, SumIs
<1>2. {} \in SUBSET {}
    OBVIOUS
<1> QED
    BY <1>1, <1>2 DEF Sums

LEMMA SumOfZeros ==
    ASSUME NEW S, IsFiniteSet(S), NEW f, \A x \in S : f[x] = 0
    PROVE  Total(f, S) = 0
<1> DEFINE zeros == [s \in SUBSET S |-> 0]
<1>0. \A x \in S : f[x] \in Nat
    OBVIOUS
<1>1. PICK g \in [SUBSET S -> Nat] : Sums(g, f, S) /\ Total(f, S) = g[S]
    BY <1>0, SumIs
<1>2. Sums(zeros, f, S)
    <2>1. ASSUME NEW s \in SUBSET S, s # {}
          PROVE  f[AnyOf(s)] = 0 /\ s \ {AnyOf(s)} \in SUBSET S
        BY <2>1 DEF AnyOf
    <2> QED
        BY <2>1 DEF Sums
<1>3. zeros[S] = 0
    OBVIOUS
<1> HIDE DEF zeros
<1> QED
    BY <1>1, <1>2, <1>3, SumsAgree

LEMMA SumOfFirst ==
    ASSUME NEW S, IsFiniteSet(S), NEW f, \A x \in S : f[x] \in Nat
    PROVE  /\ Total(f, S) \in Nat
           /\ S # {} => Total(f, S) = f[AnyOf(S)] + Total(f, S \ {AnyOf(S)})
<1>1. PICK g \in [SUBSET S -> Nat] : Sums(g, f, S) /\ Total(f, S) = g[S]
    BY SumIs
<1>2. ASSUME S # {}
      PROVE  Total(f, S) = f[AnyOf(S)] + Total(f, S \ {AnyOf(S)})
    <2> DEFINE R == S \ {AnyOf(S)}
    <2>1. IsFiniteSet(R) /\ R \subseteq S
        BY <1>2, OneLess
    <2> HIDE DEF R
    <2>2. PICK h \in [SUBSET R -> Nat] : Sums(h, f, R) /\ Total(f, R) = h[R]
        BY <2>1, SumIs
    <2>3. g[R] = h[R]
        BY <1>1, <2>1, <2>2, SumsAgree
    <2>4. g[S] = f[AnyOf(S)] + g[R]
        BY <1>1, <1>2 DEF Sums, R
    <2> QED
        BY <1>1, <2>2, <2>3, <2>4 DEF R
<1>3. g[S] \in Nat
    <2>1. S \in SUBSET S
        OBVIOUS
    <2> QED
        BY <1>1, <2>1
<1> QED
    BY <1>1, <1>2, <1>3

\* Whatever element is taken out, its value is what is lost.
LEMMA SumRemove ==
    ASSUME NEW S, IsFiniteSet(S), NEW f, \A x \in S : f[x] \in Nat,
           NEW y \in S
    PROVE  Total(f, S) = f[y] + Total(f, S \ {y})
<1> DEFINE Holds(s) == \A x \in s : Total(f, s) = f[x] + Total(f, s \ {x})
           T == {n \in Nat : \A s \in SUBSET S : Cardinality(s) = n => Holds(s)}
<1>1. \A s \in SUBSET S : /\ IsFiniteSet(s) /\ Cardinality(s) \in Nat
                          /\ \A x \in s : f[x] \in Nat
                          /\ Total(f, s) \in Nat
    BY FS_Subset, FS_CardinalityType, SumOfFirst
<1>2. 0 \in T
    <2>1. ASSUME NEW s \in SUBSET S, Cardinality(s) = 0 PROVE s = {}
        BY <1>1, <2>1, FS_EmptySet
    <2> QED
        BY <2>1
<1>3. ASSUME NEW n \in Nat, n \in T PROVE n + 1 \in T
    <2>1. ASSUME NEW s \in SUBSET S, Cardinality(s) = n + 1, NEW x \in s
          PROVE  Total(f, s) = f[x] + Total(f, s \ {x})
        <3> DEFINE c == AnyOf(s)
        <3>1. c \in s
            BY DEF AnyOf
        <3>2. Total(f, s) = f[c] + Total(f, s \ {c})
            BY <1>1, <2>1, SumOfFirst
        <3> HIDE DEF c
        <3>3. CASE x = c
            BY <3>2, <3>3
        <3>4. CASE x # c
            <4>1. /\ s \ {c} \in SUBSET S /\ s \ {x} \in SUBSET S
                  /\ s \ {c, x} \in SUBSET S
                  /\ x \in s \ {c} /\ c \in s \ {x}
                  /\ (s \ {c}) \ {x} = s \ {c, x}
                  /\ (s \ {x}) \ {c} = s \ {c, x}
                BY <3>1, <3>4
            <4>2. /\ Cardinality(s \ {c}) = n + 1 - 1
                  /\ Cardinality(s \ {x}) = n + 1 - 1
                BY <1>1, <2>1, <3>1, FS_RemoveElement
            <4>3. Holds(s \ {c}) /\ Holds(s \ {x})
                BY <1>3, <4>1, <4>2
            <4>4. /\ Total(f, s \ {c}) = f[x] + Total(f, s \ {c, x})
                  /\ Total(f, s \ {x}) = f[c] + Total(f, s \ {c, x})
                BY <4>1, <4>3
            <4>5. f[x] \in Nat /\ f[c] \in Nat /\ Total(f, s \ {c, x}) \in Nat
                BY <1>1, <3>1, <4>1
            <4> QED
                BY <3>2, <4>4, <4>5
        <3> QED
            BY <3>3, <3>4
    <2> QED
        BY <2>1
<1> HIDE DEF T
<1>4. \A n \in Nat : n \in T
    BY <1>2, <1>3, SetInduction
<1>5. S \in SUBSET S /\ Cardinality(S) \in T
    BY <1>1, <1>4
<1> QED
    BY <1>5 DEF T

LEMMA SumInsert ==
    ASSUME NEW S, IsFiniteSet(S), NEW f, \A x \in S : f[x] \in Nat,
           NEW y, y \notin S, f[y] \in Nat
    PROVE  Total(f, S \cup {y}) = f[y] + Total(f, S)
<1>1. IsFiniteSet(S \cup {y}) /\ (S \cup {y}) \ {y} = S
    BY FS_AddElement
<1>2. \A x \in S \cup {y} : f[x] \in Nat
    OBVIOUS
<1> QED
    BY <1>1, <1>2, SumRemove

\* The sum over a smaller set of smaller numbers is not larger.
LEMMA SumBelow ==
    ASSUME NEW S, IsFiniteSet(S), NEW R, R \subseteq S, NEW f, NEW k,
           \A x \in S : f[x] \in Nat,
           \A x \in R : k[x] \in Nat /\ k[x] <= f[x]
    PROVE  Total(k, R) <= Total(f, S)
<1> DEFINE Holds(s) == Total(k, s \cap R) <= Total(f, s)
           T == {n \in Nat : \A s \in SUBSET S : Cardinality(s) = n => Holds(s)}
<1>1. \A s \in SUBSET S : /\ IsFiniteSet(s) /\ Cardinality(s) \in Nat
                          /\ IsFiniteSet(s \cap R)
                          /\ Total(f, s) \in Nat
                          /\ Total(k, s \cap R) \in Nat
    BY FS_Subset, FS_CardinalityType, SumOfFirst
<1>2. 0 \in T
    <2>1. ASSUME NEW s \in SUBSET S, Cardinality(s) = 0 PROVE Holds(s)
        <3>1. s = {} /\ s \cap R = {}
            BY <1>1, <2>1, FS_EmptySet
        <3> QED
            BY <3>1, SumOfNone
    <2> QED
        BY <2>1
<1>3. ASSUME NEW n \in Nat, n \in T PROVE n + 1 \in T
    <2>1. ASSUME NEW s \in SUBSET S, Cardinality(s) = n + 1 PROVE Holds(s)
        <3> DEFINE x == AnyOf(s)
                   r == s \ {x}
        <3>1. s # {}
            BY <2>1, FS_EmptySet
        <3>2. x \in s /\ r \in SUBSET S /\ Cardinality(r) = n
            <4>1. x \in s /\ Cardinality(r) = Cardinality(s) - 1
                BY <1>1, <3>1, OneLess
            <4> QED
                BY <2>1, <4>1
        <3> HIDE DEF x
        <3>3. Total(k, r \cap R) <= Total(f, r)
            BY <1>3, <3>2
        <3>4. Total(f, s) = f[x] + Total(f, r)
            BY <1>1, <3>2, SumRemove
        <3>5. Total(k, s \cap R) = Total(k, r \cap R) + (IF x \in R THEN k[x] ELSE 0)
            <4>1. CASE x \in R
                <5>1. x \in s \cap R /\ (s \cap R) \ {x} = r \cap R
                    BY <3>2, <4>1
                <5>2. /\ IsFiniteSet(s \cap R)
                      /\ \A y \in s \cap R : k[y] \in Nat
                    BY <1>1
                <5>3. Total(k, s \cap R) = k[x] + Total(k, (s \cap R) \ {x})
                    BY <5>1, <5>2, SumRemove
                <5>4. Total(k, s \cap R) = k[x] + Total(k, r \cap R)
                    BY <5>1, <5>3
                <5> QED
                    BY <1>1, <3>2, <4>1, <5>4
            <4>2. CASE x \notin R
                <5>1. s \cap R = r \cap R
                    BY <4>2
                <5> QED
                    BY <1>1, <4>2, <5>1
            <4> QED
                BY <4>1, <4>2
        <3>6. /\ f[x] \in Nat /\ Total(f, r) \in Nat /\ Total(k, r \cap R) \in Nat
              /\ x \in R => k[x] \in Nat /\ k[x] <= f[x]
            BY <1>1, <3>2
        <3> HIDE DEF r
        <3>7. Total(k, s \cap R) <= Total(f, s)
            BY <3>3, <3>4, <3>5, <3>6
        <3> QED
            BY <3>7
    <2> QED
        BY <2>1
<1> HIDE DEF T
<1>4. \A n \in Nat : n \in T
    BY <1>2, <1>3, SetInduction
<1>5. S \in SUBSET S /\ Cardinality(S) \in T /\ S \cap R = R
    BY <1>1, <1>4
<1> QED
    BY <1>5 DEF T

\* What one element gains or loses, the sum does.
LEMMA SumChange ==
    ASSUME NEW S, IsFiniteSet(S), NEW f, NEW k, NEW y \in S,
           \A x \in S : f[x] \in Nat /\ k[x] \in Nat,
           \A x \in S \ {y} : k[x] = f[x]
    PROVE  Total(k, S) + f[y] = Total(f, S) + k[y]
<1>1. IsFiniteSet(S \ {y})
    BY FS_RemoveElement
<1>2. Total(k, S \ {y}) = Total(f, S \ {y}) /\ Total(f, S \ {y}) \in Nat
    BY <1>1, SumSame, SumOfFirst
<1>3. Total(f, S) = f[y] + Total(f, S \ {y}) /\ Total(k, S) = k[y] + Total(k, S \ {y})
    BY SumRemove
<1> QED
    BY <1>2, <1>3
=============================================================================
