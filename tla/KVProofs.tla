------------------------------- MODULE KVProofs -------------------------------
(***************************************************************************)
(* What the store of the master guarantees for every page size, base, set  *)
(* of strings and number of kills.                                         *)
(***************************************************************************)
EXTENDS KVStorage, Iteration, FiniteSetTheorems, SequenceTheorems, TLAPS

USE PageAssumption, BaseAssumption, StringAssumption, SwitchAssumption,
    KillsAssumption

-----------------------------------------------------------------------------
(* Digits                                                                  *)

LEMMA RoundDown ==
    ASSUME NEW n \in Nat, NEW P \in Nat \ {0}
    PROVE  /\ n % P \in 0 .. P - 1
           /\ n \div P \in Nat
           /\ n - (n % P) = P * (n \div P)
           /\ n % P <= n
<1>1. n % P \in 0 .. P - 1 /\ n = P * (n \div P) + (n % P) /\ n \div P \in Int
    OBVIOUS
<1>2. n \div P \in Nat
    BY <1>1
<1> QED
    BY <1>1, <1>2

LEMMA TimesLess ==
    ASSUME NEW a \in Nat, NEW b \in Nat, NEW P \in Nat, a < b
    PROVE  P * a + P <= P * b
    OBVIOUS

LEMMA Remainder ==
    ASSUME NEW P \in Nat \ {0}, NEW q \in Nat, NEW r \in 0 .. P - 1
    PROVE  (P * q + r) % P = r
<1> DEFINE n == P * q + r
           k == n \div P
           m == n % P
<1>0. P * q \in Nat
    OBVIOUS
<1>1. n \in Nat
    BY <1>0
<1> HIDE DEF n
<1>2. k \in Nat /\ m \in 0 .. P - 1 /\ n - m = P * k
    BY <1>1, RoundDown
<1> HIDE DEF k, m
<1>2b. P * k \in Nat
    BY <1>2
<1>3. ASSUME q < k PROVE FALSE
    <2>1. P * q + P <= P * k
        BY <1>2, <1>3, TimesLess
    <2> QED
        BY <1>0, <1>2, <1>2b, <2>1 DEF n
<1>4. ASSUME k < q PROVE FALSE
    <2>1. P * k + P <= P * q
        BY <1>2, <1>4, TimesLess
    <2> QED
        BY <1>0, <1>2, <1>2b, <2>1 DEF n
<1>5. k = q
    BY <1>2, <1>3, <1>4
<1>6. m = r
    BY <1>0, <1>2, <1>5 DEF n
<1> QED
    BY <1>6 DEF m, n

\* Adding one carries into the last digits or not.
LEMMA PlusOne ==
    ASSUME NEW n \in Nat, NEW P \in Nat \ {0}
    PROVE  (n + 1) % P = 0 \/ (n + 1) % P = (n % P) + 1
<1> DEFINE q == n \div P
           r == n % P
<1>1. q \in Nat /\ r \in 0 .. P - 1 /\ n - r = P * q
    BY RoundDown
<1> HIDE DEF q, r
<1>2. P * q \in Nat /\ P * (q + 1) = P * q + P
    BY <1>1
<1>3. CASE r = P - 1
    <2>1. n + 1 = P * (q + 1) + 0
        BY <1>1, <1>2, <1>3
    <2>2. (P * (q + 1) + 0) % P = 0
        BY <1>1, Remainder
    <2> QED
        BY <2>1, <2>2
<1>4. CASE r # P - 1
    <2>1. n + 1 = P * q + (r + 1)
        BY <1>1, <1>2
    <2>2. r + 1 \in 0 .. P - 1
        BY <1>1, <1>4
    <2>3. (P * q + (r + 1)) % P = r + 1
        BY <1>1, <2>2, Remainder
    <2> QED
        BY <2>1, <2>3 DEF r
<1> QED
    BY <1>3, <1>4

Cell == 0 .. MaxCell

\* The powers of the base: each divides the number of values of a cell.
LEMMA Powers ==
    ASSUME NEW d \in 0 .. 4
    PROVE  /\ Pow(d) \in Nat \ {0}
           /\ d # 0 => Pow(d) >= Base
           /\ \E q \in Nat : MaxCell + 1 = Pow(d) * q
<1>1. /\ Base * Base \in Nat /\ Base * Base >= Base
      /\ Base * Base * Base \in Nat /\ Base * Base * Base >= Base * Base
      /\ Base * Base * Base * Base \in Nat
      /\ Base * Base * Base * Base >= Base * Base * Base
    <2>1. Base * Base \in Nat /\ Base * Base >= Base
        OBVIOUS
    <2> DEFINE B2 == Base * Base
    <2> HIDE DEF B2
    <2>2. B2 * Base \in Nat /\ B2 * Base >= B2
        BY <2>1 DEF B2
    <2> DEFINE B3 == B2 * Base
    <2> HIDE DEF B3
    <2>3. B3 * Base \in Nat /\ B3 * Base >= B3
        BY <2>2 DEF B3
    <2> QED
        BY <2>1, <2>2, <2>3 DEF B2, B3
<1>2. MaxCell + 1 = Base * Base * Base * Base
    BY <1>1 DEF MaxCell
<1>3. d = 0 \/ d = 1 \/ d = 2 \/ d = 3 \/ d = 4
    OBVIOUS
<1>4. CASE d = 0
    BY <1>1, <1>2, <1>4 DEF Pow
<1>5. CASE d = 1
    <2>1. MaxCell + 1 = Base * (Base * Base * Base)
        BY <1>2
    <2> QED
        BY <1>1, <1>5, <2>1 DEF Pow
<1>6. CASE d = 2
    <2>1. MaxCell + 1 = (Base * Base) * (Base * Base)
        BY <1>2
    <2> QED
        BY <1>1, <1>6, <2>1 DEF Pow
<1>7. CASE d = 3
    BY <1>1, <1>2, <1>7 DEF Pow
<1>8. CASE d = 4
    <2>1. MaxCell + 1 = (MaxCell + 1) * 1
        BY <1>1, <1>2
    <2>2. Pow(4) = MaxCell + 1
        BY DEF Pow
    <2>3. /\ MaxCell + 1 \in Nat \ {0} /\ MaxCell + 1 >= Base
          /\ \E q \in Nat : MaxCell + 1 = (MaxCell + 1) * q
        BY <1>1, <1>2, <2>1
    <2> QED
        BY <1>8, <2>2, <2>3
<1> QED
    BY <1>3, <1>4, <1>5, <1>6, <1>7, <1>8

LEMMA MaxCellNat == MaxCell \in Nat /\ MaxCell >= Base - 1
<1>1. Pow(4) \in Nat \ {0} /\ Pow(4) >= Base
    BY Powers
<1>2. Pow(4) = MaxCell + 1
    BY DEF Pow
<1>3. MaxCell \in Int
    BY DEF MaxCell
<1> QED
    BY <1>1, <1>2, <1>3

\* What is in a cell between two digits.
LEMMA TornInCell ==
    ASSUME NEW old \in Cell, NEW v \in Nat, NEW d \in 0 .. 4
    PROVE  Torn(old, v, d) \in Cell
<1> DEFINE P == Pow(d)
           k == old \div P
<1>1. P \in Nat \ {0} /\ MaxCell \in Nat
    BY Powers, MaxCellNat
<1>2. PICK q \in Nat : MaxCell + 1 = P * q
    BY Powers
<1>3. old \in Nat /\ old <= MaxCell
    BY <1>1 DEF Cell
<1> HIDE DEF P
<1>4. old % P \in 0 .. P - 1 /\ k \in Nat /\ old - (old % P) = P * k
    BY <1>1, <1>3, RoundDown
<1>5. v % P \in 0 .. P - 1
    BY <1>1, RoundDown
<1> HIDE DEF k
<1>6. P * k \in Nat /\ P * q \in Nat
    BY <1>1, <1>2, <1>4
<1>7. P * k <= P * q - P
    <2>1. ASSUME q <= k PROVE FALSE
        <3>1. P * q <= P * k
            BY <1>1, <1>2, <1>4, <2>1
        <3>2. P * k <= old
            BY <1>3, <1>4, <1>6
        <3> QED
            BY <1>1, <1>2, <1>3, <1>6, <3>1, <3>2
    <2>2. k < q
        BY <1>2, <1>4, <2>1
    <2>3. P * k + P <= P * q
        BY <1>1, <1>2, <1>4, <2>2, TimesLess
    <2> QED
        BY <1>1, <1>6, <2>3
<1>8. (old - (old % P)) + (v % P) \in Cell
    BY <1>1, <1>2, <1>4, <1>5, <1>6, <1>7 DEF Cell
<1> QED
    BY <1>8 DEF Torn, P

\* The digits written so far of 0 only lower a cell.
LEMMA TornDown ==
    ASSUME NEW old \in Cell, NEW d \in 0 .. 4
    PROVE  Torn(old, 0, d) <= old
<1> DEFINE P == Pow(d)
<1>0. old \in Nat
    BY MaxCellNat DEF Cell
<1>1. P \in Nat \ {0} /\ old \in Nat
    BY <1>0, Powers
<1> HIDE DEF P
<1>2. 0 % P = 0
    BY <1>1
<1>3. old % P \in Nat
    BY <1>1, RoundDown
<1>4. (old - (old % P)) + (0 % P) <= old
    BY <1>1, <1>2, <1>3
<1> QED
    BY <1>4 DEF Torn, P

\* Those of the next number lower it or are that number.
LEMMA TornUp ==
    ASSUME NEW old \in Cell, NEW d \in 0 .. 4
    PROVE  Torn(old, old + 1, d) <= old \/ Torn(old, old + 1, d) = old + 1
<1> DEFINE P == Pow(d)
<1>0. old \in Nat
    BY MaxCellNat DEF Cell
<1>1. P \in Nat \ {0} /\ old \in Nat
    BY <1>0, Powers
<1> HIDE DEF P
<1>2. old % P \in Nat /\ old % P <= old
    <2>1. old % P \in 0 .. P - 1 /\ old % P <= old
        BY <1>1, RoundDown
    <2> QED
        BY <1>1, <2>1
<1>3. (old + 1) % P = 0 \/ (old + 1) % P = (old % P) + 1
    BY <1>1, PlusOne
<1>4. \/ (old - (old % P)) + ((old + 1) % P) <= old
      \/ (old - (old % P)) + ((old + 1) % P) = old + 1
    BY <1>1, <1>2, <1>3
<1> QED
    BY <1>4 DEF Torn, P

\* A number of one digit is there at once.
LEMMA TornDigit ==
    ASSUME NEW old \in Nat, old + 1 < Base, NEW d \in 0 .. 4
    PROVE  Torn(old, old + 1, d) \in {old, old + 1}
<1> DEFINE P == Pow(d)
<1>1. P \in Nat \ {0} /\ (d # 0 => P >= Base)
    BY Powers
<1>2. d = 0 => P = 1
    BY DEF Pow
<1> HIDE DEF P
<1>3. CASE d = 0
    <2>1. old % P = 0 /\ (old + 1) % P = 0
        BY <1>2, <1>3
    <2>2. (old - (old % P)) + ((old + 1) % P) = old
        BY <2>1
    <2> QED
        BY <2>2 DEF Torn, P
<1>4. CASE d # 0
    <2>1. old + 1 < P
        BY <1>1, <1>4
    <2>2. old % P = old /\ (old + 1) % P = old + 1
        BY <1>1, <2>1
    <2>3. (old - (old % P)) + ((old + 1) % P) = old + 1
        BY <2>2
    <2> QED
        BY <2>3 DEF Torn, P
<1> QED
    BY <1>3, <1>4

LEMMA TornEnds ==
    ASSUME NEW old \in Cell, NEW v \in Nat
    PROVE  /\ Torn(old, v, 0) = old
           /\ v \in Cell => Torn(old, v, 4) = v
<1>1. Pow(0) = 1 /\ Pow(4) = MaxCell + 1
    BY DEF Pow
<1>2. MaxCell \in Nat /\ old \in Nat
    BY MaxCellNat DEF Cell
<1>3. old % 1 = 0 /\ v % 1 = 0
    BY <1>2
<1>4. Torn(old, v, 0) = old
    BY <1>1, <1>2, <1>3 DEF Torn
<1>5. ASSUME v \in Cell PROVE Torn(old, v, 4) = v
    <2>1. old % (MaxCell + 1) = old /\ v % (MaxCell + 1) = v
        BY <1>2, <1>5 DEF Cell
    <2> QED
        BY <1>1, <1>2, <2>1 DEF Torn
<1> QED
    BY <1>4, <1>5

-----------------------------------------------------------------------------
(* Pages on the way: a queue of digit writes takes the page from c to d,   *)
(* and a kill finds one of the pages of S, whichever write is the last.    *)

Pages == [Cells -> Cell]
Write == Cells \X Cell
Put(c, x) == [c EXCEPT ![x[1]] = x[2]]

IsPath(p, w, S) ==
    /\ p \in [0 .. Len(w) -> S]
    /\ \A n \in 1 .. Len(w) : p[n] = Put(p[n - 1], w[n])

Reaches(c, w, S, d) ==
    /\ w \in Seq(Write)
    /\ \E p : IsPath(p, w, S) /\ p[0] = c /\ p[Len(w)] = d

LEMMA ReachNothing ==
    ASSUME NEW S, NEW c \in S
    PROVE  Reaches(c, <<>>, S, c)
<1> DEFINE p == [n \in 0 .. 0 |-> c]
<1>1. Len(<<>>) = 0 /\ <<>> \in Seq(Write)
    OBVIOUS
<1>2. IsPath(p, <<>>, S)
    BY <1>1 DEF IsPath
<1>3. p[0] = c
    OBVIOUS
<1> QED
    BY <1>1, <1>2, <1>3 DEF Reaches

LEMMA ReachedNothing ==
    ASSUME NEW S, NEW c, NEW d, Reaches(c, <<>>, S, d)
    PROVE  c = d /\ c \in S
<1>1. PICK p : IsPath(p, <<>>, S) /\ p[0] = c /\ p[Len(<<>>)] = d
    BY DEF Reaches
<1>2. Len(<<>>) = 0
    OBVIOUS
<1> QED
    BY <1>1, <1>2 DEF IsPath

LEMMA ReachEnds ==
    ASSUME NEW S, NEW c, NEW d, NEW w, Reaches(c, w, S, d)
    PROVE  c \in S /\ d \in S /\ w \in Seq(Write)
<1>1. PICK p : IsPath(p, w, S) /\ p[0] = c /\ p[Len(w)] = d
    BY DEF Reaches
<1>2. w \in Seq(Write) /\ Len(w) \in Nat
    BY DEF Reaches
<1>3. 0 \in 0 .. Len(w) /\ Len(w) \in 0 .. Len(w)
    BY <1>2
<1>4. p[0] \in S /\ p[Len(w)] \in S
    BY <1>1, <1>3 DEF IsPath
<1> QED
    BY <1>1, <1>2, <1>4

LEMMA ReachWithin ==
    ASSUME NEW S, NEW T, S \subseteq T, NEW c, NEW d, NEW w,
           Reaches(c, w, S, d)
    PROVE  Reaches(c, w, T, d)
<1>1. PICK p : IsPath(p, w, S) /\ p[0] = c /\ p[Len(w)] = d
    BY DEF Reaches
<1>2. p \in [0 .. Len(w) -> T]
    BY <1>1 DEF IsPath
<1>3. IsPath(p, w, T)
    BY <1>1, <1>2 DEF IsPath
<1> QED
    BY <1>1, <1>3 DEF Reaches

LEMMA ReachOne ==
    ASSUME NEW S, NEW c \in S, NEW x \in Write, Put(c, x) \in S
    PROVE  Reaches(c, <<x>>, S, Put(c, x))
<1> DEFINE p == [n \in 0 .. 1 |-> IF n = 0 THEN c ELSE Put(c, x)]
           w == <<x>>
<1>1. Len(w) = 1 /\ w \in Seq(Write) /\ w[1] = x
    OBVIOUS
<1>2. p \in [0 .. 1 -> S] /\ p[0] = c /\ p[1] = Put(c, x)
    OBVIOUS
<1> HIDE DEF p, w
<1>3. ASSUME NEW n \in 1 .. Len(w) PROVE p[n] = Put(p[n - 1], w[n])
    <2>1. n = 1 /\ n - 1 = 0
        BY <1>1
    <2> QED
        BY <1>1, <1>2, <2>1
<1>4. IsPath(p, w, S)
    BY <1>1, <1>2, <1>3 DEF IsPath
<1> QED
    BY <1>1, <1>2, <1>4 DEF Reaches, w

\* One queue after the other.
LEMMA ReachMore ==
    ASSUME NEW S, NEW c, NEW d, NEW e, NEW w, NEW u,
           Reaches(c, w, S, d), Reaches(d, u, S, e)
    PROVE  Reaches(c, w \o u, S, e)
<1>1. PICK p : IsPath(p, w, S) /\ p[0] = c /\ p[Len(w)] = d
    BY DEF Reaches
<1>2. PICK q : IsPath(q, u, S) /\ q[0] = d /\ q[Len(u)] = e
    BY DEF Reaches
<1> DEFINE m == Len(w)
           k == Len(u)
           v == w \o u
           r == [n \in 0 .. m + k |-> IF n <= m THEN p[n] ELSE q[n - m]]
<1>3. /\ w \in Seq(Write) /\ u \in Seq(Write) /\ m \in Nat /\ k \in Nat
      /\ v \in Seq(Write) /\ Len(v) = m + k
      /\ \A n \in 1 .. m + k : v[n] = IF n <= m THEN w[n] ELSE u[n - m]
    BY ConcatProperties, LenProperties DEF Reaches
<1> HIDE DEF m, k, v
<1>4. /\ \A n \in 0 .. m : p[n] \in S
      /\ \A n \in 1 .. m : p[n] = Put(p[n - 1], w[n])
      /\ \A n \in 0 .. k : q[n] \in S
      /\ \A n \in 1 .. k : q[n] = Put(q[n - 1], u[n])
    BY <1>1, <1>2 DEF IsPath, m, k
<1>5. p[m] = q[0] /\ p[0] = c /\ q[k] = e
    BY <1>1, <1>2 DEF m, k
<1>6. \A n \in 0 .. m + k : r[n] \in S
    <2> TAKE n \in 0 .. m + k
    <2>1. CASE n <= m
        <3>1. n \in 0 .. m
            BY <1>3, <2>1
        <3> QED
            BY <1>4, <2>1, <3>1
    <2>2. CASE ~(n <= m)
        <3>1. n - m \in 0 .. k
            BY <1>3, <2>2
        <3> QED
            BY <1>4, <2>2, <3>1
    <2> QED
        BY <2>1, <2>2
<1>7. ASSUME NEW n \in 1 .. m + k PROVE r[n] = Put(r[n - 1], v[n])
    <2>1. n \in 0 .. m + k /\ n - 1 \in 0 .. m + k /\ n \in Nat
        BY <1>3
    <2>2. CASE n <= m
        <3>1. n \in 1 .. m /\ n - 1 <= m
            BY <1>3, <2>1, <2>2
        <3>2. r[n] = p[n] /\ r[n - 1] = p[n - 1] /\ v[n] = w[n]
            BY <1>3, <2>1, <2>2, <3>1
        <3> QED
            BY <1>4, <3>1, <3>2
    <2>3. CASE n = m + 1
        <3>1. ~(n <= m) /\ n - m = 1 /\ n - 1 = m /\ m <= m /\ 1 \in 1 .. k
            BY <1>3, <2>3
        <3>2. r[n] = q[1] /\ r[n - 1] = p[m] /\ v[n] = u[1]
            BY <1>3, <2>1, <3>1
        <3>3. q[1] = Put(q[0], u[1])
            <4>1. q[1] = Put(q[1 - 1], u[1])
                BY <1>4, <3>1
            <4> QED
                BY <4>1
        <3> QED
            BY <1>5, <3>2, <3>3
    <2>4. CASE n > m + 1
        <3>1. /\ ~(n <= m) /\ ~(n - 1 <= m) /\ n - m \in 1 .. k
              /\ (n - 1) - m = (n - m) - 1
            BY <1>3, <2>1, <2>4
        <3>2. r[n] = q[n - m] /\ r[n - 1] = q[(n - 1) - m] /\ v[n] = u[n - m]
            BY <1>3, <2>1, <3>1
        <3> QED
            BY <1>4, <3>1, <3>2
    <2> QED
        BY <1>3, <2>1, <2>2, <2>3, <2>4
<1>8. r[0] = c
    BY <1>3, <1>5
<1>9. r[m + k] = e
    <2>1. CASE k = 0
        <3>1. m + k = m
            BY <1>3, <2>1
        <3>2. r[m + k] = p[m]
            BY <1>3, <3>1
        <3> QED
            BY <1>5, <2>1, <3>2
    <2>2. CASE k # 0
        <3>1. ~(m + k <= m) /\ (m + k) - m = k /\ m + k \in 0 .. m + k
            BY <1>3, <2>2
        <3>2. r[m + k] = q[k]
            BY <3>1
        <3> QED
            BY <1>5, <3>2
    <2> QED
        BY <2>1, <2>2
<1>10. r \in [0 .. Len(v) -> S]
    BY <1>3, <1>6
<1> HIDE DEF r
<1>11. IsPath(r, v, S)
    BY <1>3, <1>7, <1>10 DEF IsPath
<1>12. Reaches(c, v, S, e)
    BY <1>3, <1>8, <1>9, <1>11 DEF Reaches
<1> QED
    BY <1>12 DEF v

\* After the first write.
LEMMA ReachNext ==
    ASSUME NEW S, NEW c, NEW d, NEW w, Reaches(c, w, S, d), w # <<>>
    PROVE  /\ Head(w) \in Write
           /\ Reaches(Put(c, Head(w)), Tail(w), S, d)
<1>1. PICK p : IsPath(p, w, S) /\ p[0] = c /\ p[Len(w)] = d
    BY DEF Reaches
<1> DEFINE v == Tail(w)
           k == Len(v)
           q == [n \in 0 .. k |-> p[n + 1]]
<1>2. /\ w \in Seq(Write) /\ v \in Seq(Write) /\ k \in Nat /\ Len(w) = k + 1
      /\ \A n \in 1 .. k : v[n] = w[n + 1]
      /\ Head(w) = w[1] /\ Head(w) \in Write
    <2>1. w \in Seq(Write)
        BY DEF Reaches
    <2>2. v \in Seq(Write) /\ Len(v) = Len(w) - 1
          /\ \A n \in 1 .. Len(v) : v[n] = w[n + 1]
        BY <2>1, HeadTailProperties
    <2>3. Len(w) \in Nat /\ k \in Nat
        BY <2>1, <2>2, LenProperties
    <2>4. Head(w) = w[1] /\ Head(w) \in Write
        BY <2>1, HeadTailProperties
    <2> QED
        BY <2>1, <2>2, <2>3, <2>4
<1> HIDE DEF v, k
<1>3. /\ \A n \in 0 .. k + 1 : p[n] \in S
      /\ \A n \in 1 .. k + 1 : p[n] = Put(p[n - 1], w[n])
    BY <1>1, <1>2 DEF IsPath
<1>4. q \in [0 .. k -> S]
    <2>1. \A n \in 0 .. k : n + 1 \in 0 .. k + 1
        BY <1>2
    <2> QED
        BY <1>3, <2>1
<1>5. ASSUME NEW n \in 1 .. k PROVE q[n] = Put(q[n - 1], v[n])
    <2>1. n + 1 \in 1 .. k + 1 /\ (n + 1) - 1 = n /\ (n - 1) + 1 = n
          /\ n \in 0 .. k /\ n - 1 \in 0 .. k
        BY <1>2
    <2>2. p[n + 1] = Put(p[n], w[n + 1])
        BY <1>3, <2>1
    <2>3. q[n] = p[n + 1] /\ q[n - 1] = p[n]
        BY <2>1
    <2> QED
        BY <1>2, <2>2, <2>3
<1>6. q[0] = Put(c, Head(w))
    <2>1. q[0] = p[1] /\ 1 \in 1 .. k + 1 /\ 1 - 1 = 0
        BY <1>2
    <2>2. p[1] = Put(p[0], w[1])
        BY <1>3, <2>1
    <2> QED
        BY <1>1, <1>2, <2>1, <2>2
<1>7. q[k] = d
    BY <1>1, <1>2
<1> HIDE DEF q
<1>8. IsPath(q, v, S)
    BY <1>4, <1>5 DEF IsPath, k
<1>9. Reaches(Put(c, Head(w)), v, S, d)
    BY <1>2, <1>6, <1>7, <1>8 DEF Reaches, k
<1> QED
    BY <1>2, <1>9 DEF v

\* Several queues that each take one page to the next.
LEMMA ReachAll ==
    ASSUME NEW S, NEW N \in Nat, NEW data \in [1 .. N -> Seq(Write)],
           NEW q \in [0 .. N -> S],
           \A j \in 1 .. N : Reaches(q[j - 1], data[j], S, q[j])
    PROVE  Reaches(q[0], FlattenSeq(data), S, q[N])
<1>1. CASE N = 0
    <2>1. data = <<>>
        BY <1>1
    <2>2. FlattenSeq(<<>>) = <<>>
        BY DEF FlattenSeq
    <2>3. q[0] \in S
        BY <1>1
    <2> QED
        BY <1>1, <2>1, <2>2, <2>3, ReachNothing
<1>2. CASE N # 0
    <2>0. N \in Nat \ {0} /\ N - 1 \in Nat
        BY <1>2
    <2>a. PICK f : FlatBy(f, data, N)
        BY <2>0, Flattened
    <2>1. /\ f[1] = data[1]
          /\ \A i \in 1 .. N - 1 : f[i + 1] = f[i] \o data[i + 1]
          /\ FlattenSeq(data) = f[N]
        BY <2>a DEF FlatBy
    <2> DEFINE T == {n \in Nat : Reaches(q[0], f[n + 1], S, q[n + 1])}
    <2>2. 0 \in T
        <3>1. 1 \in 1 .. N /\ 1 - 1 = 0
            BY <2>0
        <3>2. Reaches(q[1 - 1], data[1], S, q[1])
            BY <3>1
        <3> QED
            BY <2>1, <3>1, <3>2
    <2>3. ASSUME NEW n \in 0 .. (N - 1) - 1, n \in T PROVE n + 1 \in T
        <3>1. /\ n + 1 \in 1 .. N - 1 /\ (n + 1) + 1 \in 1 .. N
              /\ ((n + 1) + 1) - 1 = n + 1 /\ n + 1 \in Nat
            BY <2>0
        <3>2. f[(n + 1) + 1] = f[n + 1] \o data[(n + 1) + 1]
            BY <2>1, <3>1
        <3>3. Reaches(q[((n + 1) + 1) - 1], data[(n + 1) + 1], S, q[(n + 1) + 1])
            BY <3>1
        <3>3b. Reaches(q[n + 1], data[(n + 1) + 1], S, q[(n + 1) + 1])
            BY <3>1, <3>3
        <3>4. Reaches(q[0], f[n + 1], S, q[n + 1])
            BY <2>3
        <3>5. Reaches(q[0], f[n + 1] \o data[(n + 1) + 1], S, q[(n + 1) + 1])
            BY <3>3b, <3>4, ReachMore
        <3> QED
            BY <3>1, <3>2, <3>5
    <2> HIDE DEF T
    <2>4. \A n \in 0 .. N - 1 : n \in T
        BY <2>0, <2>2, <2>3, BoundedInduction
    <2>5. N - 1 \in T /\ (N - 1) + 1 = N
        BY <2>0, <2>4
    <2> QED
        BY <2>1, <2>5 DEF T
<1> QED
    BY <1>1, <1>2

\* The digits of one cell.
AtDigit(c, i, v, d) == [c EXCEPT ![i] = Torn(c[i], v, d)]

LEMMA ReachDigit ==
    ASSUME NEW S \in SUBSET Pages, NEW c \in Pages, NEW i \in Cells, NEW v \in Nat,
           NEW d \in 1 .. 4,
           AtDigit(c, i, v, d - 1) \in S, AtDigit(c, i, v, d) \in S
    PROVE  Reaches(AtDigit(c, i, v, d - 1), Digit(i, c[i], v, d), S,
                   AtDigit(c, i, v, d))
<1> DEFINE new == Torn(c[i], v, d)
           old == Torn(c[i], v, d - 1)
<1>1. c[i] \in Cell
    BY DEF Pages
<1>2. new \in Cell
    <2>1. d \in 0 .. 4
        OBVIOUS
    <2> QED
        BY <1>1, <2>1, TornInCell
<1> HIDE DEF new, old
<1>3. AtDigit(c, i, v, d - 1) = [c EXCEPT ![i] = old]
      /\ AtDigit(c, i, v, d) = [c EXCEPT ![i] = new]
    BY DEF AtDigit, new, old
<1>4. CASE old = new
    <2>1. Digit(i, c[i], v, d) = <<>>
        BY <1>4 DEF Digit, old, new
    <2> QED
        BY <1>3, <1>4, <2>1, ReachNothing
<1>5. CASE old # new
    <2> DEFINE x == <<i, new>>
               b == AtDigit(c, i, v, d - 1)
    <2>1. Digit(i, c[i], v, d) = <<x>>
        BY <1>5 DEF Digit, old, new
    <2>2. x \in Write
        BY <1>2 DEF Write
    <2>3. Put(b, x) = AtDigit(c, i, v, d)
        BY <1>3 DEF Put, Pages
    <2> HIDE DEF x, b
    <2>4. Reaches(b, <<x>>, S, Put(b, x))
        BY <2>2, <2>3, ReachOne DEF b
    <2> QED
        BY <2>1, <2>3, <2>4 DEF b
<1> QED
    BY <1>4, <1>5

LEMMA ReachSet ==
    ASSUME NEW S \in SUBSET Pages, NEW c \in Pages, NEW i \in Cells, NEW v \in Nat,
           \A d \in 0 .. 4 : AtDigit(c, i, v, d) \in S
    PROVE  Reaches(c, SetByIndex(i, c[i], v), S, AtDigit(c, i, v, 4))
<1> DEFINE w(d) == Digit(i, c[i], v, d)
           p(d) == AtDigit(c, i, v, d)
<1>1. p(0) = c
    <2>1. c[i] \in Cell
        BY DEF Pages
    <2>2. Torn(c[i], v, 0) = c[i]
        BY <2>1, TornEnds
    <2> QED
        BY <2>2 DEF AtDigit, Pages
<1>2. Reaches(p(0), w(1), S, p(1))
    <2>1. 1 \in 1 .. 4 /\ 1 - 1 = 0
        OBVIOUS
    <2> QED
        BY <2>1, ReachDigit
<1>3. Reaches(p(1), w(2), S, p(2))
    <2>1. 2 \in 1 .. 4 /\ 2 - 1 = 1
        OBVIOUS
    <2> QED
        BY <2>1, ReachDigit
<1>4. Reaches(p(2), w(3), S, p(3))
    <2>1. 3 \in 1 .. 4 /\ 3 - 1 = 2
        OBVIOUS
    <2> QED
        BY <2>1, ReachDigit
<1>5. Reaches(p(3), w(4), S, p(4))
    <2>1. 4 \in 1 .. 4 /\ 4 - 1 = 3
        OBVIOUS
    <2> QED
        BY <2>1, ReachDigit
<1> HIDE DEF w, p
<1>6. Reaches(p(0), w(1) \o w(2), S, p(2))
    BY <1>2, <1>3, ReachMore
<1>7. Reaches(p(0), w(1) \o w(2) \o w(3), S, p(3))
    BY <1>4, <1>6, ReachMore
<1>8. Reaches(p(0), w(1) \o w(2) \o w(3) \o w(4), S, p(4))
    BY <1>5, <1>7, ReachMore
<1>9. SetByIndex(i, c[i], v) = w(1) \o w(2) \o w(3) \o w(4)
    BY DEF SetByIndex, w
<1> QED
    BY <1>1, <1>8, <1>9 DEF p

-----------------------------------------------------------------------------
(* The lengths of the rows                                                 *)

LEMMA CellNat ==
    ASSUME NEW c \in Pages, NEW x \in 0 .. PageSize
    PROVE  c[x] \in Nat /\ c[x] \in Cell /\ c[x] <= MaxCell
<1>1. c[x] \in Cell
    BY DEF Pages, Cells
<1> QED
    BY <1>1, MaxCellNat DEF Cell

Lengths(c, n) == [r \in 0 .. n - 1 |-> Len0(c, r)]

LEMMA LengthNat ==
    ASSUME NEW c \in Pages, NEW n \in 0 .. PageSize
    PROVE  /\ IsFiniteSet(0 .. n - 1)
           /\ \A r \in 0 .. n - 1 : Lengths(c, n)[r] = c[r + 1] /\ c[r + 1] \in Nat
           /\ PrevSum(c, n) = Total(Lengths(c, n), 0 .. n - 1)
<1>1. IsFiniteSet(0 .. n - 1)
    BY FS_Interval
<1>2. ASSUME NEW r \in 0 .. n - 1
      PROVE  Lengths(c, n)[r] = c[r + 1] /\ c[r + 1] \in Nat
    <2>1. r + 1 \in 0 .. PageSize
        OBVIOUS
    <2> QED
        BY <2>1, CellNat DEF Lengths, Len0
<1>3. PrevSum(c, n) = Total(Lengths(c, n), 0 .. n - 1)
    BY DEF PrevSum, Total, Lengths
<1> QED
    BY <1>1, <1>2, <1>3

LEMMA PrevNat ==
    ASSUME NEW c \in Pages, NEW n \in 0 .. PageSize
    PROVE  PrevSum(c, n) \in Nat
<1> DEFINE f == Lengths(c, n)
           S == 0 .. n - 1
<1>1. IsFiniteSet(S) /\ (\A r \in S : f[r] \in Nat) /\ PrevSum(c, n) = Total(f, S)
    BY LengthNat
<1> HIDE DEF f, S
<1>2. Total(f, S) \in Nat
    BY <1>1, SumOfFirst
<1> QED
    BY <1>1, <1>2

LEMMA PrevZero ==
    ASSUME NEW c \in Pages
    PROVE  PrevSum(c, 0) = 0
<1>1. 0 \in 0 .. PageSize /\ 0 .. 0 - 1 = {}
    OBVIOUS
<1>2. PrevSum(c, 0) = Total(Lengths(c, 0), 0 .. 0 - 1)
    BY <1>1, LengthNat
<1> QED
    BY <1>1, <1>2, SumOfNone

\* Fewer and shorter rows take less.
LEMMA PrevBelow ==
    ASSUME NEW c \in Pages, NEW d \in Pages, NEW m \in 0 .. PageSize,
           NEW n \in 0 .. PageSize, m <= n,
           \A r \in 1 .. m : d[r] <= c[r]
    PROVE  PrevSum(d, m) <= PrevSum(c, n)
<1> DEFINE f == Lengths(c, n)
           k == Lengths(d, m)
           S == 0 .. n - 1
           R == 0 .. m - 1
<1>1. IsFiniteSet(S) /\ R \subseteq S
    <2>1. R \subseteq S
        OBVIOUS
    <2> QED
        BY <2>1, LengthNat
<1>2. \A r \in S : f[r] \in Nat
    BY LengthNat
<1>3. ASSUME NEW r \in R PROVE k[r] \in Nat /\ k[r] <= f[r]
    <2>1. k[r] = d[r + 1] /\ d[r + 1] \in Nat
        BY LengthNat
    <2>2. r \in S
        BY <1>1
    <2>3. f[r] = c[r + 1]
        BY <2>2, LengthNat
    <2>4. r + 1 \in 1 .. m
        OBVIOUS
    <2> QED
        BY <2>1, <2>3, <2>4
<1>4. PrevSum(d, m) = Total(k, R) /\ PrevSum(c, n) = Total(f, S)
    BY LengthNat
<1> HIDE DEF f, k, S, R
<1>5. Total(k, R) <= Total(f, S)
    BY <1>1, <1>2, <1>3, SumBelow
<1> QED
    BY <1>4, <1>5

\* The rows of equal lengths take the same.
LEMMA PrevSame ==
    ASSUME NEW c \in Pages, NEW d \in Pages, NEW n \in 0 .. PageSize,
           \A r \in 1 .. n : d[r] = c[r]
    PROVE  PrevSum(d, n) = PrevSum(c, n)
<1>0. \A r \in 1 .. n : d[r] <= c[r] /\ c[r] <= d[r]
    <2> TAKE r \in 1 .. n
    <2>1. r \in 0 .. PageSize
        OBVIOUS
    <2> QED
        BY <2>1, CellNat
<1>1. PrevSum(d, n) <= PrevSum(c, n)
    BY <1>0, PrevBelow
<1>2. PrevSum(c, n) <= PrevSum(d, n)
    BY <1>0, PrevBelow
<1> QED
    BY <1>1, <1>2, PrevNat

LEMMA PrevNext ==
    ASSUME NEW c \in Pages, NEW n \in Nat, n < PageSize
    PROVE  PrevSum(c, n + 1) = PrevSum(c, n) + c[n + 1]
<1> DEFINE f == Lengths(c, n)
           k == Lengths(c, n + 1)
           S == 0 .. n - 1
           R == 0 .. n
<1>0. n \in 0 .. PageSize /\ n + 1 \in 0 .. PageSize /\ R = 0 .. (n + 1) - 1
      /\ n \in R /\ R \ {n} = S
    OBVIOUS
<1>1. IsFiniteSet(S) /\ \A r \in S : f[r] = c[r + 1] /\ c[r + 1] \in Nat
    BY <1>0, LengthNat
<1>2. IsFiniteSet(R) /\ \A r \in R : k[r] = c[r + 1] /\ c[r + 1] \in Nat
    BY <1>0, LengthNat
<1>3. PrevSum(c, n) = Total(f, S) /\ PrevSum(c, n + 1) = Total(k, R)
    BY <1>0, LengthNat
<1> HIDE DEF f, k, S, R
<1>4. Total(k, R) = k[n] + Total(k, R \ {n})
    <2>1. \A r \in R : k[r] \in Nat
        BY <1>2
    <2>2. IsFiniteSet(R) /\ n \in R
        BY <1>0, <1>2
    <2> QED
        BY <2>1, <2>2, SumRemove
<1>5. \A r \in S : f[r] \in Nat /\ k[r] = f[r]
    BY <1>0, <1>1, <1>2
<1>6. Total(k, S) = Total(f, S)
    BY <1>1, <1>5, SumSame
<1>7. k[n] = c[n + 1] /\ c[n + 1] \in Nat
    BY <1>0, <1>2
<1>8. PrevSum(c, n) \in Nat
    BY <1>0, PrevNat
<1>9. Total(k, R) = k[n] + Total(k, S)
    BY <1>0, <1>4
<1> QED
    BY <1>3, <1>6, <1>7, <1>8, <1>9

\* One row becomes empty.
LEMMA PrevEmptied ==
    ASSUME NEW c \in Pages, NEW d \in Pages, NEW n \in 0 .. PageSize,
           NEW i \in 0 .. n - 1, d[i + 1] = 0,
           \A r \in 1 .. n : r # i + 1 => d[r] = c[r]
    PROVE  PrevSum(d, n) = PrevSum(c, n) - c[i + 1]
<1> DEFINE f == Lengths(c, n)
           k == Lengths(d, n)
           S == 0 .. n - 1
<1>1. IsFiniteSet(S) /\ PrevSum(c, n) = Total(f, S) /\ PrevSum(d, n) = Total(k, S)
    BY LengthNat
<1>2. \A r \in S : f[r] = c[r + 1] /\ c[r + 1] \in Nat /\ f[r] \in Nat
    BY LengthNat
<1>3. \A r \in S : k[r] = d[r + 1] /\ d[r + 1] \in Nat /\ k[r] \in Nat
    BY LengthNat
<1>4. \A r \in S \ {i} : k[r] = f[r]
    <2> TAKE r \in S \ {i}
    <2>1. r + 1 \in 1 .. n /\ r + 1 # i + 1
        OBVIOUS
    <2>2. d[r + 1] = c[r + 1]
        BY <2>1
    <2> QED
        BY <1>2, <1>3, <2>2
<1>5. i \in S
    OBVIOUS
<1>6. PrevSum(c, n) \in Nat /\ PrevSum(d, n) \in Nat
    BY PrevNat
<1> HIDE DEF f, k, S
<1> DEFINE Q == S \ {i}
<1>7. \A r \in S : f[r] \in Nat
    BY <1>2
<1>7a. \A r \in S : k[r] \in Nat
    BY <1>3
<1>7b. Total(f, S) = f[i] + Total(f, S \ {i})
    BY <1>1, <1>5, <1>7, SumRemove
<1>7c. Total(k, S) = k[i] + Total(k, S \ {i})
    BY <1>1, <1>5, <1>7a, SumRemove
<1>7d. IsFiniteSet(Q) /\ \A r \in Q : f[r] \in Nat /\ k[r] = f[r]
    BY <1>1, <1>4, <1>7, FS_RemoveElement
<1> HIDE DEF Q
<1>7e. Total(k, Q) = Total(f, Q)
    BY <1>7d, SumSame
<1>7f. Total(f, Q) \in Nat
    BY <1>7d, SumOfFirst
<1>8. f[i] = c[i + 1] /\ f[i] \in Nat /\ k[i] = 0
    BY <1>2, <1>3, <1>5
<1> QED
    BY <1>1, <1>6, <1>7b, <1>7c, <1>7e, <1>7f, <1>8 DEF Q

-----------------------------------------------------------------------------
(* Pages whose headers and rows keep apart                                 *)

Safe == {c \in Pages : c[0] < PageSize
                    /\ c[0] + 1 + PrevSum(c, c[0]) <= PageSize}

\* Where the packed rows of a page begin.
Packed(c) == PageSize - PrevSum(c, c[0])

LEMMA SafeFacts ==
    ASSUME NEW c \in Safe
    PROVE  /\ c \in Pages /\ c[0] \in Nat /\ c[0] \in Cell /\ c[0] < PageSize
           /\ c[0] \in 0 .. PageSize
           /\ PrevSum(c, c[0]) \in Nat
           /\ Packed(c) \in Nat /\ Packed(c) > c[0] /\ Packed(c) <= PageSize
           /\ Packed(c) = PageSize - PrevSum(c, c[0])
<1>1. c \in Pages /\ c[0] < PageSize /\ c[0] + 1 + PrevSum(c, c[0]) <= PageSize
    BY DEF Safe
<1>2. 0 \in 0 .. PageSize
    OBVIOUS
<1>3. c[0] \in Nat /\ c[0] \in Cell
    BY <1>1, <1>2, CellNat
<1>4. c[0] \in 0 .. PageSize
    BY <1>1, <1>3
<1>5. PrevSum(c, c[0]) \in Nat
    BY <1>1, <1>4, PrevNat
<1> QED
    BY <1>1, <1>3, <1>4, <1>5 DEF Packed

\* What the rows up to row i take, and where row i is.
LEMMA RowPlace ==
    ASSUME NEW c \in Safe, NEW i \in Nat, i < c[0]
    PROVE  /\ i < PageSize /\ i + 1 \in 0 .. PageSize /\ i \in 0 .. PageSize
           /\ PrevSum(c, i) \in Nat /\ PrevSum(c, i + 1) \in Nat
           /\ c[i + 1] \in Nat
           /\ PrevSum(c, i + 1) = PrevSum(c, i) + c[i + 1]
           /\ PrevSum(c, i + 1) <= PrevSum(c, c[0])
<1>1. c \in Pages /\ c[0] \in Nat /\ c[0] < PageSize /\ c[0] \in 0 .. PageSize
    BY SafeFacts
<1>2. i < PageSize /\ i + 1 \in 0 .. PageSize /\ i \in 0 .. PageSize /\ i + 1 <= c[0]
    BY <1>1
<1>3. PrevSum(c, i) \in Nat /\ PrevSum(c, i + 1) \in Nat /\ c[i + 1] \in Nat
    BY <1>1, <1>2, PrevNat, CellNat
<1>4. PrevSum(c, i + 1) = PrevSum(c, i) + c[i + 1]
    BY <1>1, <1>2, PrevNext
<1>5. \A r \in 1 .. i + 1 : c[r] <= c[r]
    <2> TAKE r \in 1 .. i + 1
    <2>1. r \in 0 .. PageSize
        BY <1>2
    <2> QED
        BY <1>1, <2>1, CellNat
<1>6. PrevSum(c, i + 1) <= PrevSum(c, c[0])
    BY <1>1, <1>2, <1>5, PrevBelow
<1> QED
    BY <1>2, <1>3, <1>4, <1>6

\* The cells of row i are where they were, and so are the lengths before it.
RowKept(c, d, i) ==
    /\ \A r \in 1 .. i + 1 : d[r] = c[r]
    /\ \A x \in PageSize - PrevSum(c, i + 1) .. PageSize - PrevSum(c, i) - 1 :
          d[x] = c[x]

LEMMA RowSame ==
    ASSUME NEW c \in Safe, NEW d \in Pages, NEW i \in Nat, i < c[0],
           RowKept(c, d, i)
    PROVE  GetRow(d, i) = GetRow(c, i)
<1>1. /\ i < PageSize /\ i + 1 \in 0 .. PageSize /\ c \in Pages
      /\ PrevSum(c, i) \in Nat /\ PrevSum(c, i + 1) \in Nat /\ c[i + 1] \in Nat
      /\ PrevSum(c, i + 1) = PrevSum(c, i) + c[i + 1]
    BY RowPlace, SafeFacts
<1>2. PrevSum(d, i + 1) = PrevSum(c, i + 1)
    BY <1>1, PrevSame DEF RowKept
<1>3. Len0(d, i) = c[i + 1] /\ Len0(c, i) = c[i + 1]
    <2>1. i + 1 \in 1 .. i + 1
        OBVIOUS
    <2> QED
        BY <2>1 DEF RowKept, Len0
<1> DEFINE first == PageSize - PrevSum(c, i + 1)
<1>4. ASSUME NEW j \in 1 .. c[i + 1] PROVE d[first + j - 1] = c[first + j - 1]
    <2>1. first + j - 1 \in first .. PageSize - PrevSum(c, i) - 1
        BY <1>1
    <2> QED
        BY <2>1 DEF RowKept
<1>5. [j \in 1 .. c[i + 1] |-> d[first + j - 1]]
        = [j \in 1 .. c[i + 1] |-> c[first + j - 1]]
    BY <1>4
<1> QED
    BY <1>2, <1>3, <1>5 DEF GetRow

LEMMA RowIsString ==
    ASSUME NEW c \in Safe, NEW i \in Nat, i < c[0]
    PROVE  /\ GetRow(c, i) \in Seq(Cell)
           /\ Len(GetRow(c, i)) = c[i + 1]
           /\ GetRow(c, i) = <<>> <=> c[i + 1] = 0
<1>1. /\ i < PageSize /\ i + 1 \in 0 .. PageSize /\ c \in Pages
      /\ PrevSum(c, i) \in Nat /\ PrevSum(c, i + 1) \in Nat /\ c[i + 1] \in Nat
      /\ PrevSum(c, i + 1) = PrevSum(c, i) + c[i + 1]
      /\ PrevSum(c, i + 1) <= PrevSum(c, c[0])
      /\ PrevSum(c, c[0]) \in Nat /\ PrevSum(c, c[0]) <= PageSize
    BY RowPlace, SafeFacts
<1> DEFINE first == PageSize - PrevSum(c, i + 1)
           n == c[i + 1]
           s == [j \in 1 .. n |-> c[first + j - 1]]
<1>2. ASSUME NEW j \in 1 .. n PROVE c[first + j - 1] \in Cell
    <2>1. first + j - 1 \in 0 .. PageSize
        BY <1>1
    <2> QED
        BY <1>1, <2>1, CellNat
<1>3. GetRow(c, i) = s
    BY DEF GetRow, Len0
<1>4. n \in Nat
    BY <1>1
<1> HIDE DEF n, first
<1>5. s \in [1 .. n -> Cell]
    BY <1>2
<1>6. s \in Seq(Cell) /\ Len(s) = n
    BY <1>4, <1>5
<1>7. s = <<>> <=> n = 0
    BY <1>4, <1>6
<1> QED
    BY <1>3, <1>6, <1>7 DEF n

\* Pages that show the same rows.
Alike(c) ==
    {d \in Pages :
        /\ d[0] = c[0]
        /\ \A r \in 1 .. c[0] : d[r] = c[r]
        /\ \A x \in Packed(c) .. PageSize : d[x] = c[x]}

LEMMA AlikeSafe ==
    ASSUME NEW c \in Safe, NEW d \in Alike(c)
    PROVE  d \in Safe
<1>1. c \in Pages /\ c[0] \in 0 .. PageSize /\ c[0] < PageSize
    BY SafeFacts
<1>2. d \in Pages /\ d[0] = c[0] /\ \A r \in 1 .. c[0] : d[r] = c[r]
    BY DEF Alike
<1>3. PrevSum(d, c[0]) = PrevSum(c, c[0])
    BY <1>1, <1>2, PrevSame
<1> QED
    BY <1>2, <1>3 DEF Safe

LEMMA AlikeRows ==
    ASSUME NEW c \in Safe, NEW d \in Alike(c), NEW i \in Nat, i < c[0]
    PROVE  GetRow(d, i) = GetRow(c, i)
<1>1. /\ PrevSum(c, i) \in Nat /\ PrevSum(c, i + 1) \in Nat
      /\ PrevSum(c, i + 1) <= PrevSum(c, c[0])
      /\ PrevSum(c, c[0]) \in Nat /\ c[0] \in Nat
      /\ Packed(c) = PageSize - PrevSum(c, c[0])
    BY RowPlace, SafeFacts
<1>2. d \in Pages /\ (\A r \in 1 .. c[0] : d[r] = c[r])
      /\ \A x \in Packed(c) .. PageSize : d[x] = c[x]
    BY DEF Alike
<1>3. \A r \in 1 .. i + 1 : d[r] = c[r]
    <2> TAKE r \in 1 .. i + 1
    <2>1. r \in 1 .. c[0]
        BY <1>1
    <2> QED
        BY <1>2, <2>1
<1>4. \A x \in PageSize - PrevSum(c, i + 1) .. PageSize - PrevSum(c, i) - 1 :
        d[x] = c[x]
    <2> TAKE x \in PageSize - PrevSum(c, i + 1) .. PageSize - PrevSum(c, i) - 1
    <2>1. x \in Packed(c) .. PageSize
        BY <1>1
    <2> QED
        BY <1>2, <2>1
<1>5. RowKept(c, d, i)
    BY <1>3, <1>4 DEF RowKept
<1> QED
    BY <1>2, <1>5, RowSame

-----------------------------------------------------------------------------
(* insertRow: the page shows the rows it showed, then one more             *)

Strings == Keys \cup Values

LEMMA StringFacts ==
    ASSUME NEW row \in Strings
    PROVE  /\ Len(row) \in Nat \ {0} /\ Len(row) \in Cell
           /\ \A j \in 1 .. Len(row) : row[j] \in Cell /\ row[j] \in Nat
           /\ row = [j \in 1 .. Len(row) |-> row[j]]
           /\ row \in Seq(Cell) /\ row # <<>>
<1>1. row \in Seq(1 .. MaxCell) /\ Len(row) \in 1 .. MaxCell
    BY DEF Strings
<1>2. 1 .. MaxCell \subseteq Cell /\ 1 .. MaxCell \subseteq Nat
    BY MaxCellNat DEF Cell
<1>3. \A j \in 1 .. Len(row) : row[j] \in 1 .. MaxCell
    BY <1>1, ElementOfSeq
<1>4. row = [j \in 1 .. Len(row) |-> row[j]] /\ row # <<>>
    BY <1>1
<1>5. row \in Seq(Cell)
    BY <1>1, <1>2, SeqMonotonic
<1> QED
    BY <1>1, <1>2, <1>3, <1>4, <1>5, MaxCellNat DEF Cell

\* Where the new row begins.
RowStart(c, row) == PageSize - PrevSum(c, Rows(c)) - Len(row)

\* The page with the first j characters; with the length; with its count torn
\* after d digits; and with the new row.
Filled(c, row, j) ==
    [x \in Cells |-> IF x \in RowStart(c, row) .. RowStart(c, row) + j - 1
                     THEN row[x - RowStart(c, row) + 1] ELSE c[x]]
Measured(c, row) == [Filled(c, row, Len(row)) EXCEPT ![c[0] + 1] = Len(row)]
Counting(c, row) == {AtDigit(Measured(c, row), 0, c[0] + 1, d) : d \in 0 .. 4}
Inserted(c, row) == AtDigit(Measured(c, row), 0, c[0] + 1, 4)

LEMMA RoomFacts ==
    ASSUME NEW c \in Safe, NEW row \in Strings, HasSpace(c, row)
    PROVE  /\ RowStart(c, row) \in Nat
           /\ RowStart(c, row) >= c[0] + 2
           /\ RowStart(c, row) + Len(row) = Packed(c)
           /\ Packed(c) <= PageSize
           /\ c[0] \in Nat /\ c \in Pages /\ Len(row) \in Nat
<1>1. /\ c \in Pages /\ c[0] \in Nat /\ PrevSum(c, c[0]) \in Nat
      /\ Packed(c) = PageSize - PrevSum(c, c[0]) /\ Packed(c) <= PageSize
    BY SafeFacts
<1>2. Len(row) \in Nat
    BY StringFacts
<1>3. PrevSum(c, c[0]) + Len(row) + 2 + c[0] <= PageSize
    BY DEF HasSpace, Rows
<1>4. RowStart(c, row) = PageSize - PrevSum(c, c[0]) - Len(row)
    BY DEF RowStart, Rows
<1> QED
    BY <1>1, <1>2, <1>3, <1>4

LEMMA FilledAlike ==
    ASSUME NEW c \in Safe, NEW row \in Strings, HasSpace(c, row),
           NEW j \in 0 .. Len(row)
    PROVE  /\ Filled(c, row, j) \in Alike(c)
           /\ \A x \in 0 .. c[0] + 1 : Filled(c, row, j)[x] = c[x]
           /\ j = 0 => Filled(c, row, j) = c
<1> DEFINE first == RowStart(c, row)
           f == Filled(c, row, j)
<1>1. /\ first \in Nat /\ first >= c[0] + 2 /\ first + Len(row) = Packed(c)
      /\ Packed(c) <= PageSize /\ c[0] \in Nat /\ c \in Pages /\ Len(row) \in Nat
    BY RoomFacts
<1>2. \A k \in 1 .. Len(row) : row[k] \in Cell
    BY StringFacts
<1>3. \A x \in Cells : f[x] = IF x \in first .. first + j - 1
                              THEN row[x - first + 1] ELSE c[x]
    BY DEF Filled
<1>4. f \in Pages
    <2>1. ASSUME NEW x \in Cells
          PROVE  (IF x \in first .. first + j - 1
                  THEN row[x - first + 1] ELSE c[x]) \in Cell
        <3>1. CASE x \in first .. first + j - 1
            <4>1. x - first + 1 \in 1 .. Len(row)
                BY <1>1, <3>1
            <4> QED
                BY <1>2, <3>1, <4>1
        <3>2. CASE ~(x \in first .. first + j - 1)
            BY <1>1, <3>2 DEF Pages
        <3> QED
            BY <3>1, <3>2
    <2> QED
        BY <2>1 DEF Filled, Pages
<1> HIDE DEF f, first
<1>5. ASSUME NEW x \in 0 .. c[0] + 1 PROVE f[x] = c[x]
    <2>1. x \in Cells /\ ~(x \in first .. first + j - 1)
        BY <1>1 DEF Cells
    <2> QED
        BY <1>3, <2>1
<1>6. ASSUME NEW x \in Packed(c) .. PageSize PROVE f[x] = c[x]
    <2>1. x \in Cells /\ ~(x \in first .. first + j - 1)
        BY <1>1 DEF Cells
    <2> QED
        BY <1>3, <2>1
<1>7. f[0] = c[0] /\ \A r \in 1 .. c[0] : f[r] = c[r]
    BY <1>1, <1>5
<1>8. f \in Alike(c)
    BY <1>4, <1>6, <1>7 DEF Alike
<1>9. ASSUME j = 0 PROVE f = c
    <2>1. \A x \in Cells : ~(x \in first .. first + j - 1)
        BY <1>1, <1>9 DEF Cells
    <2>2. \A x \in Cells : f[x] = c[x]
        BY <1>3, <2>1
    <2> QED
        BY <1>1, <1>4, <2>2 DEF Pages
<1> QED
    BY <1>5, <1>8, <1>9 DEF f

\* One character.
LEMMA ReachCharacter ==
    ASSUME NEW c \in Safe, NEW row \in Strings, HasSpace(c, row),
           NEW j \in 1 .. Len(row)
    PROVE  Reaches(Filled(c, row, j - 1),
                   SetByIndex(RowStart(c, row) + j - 1,
                              c[RowStart(c, row) + j - 1], row[j]),
                   Alike(c), Filled(c, row, j))
<1> DEFINE first == RowStart(c, row)
           b == Filled(c, row, j - 1)
           i == first + j - 1
           v == row[j]
<1>1. /\ first \in Nat /\ first >= c[0] + 2 /\ first + Len(row) = Packed(c)
      /\ Packed(c) <= PageSize /\ c[0] \in Nat /\ c \in Pages /\ Len(row) \in Nat
    BY RoomFacts
<1>2. v \in Cell /\ v \in Nat
    BY StringFacts
<1>3. /\ j - 1 \in 0 .. Len(row) /\ i \in Cells /\ i > c[0] + 1 /\ i < Packed(c)
      /\ j \in Nat /\ i \in Nat
    BY <1>1 DEF Cells
<1>4. b \in Alike(c)
    BY <1>3, FilledAlike
<1>5. /\ b \in Pages /\ b[0] = c[0] /\ (\A r \in 1 .. c[0] : b[r] = c[r])
      /\ \A x \in Packed(c) .. PageSize : b[x] = c[x]
    BY <1>4 DEF Alike
<1>6. b[i] = c[i]
    BY <1>1, <1>3 DEF Filled
<1>7. ASSUME NEW d \in 0 .. 4 PROVE AtDigit(b, i, v, d) \in Alike(c)
    <2>1. b[i] \in Cell
        BY <1>3, <1>5 DEF Pages
    <2>2. Torn(b[i], v, d) \in Cell
        BY <1>2, <2>1, TornInCell
    <2>3. AtDigit(b, i, v, d) \in Pages
        BY <1>5, <2>2 DEF AtDigit, Pages
    <2>4. \A x \in Cells : x # i => AtDigit(b, i, v, d)[x] = b[x]
        BY <1>5 DEF AtDigit, Pages
    <2> HIDE DEF b, i, v, first
    <2>5. ASSUME NEW x \in 0 .. c[0] PROVE AtDigit(b, i, v, d)[x] = b[x]
        <3>1. x \in Cells /\ x # i
            BY <1>1, <1>3 DEF Cells
        <3> QED
            BY <2>4, <3>1
    <2>6. ASSUME NEW x \in Packed(c) .. PageSize
          PROVE  AtDigit(b, i, v, d)[x] = c[x]
        <3>1. x \in Cells /\ x # i
            BY <1>1, <1>3 DEF Cells
        <3> QED
            BY <1>5, <2>4, <3>1
    <2>7. AtDigit(b, i, v, d)[0] = c[0]
          /\ \A r \in 1 .. c[0] : AtDigit(b, i, v, d)[r] = c[r]
        BY <1>1, <1>5, <2>5
    <2> QED
        BY <2>3, <2>6, <2>7 DEF Alike
<1>8. Alike(c) \in SUBSET Pages
    BY DEF Alike
<1>9. AtDigit(b, i, v, 4) = Filled(c, row, j)
    <2>1. Torn(b[i], v, 4) = v
        <3>1. b[i] \in Cell
            BY <1>3, <1>5 DEF Pages
        <3> QED
            BY <1>2, <3>1, TornEnds
    <2>2. AtDigit(b, i, v, 4) = [b EXCEPT ![i] = v]
        BY <2>1 DEF AtDigit
    <2>3. ASSUME NEW x \in Cells
          PROVE  [b EXCEPT ![i] = v][x] = Filled(c, row, j)[x]
        <3>1. CASE x = i
            <4>1. x \in first .. first + j - 1 /\ x - first + 1 = j
                BY <1>1, <1>3, <3>1
            <4>2. Filled(c, row, j)[x] = row[j]
                BY <4>1 DEF Filled
            <4>3. [b EXCEPT ![i] = v][x] = v
                BY <1>5, <3>1 DEF Pages
            <4> QED
                BY <4>2, <4>3
        <3>2. CASE x # i
            <4>1. x \in first .. first + j - 1 <=> x \in first .. first + (j - 1) - 1
                BY <1>1, <1>3, <3>2 DEF Cells
            <4>2. Filled(c, row, j)[x] = b[x]
                BY <4>1 DEF Filled
            <4>3. [b EXCEPT ![i] = v][x] = b[x]
                BY <1>5, <3>2 DEF Pages
            <4> QED
                BY <4>2, <4>3
        <3> QED
            BY <3>1, <3>2
    <2>4. DOMAIN [b EXCEPT ![i] = v] = Cells
        BY <1>5 DEF Pages
    <2>5. [b EXCEPT ![i] = v] = [x \in Cells |-> [b EXCEPT ![i] = v][x]]
        BY <1>5 DEF Pages
    <2>6. Filled(c, row, j) = [x \in Cells |-> Filled(c, row, j)[x]]
        BY DEF Filled
    <2> QED
        BY <2>2, <2>3, <2>5, <2>6
<1> HIDE DEF b, i, v
<1>10. Reaches(b, SetByIndex(i, b[i], v), Alike(c), AtDigit(b, i, v, 4))
    BY <1>2, <1>3, <1>5, <1>7, <1>8, ReachSet
<1> QED
    BY <1>6, <1>9, <1>10 DEF b, i, v

LEMMA MeasuredFacts ==
    ASSUME NEW c \in Safe, NEW row \in Strings, HasSpace(c, row)
    PROVE  /\ Measured(c, row) \in Alike(c)
           /\ Measured(c, row)[c[0] + 1] = Len(row)
           /\ \A x \in Cells : x # c[0] + 1 =>
                Measured(c, row)[x] = Filled(c, row, Len(row))[x]
           /\ Reaches(Filled(c, row, Len(row)),
                      SetByIndex(Rows(c) + 1, c[Rows(c) + 1], Len(row)),
                      Alike(c), Measured(c, row))
<1> DEFINE b == Filled(c, row, Len(row))
           i == c[0] + 1
           v == Len(row)
<1>1. /\ RowStart(c, row) \in Nat /\ RowStart(c, row) >= c[0] + 2
      /\ RowStart(c, row) + Len(row) = Packed(c)
      /\ Packed(c) <= PageSize /\ c[0] \in Nat /\ c \in Pages /\ Len(row) \in Nat
    BY RoomFacts
<1>2. v \in Cell /\ v \in Nat /\ v \in 0 .. Len(row)
    BY StringFacts
<1>3. i \in Cells /\ i \in 0 .. c[0] + 1 /\ i < Packed(c) /\ i \in Nat
    BY <1>1, <1>2 DEF Cells
<1>4. b \in Alike(c) /\ b[i] = c[i]
    BY <1>2, <1>3, FilledAlike
<1>5. /\ b \in Pages /\ b[0] = c[0] /\ (\A r \in 1 .. c[0] : b[r] = c[r])
      /\ \A x \in Packed(c) .. PageSize : b[x] = c[x]
    BY <1>4 DEF Alike
<1>7. ASSUME NEW d \in 0 .. 4 PROVE AtDigit(b, i, v, d) \in Alike(c)
    <2>1. b[i] \in Cell
        BY <1>3, <1>5 DEF Pages
    <2>2. Torn(b[i], v, d) \in Cell
        BY <1>2, <2>1, TornInCell
    <2>3. AtDigit(b, i, v, d) \in Pages
        BY <1>5, <2>2 DEF AtDigit, Pages
    <2>4. \A x \in Cells : x # i => AtDigit(b, i, v, d)[x] = b[x]
        BY <1>5 DEF AtDigit, Pages
    <2> HIDE DEF b, v
    <2>5. ASSUME NEW x \in 0 .. c[0] PROVE AtDigit(b, i, v, d)[x] = b[x]
        <3>1. x \in Cells /\ x # i
            BY <1>1, <1>3 DEF Cells
        <3> QED
            BY <2>4, <3>1
    <2>6. ASSUME NEW x \in Packed(c) .. PageSize
          PROVE  AtDigit(b, i, v, d)[x] = c[x]
        <3>1. x \in Cells /\ x # i
            BY <1>1, <1>3 DEF Cells
        <3> QED
            BY <1>5, <2>4, <3>1
    <2>7. AtDigit(b, i, v, d)[0] = c[0]
          /\ \A r \in 1 .. c[0] : AtDigit(b, i, v, d)[r] = c[r]
        BY <1>1, <1>5, <2>5
    <2> QED
        BY <2>3, <2>6, <2>7 DEF Alike
<1>8. Alike(c) \in SUBSET Pages
    BY DEF Alike
<1>9. AtDigit(b, i, v, 4) = Measured(c, row)
    <2>1. b[i] \in Cell
        BY <1>3, <1>5 DEF Pages
    <2>2. Torn(b[i], v, 4) = v
        BY <1>2, <2>1, TornEnds
    <2> QED
        BY <2>2 DEF AtDigit, Measured
<1>10. /\ Measured(c, row)[i] = v
       /\ \A x \in Cells : x # i => Measured(c, row)[x] = b[x]
    BY <1>3, <1>5 DEF Measured, Pages
<1> HIDE DEF b, i, v
<1>11. Reaches(b, SetByIndex(i, b[i], v), Alike(c), AtDigit(b, i, v, 4))
    BY <1>2, <1>3, <1>5, <1>7, <1>8, ReachSet
<1>12. Measured(c, row) \in Alike(c)
    <2>1. 4 \in 0 .. 4
        OBVIOUS
    <2> QED
        BY <1>7, <1>9, <2>1
<1>13. Reaches(b, SetByIndex(i, c[i], v), Alike(c), Measured(c, row))
    BY <1>4, <1>9, <1>11
<1> QED
    BY <1>10, <1>12, <1>13 DEF b, i, v, Rows

\* While the count is being raised, the page shows no more rows than the new
\* count, and all of them fit.
LEMMA CountingSafe ==
    ASSUME NEW c \in Safe, NEW row \in Strings, HasSpace(c, row),
           NEW d \in 0 .. 4
    PROVE  AtDigit(Measured(c, row), 0, c[0] + 1, d) \in Safe
<1> DEFINE m == Measured(c, row)
           t == Torn(c[0], c[0] + 1, d)
           e == AtDigit(m, 0, c[0] + 1, d)
<1>1. /\ c \in Pages /\ c[0] \in Nat /\ c[0] \in Cell /\ c[0] < PageSize
      /\ c[0] \in 0 .. PageSize /\ PrevSum(c, c[0]) \in Nat
    BY SafeFacts
<1>2. /\ m \in Pages /\ m[0] = c[0] /\ (\A r \in 1 .. c[0] : m[r] = c[r])
      /\ m[c[0] + 1] = Len(row)
    BY MeasuredFacts DEF Alike
<1>3. t \in Cell /\ t \in Nat /\ (t <= c[0] \/ t = c[0] + 1)
    <2>0. c[0] + 1 \in Nat
        BY <1>1
    <2>1. t \in Cell
        BY <1>1, <2>0, TornInCell
    <2>2. t \in Nat
        BY <2>1, MaxCellNat DEF Cell
    <2>3. t <= c[0] \/ t = c[0] + 1
        BY <1>1, TornUp
    <2> QED
        BY <2>1, <2>2, <2>3
<1>4. e = [m EXCEPT ![0] = t]
    BY <1>2 DEF AtDigit
<1>5. 0 \in Cells
    BY DEF Cells
<1> HIDE DEF t, m, e
<1>6. e \in Pages /\ e[0] = t /\ \A x \in Cells : x # 0 => e[x] = m[x]
    BY <1>2, <1>3, <1>4, <1>5 DEF Pages
<1>7. \A r \in 1 .. c[0] : e[r] = c[r]
    <2> TAKE r \in 1 .. c[0]
    <2>1. r \in Cells /\ r # 0
        BY <1>1 DEF Cells
    <2> QED
        BY <1>2, <1>6, <2>1
<1>8. PrevSum(e, c[0]) = PrevSum(c, c[0])
    BY <1>1, <1>6, <1>7, PrevSame
<1>9. ASSUME t <= c[0] PROVE e \in Safe
    <2>1. t \in 0 .. PageSize
        BY <1>1, <1>3, <1>9
    <2>2. \A r \in 1 .. t : e[r] <= c[r]
        <3> TAKE r \in 1 .. t
        <3>1. r \in 1 .. c[0] /\ r \in 0 .. PageSize
            BY <1>1, <1>3, <1>9
        <3> QED
            BY <1>1, <1>7, <3>1, CellNat
    <2>3. PrevSum(e, t) <= PrevSum(c, c[0])
        BY <1>1, <1>6, <1>9, <2>1, <2>2, PrevBelow
    <2>4. PrevSum(e, t) \in Nat
        BY <1>6, <2>1, PrevNat
    <2>5. c[0] + 1 + PrevSum(c, c[0]) <= PageSize
        BY DEF Safe
    <2>6. t < PageSize /\ t + 1 + PrevSum(e, t) <= PageSize
        BY <1>1, <1>3, <1>9, <2>3, <2>4, <2>5
    <2> QED
        BY <1>6, <2>6 DEF Safe
<1>10. ASSUME t = c[0] + 1 PROVE e \in Safe
    <2>1. Len(row) \in Nat
        BY StringFacts
    <2>2. PrevSum(c, c[0]) + Len(row) + 2 + c[0] <= PageSize
        BY DEF HasSpace, Rows
    <2>3. e[c[0] + 1] = Len(row)
        <3>1. c[0] + 1 \in Cells /\ c[0] + 1 # 0
            BY <1>1 DEF Cells
        <3> QED
            BY <1>2, <1>6, <3>1
    <2>4. PrevSum(e, c[0] + 1) = PrevSum(e, c[0]) + e[c[0] + 1]
        BY <1>1, <1>6, PrevNext
    <2>5. t < PageSize /\ t + 1 + PrevSum(e, t) <= PageSize
        BY <1>1, <1>8, <1>10, <2>1, <2>2, <2>3, <2>4
    <2> QED
        BY <1>6, <2>5 DEF Safe
<1> QED
    BY <1>3, <1>9, <1>10 DEF e, m

LEMMA CountingPages ==
    ASSUME NEW c \in Safe, NEW row \in Strings, HasSpace(c, row)
    PROVE  Counting(c, row) \subseteq Safe /\ Alike(c) \subseteq Safe
<1>1. \A d \in 0 .. 4 : AtDigit(Measured(c, row), 0, c[0] + 1, d) \in Safe
    BY CountingSafe
<1> QED
    BY <1>1, AlikeSafe DEF Counting

LEMMA InsertReaches ==
    ASSUME NEW c \in Safe, NEW row \in Strings, HasSpace(c, row)
    PROVE  Reaches(c, InsertRow(c, row), Alike(c) \cup Counting(c, row),
                   Inserted(c, row))
<1> DEFINE n == Len(row)
           first == RowStart(c, row)
           S == Alike(c) \cup Counting(c, row)
           data == [j \in 1 .. n |-> SetByIndex(first + j - 1, c[first + j - 1],
                                                row[j])]
           q == [j \in 0 .. n |-> Filled(c, row, j)]
           m == Measured(c, row)
           wl == SetByIndex(Rows(c) + 1, c[Rows(c) + 1], Len(row))
           wc == SetByIndex(0, Rows(c), Rows(c) + 1)
<1>1. n \in Nat /\ 0 \in 0 .. n /\ n \in 0 .. n
    BY StringFacts
<1>2. Alike(c) \subseteq S /\ Counting(c, row) \subseteq S /\ S \in SUBSET Pages
    BY CountingPages DEF Safe
<1>3. q \in [0 .. n -> Alike(c)]
    BY FilledAlike
<1>4. ASSUME NEW j \in 1 .. n PROVE Reaches(q[j - 1], data[j], Alike(c), q[j])
    <2>1. q[j - 1] = Filled(c, row, j - 1) /\ q[j] = Filled(c, row, j)
        BY <1>1
    <2>2. data[j] = SetByIndex(first + j - 1, c[first + j - 1], row[j])
        OBVIOUS
    <2> QED
        BY <2>1, <2>2, ReachCharacter
<1>5. data \in [1 .. n -> Seq(Write)]
    <2>1. ASSUME NEW j \in 1 .. n PROVE data[j] \in Seq(Write)
        <3>1. Reaches(q[j - 1], data[j], Alike(c), q[j])
            BY <1>4
        <3> QED
            BY <3>1 DEF Reaches
    <2> QED
        BY <2>1
<1>6. q[0] = c /\ q[n] = Filled(c, row, n)
    BY <1>1, FilledAlike
<1>7. InsertRow(c, row) = FlattenSeq(data) \o wl \o wc
    BY DEF InsertRow, RowStart
<1>8. Reaches(Filled(c, row, n), wl, Alike(c), m)
    BY MeasuredFacts
<1>9. m \in Alike(c) /\ m \in Pages /\ m[0] = c[0]
    BY MeasuredFacts DEF Alike
<1>10. \A d \in 0 .. 4 : AtDigit(m, 0, c[0] + 1, d) \in S
    BY DEF Counting
<1>11. c[0] \in Nat /\ 0 \in Cells
    BY SafeFacts DEF Cells
<1> HIDE DEF q, data, n, S, m
<1>12. Reaches(q[0], FlattenSeq(data), Alike(c), q[n])
    BY <1>1, <1>3, <1>4, <1>5, ReachAll
<1>13. Reaches(c, FlattenSeq(data), S, Filled(c, row, n))
    BY <1>2, <1>6, <1>12, ReachWithin
<1>14. Reaches(Filled(c, row, n), wl, S, m)
    BY <1>2, <1>8, ReachWithin
<1>15. Reaches(m, SetByIndex(0, m[0], c[0] + 1), S, AtDigit(m, 0, c[0] + 1, 4))
    <2>1. c[0] + 1 \in Nat
        BY <1>11
    <2> QED
        BY <1>2, <1>9, <1>10, <1>11, <2>1, ReachSet
<1>16. Reaches(m, wc, S, Inserted(c, row))
    BY <1>9, <1>15 DEF Inserted, Rows, m
<1> HIDE DEF wl, wc
<1>17. Reaches(c, FlattenSeq(data) \o wl, S, m)
    BY <1>13, <1>14, ReachMore
<1>18. Reaches(c, FlattenSeq(data) \o wl \o wc, S, Inserted(c, row))
    BY <1>16, <1>17, ReachMore
<1> QED
    BY <1>7, <1>18 DEF S

-----------------------------------------------------------------------------
(* deleteRow                                                               *)

\* Pages that show the rows of c, row i perhaps shorter.
Shortened(c, i) ==
    {d \in Pages :
        /\ d[0] = c[0]
        /\ d[i + 1] <= c[i + 1]
        /\ \A r \in 1 .. c[0] : r # i + 1 => d[r] = c[r]}

\* Where row i and all rows begin.
From(c, i) == PageSize - c[i + 1] - PrevSum(c, i)

LEMMA DeleteFacts ==
    ASSUME NEW c \in Safe, NEW i \in Nat, i < c[0]
    PROVE  /\ c \in Pages /\ c[0] \in Nat /\ i + 1 \in Cells /\ 0 \in Cells
           /\ c[i + 1] \in Nat /\ c[i + 1] \in Cell
           /\ From(c, i) \in Nat /\ Packed(c) \in Nat
           /\ Packed(c) > c[0] /\ Packed(c) <= From(c, i)
           /\ From(c, i) + c[i + 1] <= PageSize
           /\ From(c, i) = PageSize - PrevSum(c, i + 1)
           /\ From(c, i) + c[i + 1] = PageSize - PrevSum(c, i)
<1>1. /\ i < PageSize /\ i + 1 \in 0 .. PageSize
      /\ PrevSum(c, i) \in Nat /\ PrevSum(c, i + 1) \in Nat /\ c[i + 1] \in Nat
      /\ PrevSum(c, i + 1) = PrevSum(c, i) + c[i + 1]
      /\ PrevSum(c, i + 1) <= PrevSum(c, c[0])
    BY RowPlace
<1>2. /\ c \in Pages /\ c[0] \in Nat /\ PrevSum(c, c[0]) \in Nat
      /\ Packed(c) \in Nat /\ Packed(c) > c[0] /\ Packed(c) <= PageSize
      /\ Packed(c) = PageSize - PrevSum(c, c[0])
    BY SafeFacts
<1>3. c[i + 1] \in Cell /\ i + 1 \in Cells /\ 0 \in Cells
    BY <1>1, <1>2, CellNat DEF Cells
<1>4. From(c, i) = PageSize - c[i + 1] - PrevSum(c, i)
    BY DEF From
<1> QED
    BY <1>1, <1>2, <1>3, <1>4

LEMMA ShortenedSafe ==
    ASSUME NEW c \in Safe, NEW i \in Nat, i < c[0]
    PROVE  Shortened(c, i) \subseteq Safe /\ Shortened(c, i) \in SUBSET Pages
<1> SUFFICES ASSUME NEW d \in Shortened(c, i) PROVE d \in Safe
    BY DEF Shortened
<1>1. /\ c \in Pages /\ c[0] \in 0 .. PageSize /\ c[0] < PageSize /\ c[0] \in Nat
      /\ PrevSum(c, c[0]) \in Nat
    BY SafeFacts
<1>2. /\ d \in Pages /\ d[0] = c[0] /\ d[i + 1] <= c[i + 1]
      /\ \A r \in 1 .. c[0] : r # i + 1 => d[r] = c[r]
    BY DEF Shortened
<1>3. \A r \in 1 .. c[0] : d[r] <= c[r]
    <2> TAKE r \in 1 .. c[0]
    <2>1. r \in 0 .. PageSize
        BY <1>1
    <2> QED
        BY <1>1, <1>2, <2>1, CellNat
<1>4. PrevSum(d, c[0]) <= PrevSum(c, c[0]) /\ PrevSum(d, c[0]) \in Nat
    BY <1>1, <1>2, <1>3, PrevBelow, PrevNat
<1>5. c[0] + 1 + PrevSum(c, c[0]) <= PageSize
    BY DEF Safe
<1> QED
    BY <1>1, <1>2, <1>4, <1>5 DEF Safe

\* The page with the length gone; after n cells moved; after n cells zeroed.
Moved(c, i, n) ==
    [x \in Cells |->
        IF x = i + 1 THEN 0
        ELSE IF x \in From(c, i) + c[i + 1] - n + 1 .. From(c, i) + c[i + 1]
             THEN c[x - c[i + 1]] ELSE c[x]]
Zeroed(c, i, n) ==
    [x \in Cells |->
        IF x = i + 1 THEN 0
        ELSE IF x \in Packed(c) .. Packed(c) + n - 1 THEN 0
        ELSE IF x \in Packed(c) + c[i + 1] .. From(c, i) + c[i + 1]
             THEN c[x - c[i + 1]] ELSE c[x]]
Deleted(c, i) == Zeroed(c, i, c[i + 1])

\* A page with an empty row i and some other cells behind the headers.
LEMMA InShortened ==
    ASSUME NEW c \in Safe, NEW i \in Nat, i < c[0], NEW d \in Pages,
           d[i + 1] = 0, \A x \in 0 .. c[0] : x # i + 1 => d[x] = c[x]
    PROVE  d \in Shortened(c, i)
<1>1. c[0] \in Nat /\ c[i + 1] \in Nat /\ 0 \in 0 .. c[0] /\ 0 # i + 1
    BY DeleteFacts
<1>2. d[0] = c[0] /\ d[i + 1] <= c[i + 1]
    BY <1>1
<1>3. \A r \in 1 .. c[0] : r # i + 1 => d[r] = c[r]
    BY <1>1
<1> QED
    BY <1>2, <1>3 DEF Shortened

\* One cell behind the headers, from a page with an empty row i.
LEMMA ReachBehind ==
    ASSUME NEW c \in Safe, NEW i \in Nat, i < c[0], NEW b \in Pages,
           b[i + 1] = 0, \A x \in 0 .. c[0] : x # i + 1 => b[x] = c[x],
           NEW y \in Cells, y > c[0], NEW v \in Cell
    PROVE  Reaches(b, SetByIndex(y, b[y], v), Shortened(c, i), [b EXCEPT ![y] = v])
<1> DEFINE S == Shortened(c, i)
<1>1. c[0] \in Nat /\ i + 1 \in Cells
    BY DeleteFacts
<1>2. v \in Nat
    BY MaxCellNat DEF Cell
<1>3. b[y] \in Cell
    BY DEF Pages
<1>4. ASSUME NEW d \in 0 .. 4 PROVE AtDigit(b, y, v, d) \in S
    <2> DEFINE e == AtDigit(b, y, v, d)
    <2>1. Torn(b[y], v, d) \in Cell
        BY <1>2, <1>3, TornInCell
    <2>2. e \in Pages /\ \A x \in Cells : x # y => e[x] = b[x]
        BY <2>1 DEF AtDigit, Pages
    <2> HIDE DEF e
    <2>3. e[i + 1] = 0
        BY <1>1, <2>2
    <2>4. \A x \in 0 .. c[0] : x # i + 1 => e[x] = c[x]
        <3> TAKE x \in 0 .. c[0]
        <3>1. x \in Cells /\ x # y
            BY <1>1, SafeFacts DEF Cells
        <3> QED
            BY <2>2, <3>1
    <2>5. e \in Shortened(c, i)
        BY <2>2, <2>3, <2>4, InShortened
    <2> QED
        BY <2>5 DEF e
<1>5. AtDigit(b, y, v, 4) = [b EXCEPT ![y] = v]
    <2>1. Torn(b[y], v, 4) = v
        BY <1>2, <1>3, TornEnds
    <2> QED
        BY <2>1 DEF AtDigit
<1>6. S \in SUBSET Pages
    BY ShortenedSafe
<1> HIDE DEF S
<1>7. Reaches(b, SetByIndex(y, b[y], v), S, AtDigit(b, y, v, 4))
    BY <1>2, <1>4, <1>6, ReachSet
<1> QED
    BY <1>5, <1>7 DEF S

\* The length.
LEMMA ReachLength ==
    ASSUME NEW c \in Safe, NEW i \in Nat, i < c[0]
    PROVE  Reaches(c, SetByIndex(i + 1, c[i + 1], 0), Shortened(c, i), Moved(c, i, 0))
<1> DEFINE S == Shortened(c, i)
           y == i + 1
<1>1. /\ c \in Pages /\ c[0] \in Nat /\ y \in Cells /\ c[y] \in Nat /\ c[y] \in Cell
      /\ From(c, i) + c[i + 1] \in Nat /\ 0 \in Cell
    BY DeleteFacts, MaxCellNat DEF Cell
<1>2. ASSUME NEW d \in 0 .. 4 PROVE AtDigit(c, y, 0, d) \in S
    <2> DEFINE e == AtDigit(c, y, 0, d)
               t == Torn(c[y], 0, d)
    <2>1. t \in Cell /\ t <= c[y]
        BY <1>1, TornInCell, TornDown
    <2>2. e = [c EXCEPT ![y] = t]
        BY DEF AtDigit
    <2> HIDE DEF t, e
    <2>3. e \in Pages /\ e[y] = t /\ \A x \in Cells : x # y => e[x] = c[x]
        BY <1>1, <2>1, <2>2 DEF Pages
    <2>4. \A x \in 0 .. c[0] : x # y => e[x] = c[x]
        <3> TAKE x \in 0 .. c[0]
        <3>1. x \in Cells
            BY <1>1, SafeFacts DEF Cells
        <3> QED
            BY <2>3, <3>1
    <2>5. e[0] = c[0] /\ \A r \in 1 .. c[0] : r # y => e[r] = c[r]
        BY <1>1, <2>4
    <2>6. e \in Shortened(c, i)
        BY <2>1, <2>3, <2>5 DEF Shortened
    <2> QED
        BY <2>6 DEF e
<1>3. S \in SUBSET Pages
    BY ShortenedSafe
<1>4. AtDigit(c, y, 0, 4) = Moved(c, i, 0)
    <2>1. Torn(c[y], 0, 4) = 0
        BY <1>1, TornEnds
    <2>2. AtDigit(c, y, 0, 4) = [c EXCEPT ![y] = 0]
        BY <2>1 DEF AtDigit
    <2>3. ASSUME NEW x \in Cells
          PROVE  Moved(c, i, 0)[x] = IF x = y THEN 0 ELSE c[x]
        <3>1. ~(x \in From(c, i) + c[i + 1] - 0 + 1 .. From(c, i) + c[i + 1])
            BY <1>1 DEF Cells
        <3> QED
            BY <3>1 DEF Moved
    <2>4. [c EXCEPT ![y] = 0] = [x \in Cells |-> IF x = y THEN 0 ELSE c[x]]
        BY <1>1 DEF Pages
    <2>5. Moved(c, i, 0) = [x \in Cells |-> Moved(c, i, 0)[x]]
        BY DEF Moved
    <2> QED
        BY <2>2, <2>3, <2>4, <2>5
<1> HIDE DEF S, y
<1>5. Reaches(c, SetByIndex(y, c[y], 0), S, AtDigit(c, y, 0, 4))
    BY <1>1, <1>2, <1>3, ReachSet
<1> QED
    BY <1>4, <1>5 DEF S, y

LEMMA MovedFacts ==
    ASSUME NEW c \in Safe, NEW i \in Nat, i < c[0],
           NEW n \in 0 .. From(c, i) - Packed(c) + 1
    PROVE  /\ Moved(c, i, n) \in Pages
           /\ Moved(c, i, n)[i + 1] = 0
           /\ \A x \in 0 .. c[0] : x # i + 1 => Moved(c, i, n)[x] = c[x]
           /\ Moved(c, i, n) \in Shortened(c, i)
<1> DEFINE from == From(c, i)
           to == Packed(c)
           len == c[i + 1]
           m == Moved(c, i, n)
<1>1. /\ c \in Pages /\ c[0] \in Nat /\ i + 1 \in Cells /\ len \in Nat
      /\ from \in Nat /\ to \in Nat /\ to > c[0] /\ to <= from
      /\ from + len <= PageSize
    BY DeleteFacts
<1>1a. n \in Int /\ 0 <= n /\ n <= from - to + 1
    BY <1>1
<1>2. \A x \in Cells : m[x] = IF x = i + 1 THEN 0
                              ELSE IF x \in from + len - n + 1 .. from + len
                                   THEN c[x - len] ELSE c[x]
    BY DEF Moved
<1> HIDE DEF from, to
<1>3. ASSUME NEW x \in Cells
      PROVE  (IF x = i + 1 THEN 0
              ELSE IF x \in from + len - n + 1 .. from + len
                   THEN c[x - len] ELSE c[x]) \in Cell
    <2>1. CASE x = i + 1
        BY <2>1, MaxCellNat DEF Cell
    <2>2. CASE x # i + 1 /\ x \in from + len - n + 1 .. from + len
        <3>1. x - len \in 0 .. PageSize
            BY <1>1, <1>1a, <2>2
        <3> QED
            BY <1>1, <2>2, <3>1, CellNat
    <2>3. CASE x # i + 1 /\ ~(x \in from + len - n + 1 .. from + len)
        BY <1>1, <2>3 DEF Pages
    <2> QED
        BY <2>1, <2>2, <2>3
<1>4. m \in Pages
    BY <1>3 DEF Moved, Pages, from
<1>5. m[i + 1] = 0
    BY <1>1, <1>2
<1>6. ASSUME NEW x \in 0 .. c[0], x # i + 1 PROVE m[x] = c[x]
    <2>1. x \in Cells /\ ~(x \in from + len - n + 1 .. from + len)
        BY <1>1, <1>1a DEF Cells
    <2> QED
        BY <1>2, <1>6, <2>1
<1> HIDE DEF m
<1>7. m \in Shortened(c, i)
    BY <1>4, <1>5, <1>6, InShortened
<1> QED
    BY <1>4, <1>5, <1>6, <1>7 DEF m

\* One cell moved.
LEMMA ReachMoved ==
    ASSUME NEW c \in Safe, NEW i \in Nat, i < c[0],
           NEW n \in 1 .. From(c, i) - Packed(c) + 1,
           NEW s, s = From(c, i) - n + 1
    PROVE  Reaches(Moved(c, i, n - 1),
                   SetByIndex(s + c[i + 1], c[s + c[i + 1]], c[s]),
                   Shortened(c, i), Moved(c, i, n))
<1> DEFINE from == From(c, i)
           to == Packed(c)
           len == c[i + 1]
           b == Moved(c, i, n - 1)
           y == s + len
           v == c[s]
<1>1. /\ c \in Pages /\ c[0] \in Nat /\ i + 1 \in Cells /\ len \in Nat
      /\ from \in Nat /\ to \in Nat /\ to > c[0] /\ to <= from
      /\ from + len <= PageSize
    BY DeleteFacts
<1>1a. /\ n \in Int /\ 1 <= n /\ n <= from - to + 1 /\ s = from - n + 1
    BY <1>1
<1>2. n - 1 \in 0 .. from - to + 1 /\ n \in 0 .. from - to + 1
    BY <1>1
<1>3. /\ b \in Pages /\ b[i + 1] = 0
      /\ \A x \in 0 .. c[0] : x # i + 1 => b[x] = c[x]
    BY <1>2, MovedFacts
<1> HIDE DEF from, to
<1>4a. s \in Int /\ s >= to /\ s <= from
    BY <1>1, <1>1a
<1>4b. i + 1 \in Nat /\ i + 1 <= c[0]
    BY <1>1
<1> HIDE DEF len, b, v
<1>4c. len \in Int /\ from \in Int /\ n \in Int /\ s = from - n + 1
    BY <1>1, <1>1a
<1>4d. y = s + len
    OBVIOUS
<1> HIDE DEF y
<1>4. s \in Nat /\ s >= to /\ s <= from /\ y \in Nat /\ y > c[0] /\ y <= PageSize
      /\ y - len = s /\ s \in 0 .. PageSize /\ y \in Cells /\ y # i + 1
      /\ y = from + len - n + 1 /\ s \in Cells
    <2>1. y \in Int /\ y - len = s /\ y = from + len - n + 1
        BY <1>4c, <1>4d
    <2>2. s \in Nat /\ y > c[0] /\ y <= PageSize /\ y \in Nat
        BY <1>1, <1>4a, <1>4d
    <2> QED
        BY <1>1, <1>4a, <1>4b, <2>1, <2>2 DEF Cells
<1>5. v \in Cell
    BY <1>1, <1>4, CellNat DEF v
<1>6. b[y] = c[y]
    <2>1. ~(y \in from + len - (n - 1) + 1 .. from + len)
        BY <1>1, <1>1a, <1>4
    <2> QED
        BY <1>4, <2>1 DEF Moved, from, len, b
<1>7. [b EXCEPT ![y] = v] = Moved(c, i, n)
    <2>1. ASSUME NEW x \in Cells
          PROVE  [b EXCEPT ![y] = v][x] = Moved(c, i, n)[x]
        <3>1. CASE x = y
            <4>1. [b EXCEPT ![y] = v][x] = v
                BY <1>3, <1>4, <3>1 DEF Pages
            <4>2. x \in from + len - n + 1 .. from + len /\ x - len = s /\ x # i + 1
                BY <1>1, <1>1a, <1>4, <3>1
            <4>3. Moved(c, i, n)[x] = c[s]
                BY <4>2 DEF Moved, from, len
            <4> QED
                BY <4>1, <4>3 DEF v
        <3>2. CASE x # y
            <4>1. [b EXCEPT ![y] = v][x] = b[x]
                BY <1>3, <1>4, <3>2 DEF Pages
            <4>2. x \in from + len - n + 1 .. from + len
                    <=> x \in from + len - (n - 1) + 1 .. from + len
                BY <1>1, <1>1a, <1>4, <3>2 DEF Cells
            <4>3. Moved(c, i, n)[x] = b[x]
                BY <4>2 DEF Moved, from, len, b
            <4> QED
                BY <4>1, <4>3
        <3> QED
            BY <3>1, <3>2
    <2>2. [b EXCEPT ![y] = v] = [x \in Cells |-> [b EXCEPT ![y] = v][x]]
        BY <1>3 DEF Pages
    <2>3. Moved(c, i, n) = [x \in Cells |-> Moved(c, i, n)[x]]
        BY DEF Moved
    <2> QED
        BY <2>1, <2>2, <2>3
<1>8. Reaches(b, SetByIndex(y, b[y], v), Shortened(c, i), [b EXCEPT ![y] = v])
    BY <1>3, <1>4, <1>5, ReachBehind
<1> QED
    BY <1>6, <1>7, <1>8 DEF b, y, v, len

LEMMA ZeroedFacts ==
    ASSUME NEW c \in Safe, NEW i \in Nat, i < c[0], NEW n \in 0 .. c[i + 1]
    PROVE  /\ Zeroed(c, i, n) \in Pages
           /\ Zeroed(c, i, n)[i + 1] = 0
           /\ \A x \in 0 .. c[0] : x # i + 1 => Zeroed(c, i, n)[x] = c[x]
           /\ Zeroed(c, i, n) \in Shortened(c, i)
<1> DEFINE from == From(c, i)
           to == Packed(c)
           len == c[i + 1]
           m == Zeroed(c, i, n)
<1>1. /\ c \in Pages /\ c[0] \in Nat /\ i + 1 \in Cells /\ len \in Nat
      /\ from \in Nat /\ to \in Nat /\ to > c[0] /\ to <= from
      /\ from + len <= PageSize
    BY DeleteFacts
<1>2. \A x \in Cells : m[x] = IF x = i + 1 THEN 0
                              ELSE IF x \in to .. to + n - 1 THEN 0
                              ELSE IF x \in to + len .. from + len
                                   THEN c[x - len] ELSE c[x]
    BY DEF Zeroed
<1>3. ASSUME NEW x \in Cells
      PROVE  (IF x = i + 1 THEN 0
              ELSE IF x \in to .. to + n - 1 THEN 0
              ELSE IF x \in to + len .. from + len
                   THEN c[x - len] ELSE c[x]) \in Cell
    <2>1. CASE x = i + 1 \/ x \in to .. to + n - 1
        BY <2>1, MaxCellNat DEF Cell
    <2>2. CASE x # i + 1 /\ ~(x \in to .. to + n - 1) /\ x \in to + len .. from + len
        <3>1. x - len \in 0 .. PageSize
            BY <1>1, <2>2
        <3> QED
            BY <1>1, <2>2, <3>1, CellNat
    <2>3. CASE x # i + 1 /\ ~(x \in to .. to + n - 1) /\ ~(x \in to + len .. from + len)
        BY <1>1, <2>3 DEF Pages
    <2> QED
        BY <2>1, <2>2, <2>3
<1>4. m \in Pages
    BY <1>3 DEF Zeroed, Pages
<1>5. m[i + 1] = 0
    BY <1>1, <1>2
<1>6. ASSUME NEW x \in 0 .. c[0], x # i + 1 PROVE m[x] = c[x]
    <2>1. /\ x \in Cells /\ ~(x \in to .. to + n - 1)
          /\ ~(x \in to + len .. from + len)
        BY <1>1 DEF Cells
    <2> QED
        BY <1>2, <1>6, <2>1
<1> HIDE DEF m
<1>7. m \in Shortened(c, i)
    BY <1>4, <1>5, <1>6, InShortened
<1> QED
    BY <1>4, <1>5, <1>6, <1>7 DEF m

\* One cell zeroed.  Now is what deleteRow overwrites.
NowAt(c, i, s) ==
    IF s >= Packed(c) + c[i + 1] /\ s <= From(c, i) + c[i + 1]
    THEN c[s - c[i + 1]] ELSE c[s]

LEMMA ReachZeroed ==
    ASSUME NEW c \in Safe, NEW i \in Nat, i < c[0], NEW n \in 1 .. c[i + 1],
           NEW y, y = Packed(c) + n - 1
    PROVE  Reaches(Zeroed(c, i, n - 1), SetByIndex(y, NowAt(c, i, y), 0),
                   Shortened(c, i), Zeroed(c, i, n))
<1> DEFINE from == From(c, i)
           to == Packed(c)
           len == c[i + 1]
           b == Zeroed(c, i, n - 1)
<1>1. /\ c \in Pages /\ c[0] \in Nat /\ i + 1 \in Cells /\ len \in Nat
      /\ from \in Nat /\ to \in Nat /\ to > c[0] /\ to <= from
      /\ from + len <= PageSize
    BY DeleteFacts
<1>2. n - 1 \in 0 .. len /\ n \in 0 .. len
    BY <1>1
<1>3. /\ b \in Pages /\ b[i + 1] = 0
      /\ \A x \in 0 .. c[0] : x # i + 1 => b[x] = c[x]
    BY <1>2, ZeroedFacts
<1>4. y \in Cells /\ y > c[0] /\ y # i + 1 /\ y \in Nat
    BY <1>1 DEF Cells
<1>5. 0 \in Cell
    BY MaxCellNat DEF Cell
<1>6. b[y] = NowAt(c, i, y)
    <2>1. ~(y \in to .. to + (n - 1) - 1) /\ ~(y >= to + len)
        BY <1>1, <1>4
    <2>2. ~(y \in to + len .. from + len)
        BY <1>1, <2>1
    <2>3. b[y] = c[y]
        BY <1>4, <2>1, <2>2 DEF Zeroed
    <2> QED
        BY <2>1, <2>3 DEF NowAt
<1>7. [b EXCEPT ![y] = 0] = Zeroed(c, i, n)
    <2>1. ASSUME NEW x \in Cells
          PROVE  [b EXCEPT ![y] = 0][x] = Zeroed(c, i, n)[x]
        <3>1. CASE x = y
            <4>1. [b EXCEPT ![y] = 0][x] = 0
                BY <1>3, <1>4, <3>1 DEF Pages
            <4>2. x \in to .. to + n - 1
                BY <1>1, <1>4, <3>1
            <4>3. Zeroed(c, i, n)[x] = 0
                BY <4>2 DEF Zeroed
            <4> QED
                BY <4>1, <4>3
        <3>2. CASE x # y
            <4>1. [b EXCEPT ![y] = 0][x] = b[x]
                BY <1>3, <1>4, <3>2 DEF Pages
            <4>2. x \in to .. to + n - 1 <=> x \in to .. to + (n - 1) - 1
                BY <1>1, <1>4, <3>2 DEF Cells
            <4>3. Zeroed(c, i, n)[x] = b[x]
                BY <4>2 DEF Zeroed
            <4> QED
                BY <4>1, <4>3
        <3> QED
            BY <3>1, <3>2
    <2>2. [b EXCEPT ![y] = 0] = [x \in Cells |-> [b EXCEPT ![y] = 0][x]]
        BY <1>3 DEF Pages
    <2>3. Zeroed(c, i, n) = [x \in Cells |-> Zeroed(c, i, n)[x]]
        BY DEF Zeroed
    <2> QED
        BY <2>1, <2>2, <2>3
<1> HIDE DEF b
<1>8. Reaches(b, SetByIndex(y, b[y], 0), Shortened(c, i), [b EXCEPT ![y] = 0])
    BY <1>3, <1>4, <1>5, ReachBehind
<1> QED
    BY <1>6, <1>7, <1>8 DEF b

LEMMA DeleteReaches ==
    ASSUME NEW c \in Safe, NEW i \in Nat, i < c[0]
    PROVE  Reaches(c, DeleteRow(c, i), Shortened(c, i), Deleted(c, i))
<1> DEFINE from == From(c, i)
           to == Packed(c)
           len == c[i + 1]
           S == Shortened(c, i)
           k == from - to + 1
           moved == [n \in 1 .. k |->
                       LET s == from - n + 1 IN SetByIndex(s + len, c[s + len], c[s])]
           zeroed == [n \in 1 .. len |->
                       SetByIndex(to + n - 1, NowAt(c, i, to + n - 1), 0)]
           p == [n \in 0 .. k |-> Moved(c, i, n)]
           q == [n \in 0 .. len |-> Zeroed(c, i, n)]
           wl == SetByIndex(i + 1, len, 0)
<1>1. /\ c \in Pages /\ len \in Nat /\ from \in Nat /\ to \in Nat /\ to <= from
      /\ k \in Nat
    BY DeleteFacts
<1>2. DeleteRow(c, i) = wl \o FlattenSeq(moved) \o FlattenSeq(zeroed)
    BY DEF DeleteRow, Len0, From, Packed, Rows, NowAt
<1>3. Reaches(c, wl, S, Moved(c, i, 0))
    BY ReachLength
<1>4. p \in [0 .. k -> S]
    BY MovedFacts
<1>5. q \in [0 .. len -> S]
    BY ZeroedFacts
<1>6. ASSUME NEW n \in 1 .. k PROVE Reaches(p[n - 1], moved[n], S, p[n])
    <2>1. n - 1 \in 0 .. k /\ n \in 0 .. k
        BY <1>1
    <2>2. p[n - 1] = Moved(c, i, n - 1) /\ p[n] = Moved(c, i, n)
        BY <2>1
    <2> DEFINE s == from - n + 1
    <2>3. moved[n] = SetByIndex(s + len, c[s + len], c[s])
        OBVIOUS
    <2>4. s = From(c, i) - n + 1 /\ n \in 1 .. From(c, i) - Packed(c) + 1
        OBVIOUS
    <2> HIDE DEF s
    <2>5. Reaches(Moved(c, i, n - 1), SetByIndex(s + c[i + 1], c[s + c[i + 1]], c[s]),
                  Shortened(c, i), Moved(c, i, n))
        BY <2>4, ReachMoved
    <2> QED
        BY <2>2, <2>3, <2>5
<1>7. ASSUME NEW n \in 1 .. len PROVE Reaches(q[n - 1], zeroed[n], S, q[n])
    <2>1. n - 1 \in 0 .. len /\ n \in 0 .. len
        BY <1>1
    <2>2. q[n - 1] = Zeroed(c, i, n - 1) /\ q[n] = Zeroed(c, i, n)
        BY <2>1
    <2> DEFINE y == to + n - 1
    <2>3. zeroed[n] = SetByIndex(y, NowAt(c, i, y), 0)
        OBVIOUS
    <2>4. y = Packed(c) + n - 1 /\ n \in 1 .. c[i + 1]
        OBVIOUS
    <2> HIDE DEF y
    <2>5. Reaches(Zeroed(c, i, n - 1), SetByIndex(y, NowAt(c, i, y), 0),
                  Shortened(c, i), Zeroed(c, i, n))
        BY <2>4, ReachZeroed
    <2> QED
        BY <2>2, <2>3, <2>5
<1>8. moved \in [1 .. k -> Seq(Write)]
    <2>1. ASSUME NEW n \in 1 .. k PROVE moved[n] \in Seq(Write)
        <3>1. Reaches(p[n - 1], moved[n], S, p[n])
            BY <1>6
        <3> QED
            BY <3>1 DEF Reaches
    <2> QED
        BY <2>1
<1>9. zeroed \in [1 .. len -> Seq(Write)]
    <2>1. ASSUME NEW n \in 1 .. len PROVE zeroed[n] \in Seq(Write)
        <3>1. Reaches(q[n - 1], zeroed[n], S, q[n])
            BY <1>7
        <3> QED
            BY <3>1 DEF Reaches
    <2> QED
        BY <2>1
<1>10. Moved(c, i, k) = Zeroed(c, i, 0)
    <2>1. ASSUME NEW x \in Cells
          PROVE  /\ x \in from + len - k + 1 .. from + len
                      <=> x \in to + len .. from + len
                 /\ ~(x \in to .. to + 0 - 1)
        <3>1. from + len - k + 1 = to + len
            BY <1>1
        <3> QED
            BY <1>1, <3>1
    <2> HIDE DEF from, to, len, k
    <2>2. ASSUME NEW x \in Cells PROVE Moved(c, i, k)[x] = Zeroed(c, i, 0)[x]
        BY <2>1 DEF Moved, Zeroed, from, to, len
    <2>3. /\ Moved(c, i, k) = [x \in Cells |-> Moved(c, i, k)[x]]
          /\ Zeroed(c, i, 0) = [x \in Cells |-> Zeroed(c, i, 0)[x]]
        BY DEF Moved, Zeroed
    <2> QED
        BY <2>2, <2>3
<1>11. p[0] = Moved(c, i, 0) /\ p[k] = q[0] /\ q[len] = Deleted(c, i)
    BY <1>1, <1>10 DEF Deleted
<1> HIDE DEF p, q, moved, zeroed, S, wl, k, len
<1>12. Reaches(p[0], FlattenSeq(moved), S, p[k])
    BY <1>1, <1>4, <1>6, <1>8, ReachAll
<1>13. Reaches(q[0], FlattenSeq(zeroed), S, q[len])
    BY <1>1, <1>5, <1>7, <1>9, ReachAll
<1>14. Reaches(c, wl \o FlattenSeq(moved), S, p[k])
    BY <1>3, <1>11, <1>12, ReachMore
<1>15. Reaches(c, wl \o FlattenSeq(moved) \o FlattenSeq(zeroed), S, q[len])
    BY <1>11, <1>13, <1>14, ReachMore
<1> QED
    BY <1>2, <1>11, <1>15 DEF S

-----------------------------------------------------------------------------
(* What the constructor makes of a page                                    *)

LEMMA PairFacts ==
    ASSUME NEW c \in Safe, NEW i \in PairsOf(c)
    PROVE  /\ i \in Nat /\ i \in 0 .. c[0] /\ 2 * i \in Nat /\ 2 * i + 1 \in Nat
           /\ 2 * i < c[0] /\ 2 * i + 1 < c[0]
           /\ GetRow(c, 2 * i) \in Seq(Cell) /\ GetRow(c, 2 * i) # <<>>
           /\ GetRow(c, 2 * i + 1) \in Seq(Cell) /\ GetRow(c, 2 * i + 1) # <<>>
<1>1. c[0] \in Nat
    BY SafeFacts
<1>2. i \in 0 .. (c[0] \div 2) - 1
    BY DEF PairsOf, Rows
<1>3. i \in Nat /\ 2 * i + 1 < c[0]
    BY <1>1, <1>2
<1>4. /\ i \in Nat /\ i \in 0 .. c[0] /\ 2 * i \in Nat /\ 2 * i + 1 \in Nat
      /\ 2 * i < c[0] /\ 2 * i + 1 < c[0]
    BY <1>1, <1>3
<1>5. GetRow(c, 2 * i) \in Seq(Cell)
    BY <1>4, RowIsString
<1>6. GetRow(c, 2 * i + 1) \in Seq(Cell)
    BY <1>4, RowIsString
<1>7. GetRow(c, 2 * i) # <<>> /\ GetRow(c, 2 * i + 1) # <<>>
    BY DEF PairsOf
<1> QED
    BY <1>4, <1>5, <1>6, <1>7

\* Pair i is the last of key k.
IsLast(c, k, i) ==
    /\ i \in PairsOf(c)
    /\ GetRow(c, 2 * i) = k
    /\ \A j \in PairsOf(c) : GetRow(c, 2 * j) = k => j <= i

LEMMA LastExists ==
    ASSUME NEW c \in Safe, NEW p \in PairsOf(c)
    PROVE  \E i : IsLast(c, GetRow(c, 2 * p), i)
<1> DEFINE k == GetRow(c, 2 * p)
           S == {j \in PairsOf(c) : GetRow(c, 2 * j) = k}
<1>1. c[0] \in Nat
    BY SafeFacts
<1>2. S \in SUBSET (0 .. c[0]) /\ S # {}
    BY PairFacts
<1>3. \E x \in S : \A y \in S : y <= x
    <2> HIDE DEF S
    <2> QED
        BY <1>1, <1>2, Greatest
<1> QED
    BY <1>3 DEF IsLast

LEMMA LastIsOne ==
    ASSUME NEW c \in Safe, NEW k, NEW i, NEW j, IsLast(c, k, i), IsLast(c, k, j)
    PROVE  i = j
<1>1. i <= j /\ j <= i /\ i \in PairsOf(c) /\ j \in PairsOf(c)
    BY DEF IsLast
<1> QED
    BY <1>1, PairFacts

LEMMA RecoveredKeys ==
    ASSUME NEW c
    PROVE  /\ DOMAIN Recovered(c) = {GetRow(c, 2 * i) : i \in PairsOf(c)}
           /\ DOMAIN RecoveredIndex(c) = DOMAIN Recovered(c)
BY DEF Recovered, RecoveredIndex

LEMMA RecoveredAt ==
    ASSUME NEW c \in Safe, NEW k, NEW i, IsLast(c, k, i)
    PROVE  /\ k \in DOMAIN Recovered(c)
           /\ Recovered(c)[k] = GetRow(c, 2 * i + 1)
           /\ RecoveredIndex(c)[k] = i \div 2
<1>1. k \in DOMAIN Recovered(c) /\ k \in DOMAIN RecoveredIndex(c)
    <2>1. /\ DOMAIN Recovered(c) = {GetRow(c, 2 * j) : j \in PairsOf(c)}
          /\ DOMAIN RecoveredIndex(c) = DOMAIN Recovered(c)
        BY RecoveredKeys
    <2>2. i \in PairsOf(c) /\ GetRow(c, 2 * i) = k
        BY DEF IsLast
    <2>3. k \in {GetRow(c, 2 * j) : j \in PairsOf(c)}
        BY <2>2
    <2> QED
        BY <2>1, <2>3
<1> DEFINE last == CHOOSE j \in PairsOf(c) :
                     /\ GetRow(c, 2 * j) = k
                     /\ \A m \in PairsOf(c) : GetRow(c, 2 * m) = k => m <= j
<1>2. IsLast(c, k, last)
    BY DEF IsLast
<1>3. last = i
    <2> HIDE DEF last
    <2> QED
        BY <1>2, LastIsOne
<1>4. Recovered(c)[k] = GetRow(c, 2 * last + 1)
    BY <1>1 DEF Recovered
<1>5. RecoveredIndex(c)[k] = last \div 2
    BY <1>1 DEF RecoveredIndex
<1> QED
    BY <1>1, <1>3, <1>4, <1>5

LEMMA RecoveredFrom ==
    ASSUME NEW c \in Safe, NEW k \in DOMAIN Recovered(c)
    PROVE  /\ \E i : IsLast(c, k, i)
           /\ k \in Seq(Cell) /\ k # <<>>
           /\ RecoveredIndex(c)[k] \in Nat
<1>1. PICK p \in PairsOf(c) : k = GetRow(c, 2 * p)
    <2>1. k \in {GetRow(c, 2 * i) : i \in PairsOf(c)}
        BY RecoveredKeys
    <2> QED
        BY <2>1
<1>2. PICK i : IsLast(c, k, i)
    BY <1>1, LastExists
<1>3. i \in Nat
    BY <1>2, PairFacts DEF IsLast
<1>4. RecoveredIndex(c)[k] = i \div 2
    BY <1>2, RecoveredAt
<1>5. i \div 2 \in Nat
    BY <1>3
<1> QED
    BY <1>1, <1>2, <1>4, <1>5, PairFacts

-----------------------------------------------------------------------------
(* Types                                                                   *)

PageOps == {Insert(row) : row \in Strings} \cup {Delete(i) : i \in Nat}

\* Whatever digits are left to write, the pages on the way are safe.
OnSafePages == \E d : Reaches(cells, writes, Safe, d)

KVInv ==
    /\ OnSafePages
    /\ todo \in Seq(PageOps)
    /\ \A k \in DOMAIN key2index_ : key2index_[k] \in Nat
    /\ keysSize \in Nat
    /\ DOMAIN values_ \subseteq Seq(Cell) /\ DOMAIN promised \subseteq Seq(Cell)
    /\ up => DOMAIN key2index_ = DOMAIN promised
    /\ Idle => values_ = promised
    /\ ~up => todo = <<>> /\ writes = <<>>
    /\ up \in BOOLEAN
    /\ deletes \in BOOLEAN
    /\ kills \in 0 .. MaxKills[deletes]

LEMMA OpFacts ==
    ASSUME NEW op \in PageOps
    PROVE  /\ op.op = "insert" => op.row \in Strings /\ op = Insert(op.row)
           /\ op.op = "delete" => op.index \in Nat /\ op = Delete(op.index)
           /\ op.op \in {"insert", "delete"}
BY DEF PageOps, Insert, Delete

LEMMA PairOps ==
    ASSUME NEW i \in Nat
    PROVE  <<Delete(2 * i), Delete(2 * i + 1)>> \in Seq(PageOps)
<1>1. 2 * i \in Nat /\ 2 * i + 1 \in Nat
    OBVIOUS
<1>2. Delete(2 * i) \in PageOps /\ Delete(2 * i + 1) \in PageOps
    BY <1>1 DEF PageOps
<1> QED
    BY <1>2

LEMMA NotEmptied ==
    ASSUME NEW T, NEW a \in Seq(T), NEW b \in Seq(T), b # <<>>
    PROVE  a \o b # <<>>
BY ConcatProperties, EmptySeq, LenProperties

LEMMA StringIsSeq ==
    ASSUME NEW k \in Strings
    PROVE  k \in Seq(Cell)
BY StringFacts

LEMMA WithFacts ==
    ASSUME NEW m, NEW k, NEW v
    PROVE  /\ DOMAIN With(m, k, v) = DOMAIN m \cup {k}
           /\ With(m, k, v)[k] = v
           /\ \A x \in DOMAIN m : x # k => With(m, k, v)[x] = m[x]
BY DEF With

LEMMA WithoutFacts ==
    ASSUME NEW m, NEW k
    PROVE  /\ DOMAIN Without(m, k) = DOMAIN m \ {k}
           /\ \A x \in DOMAIN m : x # k => Without(m, k)[x] = m[x]
BY DEF Without, Restrict

LEMMA EmptyFacts == DOMAIN EmptyMap = {}
BY DEF EmptyMap

LEMMA KVInvTypes == KVInv => TypeOK
<1> SUFFICES ASSUME KVInv PROVE TypeOK
    OBVIOUS
<1>1. PICK d : Reaches(cells, writes, Safe, d)
    BY DEF KVInv, OnSafePages
<1>2. cells \in Safe
    BY <1>1, ReachEnds
<1>3. cells \in [Cells -> 0 .. MaxCell] /\ HeadersMeetNoRow
    BY <1>2 DEF Safe, Pages, Cell, HeadersMeetNoRow, Rows
<1>4. Idle => DOMAIN key2index_ = DOMAIN values_
    BY DEF KVInv, Idle
<1>5. DOMAIN values_ \subseteq Seq(0 .. MaxCell)
    BY DEF KVInv, Cell
<1> QED
    BY <1>3, <1>4, <1>5 DEF KVInv, TypeOK

LEMMA KVInit == Init => KVInv
<1> SUFFICES ASSUME Init PROVE KVInv
    OBVIOUS
<1>1. cells \in Safe
    <2>1. cells \in Pages /\ cells[0] = 0
        BY MaxCellNat DEF Init, Pages, Cell, Cells
    <2>2. PrevSum(cells, 0) = 0
        BY <2>1, PrevZero
    <2> QED
        BY <2>1, <2>2 DEF Safe
<1>2. OnSafePages
    BY <1>1, ReachNothing DEF Init, OnSafePages
<1>3. kills \in 0 .. MaxKills[deletes] /\ deletes \in BOOLEAN
    BY DEF Init
<1>4. todo \in Seq(PageOps)
    BY DEF Init
<1>5. key2index_ = EmptyMap /\ values_ = EmptyMap /\ promised = EmptyMap
      /\ keysSize = 0 /\ up = TRUE
    BY DEF Init
<1> QED
    BY <1>2, <1>3, <1>4, <1>5, EmptyFacts DEF KVInv, Idle

\* The state one step before.
LEMMA KVStepSet ==
    ASSUME KVInv, NEW k \in Keys, NEW v \in Values, Set(k, v)
    PROVE  KVInv'
<1>1. /\ Idle /\ up /\ values_ = promised /\ DOMAIN key2index_ = DOMAIN promised
      /\ keysSize \in Nat
    BY DEF KVInv, Set, Idle
<1>2. k \in Strings /\ v \in Strings /\ k \in Seq(Cell)
    BY StringIsSeq DEF Strings
<1>3. <<Insert(k), Insert(v)>> \in Seq(PageOps)
    BY <1>2 DEF PageOps
<1>4. k \in DOMAIN key2index_ => DeletePair(k) \in Seq(PageOps)
    BY PairOps DEF KVInv, DeletePair
<1>5. todo' \in Seq(PageOps) /\ todo' # <<>>
    <2> DEFINE a == IF k \in DOMAIN key2index_ /\ k \in DOMAIN values_
                    THEN DeletePair(k) ELSE <<>>
               b == <<Insert(k), Insert(v)>>
    <2>1. todo' = a \o b
        BY DEF Set
    <2>2. a \in Seq(PageOps)
        BY <1>4
    <2>3. b \in Seq(PageOps) /\ Len(b) = 2
        BY <1>3
    <2> HIDE DEF a, b
    <2>4. a \o b \in Seq(PageOps)
        BY <2>2, <2>3
    <2>5. b # <<>>
        BY <2>3 DEF b
    <2>6. a \o b # <<>>
        BY <2>2, <2>3, <2>5, NotEmptied
    <2> QED
        BY <2>1, <2>4, <2>6
<1>6. /\ key2index_' = With(key2index_, k, keysSize)
      /\ promised' = With(values_, k, v) /\ keysSize' = keysSize + 1
      /\ UNCHANGED <<cells, values_, writes, deletes, up, kills>>
    BY DEF Set
<1>6a. DOMAIN With(values_, k, v) = DOMAIN values_ \cup {k}
    BY DEF With
<1>6c. /\ DOMAIN With(key2index_, k, keysSize) = DOMAIN key2index_ \cup {k}
       /\ With(key2index_, k, keysSize)[k] = keysSize
       /\ \A x \in DOMAIN key2index_ :
            x # k => With(key2index_, k, keysSize)[x] = key2index_[x]
    BY DEF With
<1>6b. DOMAIN values_ \subseteq Seq(Cell)
       /\ \A x \in DOMAIN key2index_ : key2index_[x] \in Nat
    BY DEF KVInv
<1>7. DOMAIN key2index_' = DOMAIN promised' /\ DOMAIN promised' \subseteq Seq(Cell)
    BY <1>1, <1>2, <1>6, <1>6a, <1>6b, <1>6c
<1>8. \A x \in DOMAIN key2index_' : key2index_'[x] \in Nat
    BY <1>1, <1>6, <1>6a, <1>6b, <1>6c
<1>9. OnSafePages'
    BY <1>6 DEF KVInv, OnSafePages
<1>10. ~Idle'
    BY <1>5 DEF Idle
<1> QED
    BY <1>1, <1>5, <1>6, <1>7, <1>8, <1>9, <1>10 DEF KVInv

LEMMA KVStepErase ==
    ASSUME KVInv, NEW k \in Keys, Erase(k)
    PROVE  KVInv'
<1>1. /\ Idle /\ up /\ values_ = promised /\ DOMAIN key2index_ = DOMAIN promised
      /\ k \in DOMAIN key2index_
    BY DEF KVInv, Erase, Idle
<1>2. todo' \in Seq(PageOps) /\ todo' # <<>>
    <2>1. todo' = DeletePair(k)
        BY DEF Erase
    <2>2. key2index_[k] \in Nat
        BY <1>1 DEF KVInv
    <2> QED
        BY <2>1, <2>2, PairOps DEF DeletePair
<1>3. /\ key2index_' = Without(key2index_, k) /\ promised' = Without(values_, k)
      /\ UNCHANGED <<cells, values_, keysSize, writes, deletes, up, kills>>
    BY DEF Erase
<1>3a. /\ DOMAIN Without(key2index_, k) = DOMAIN key2index_ \ {k}
       /\ \A x \in DOMAIN key2index_ :
            x # k => Without(key2index_, k)[x] = key2index_[x]
       /\ DOMAIN Without(values_, k) = DOMAIN values_ \ {k}
    BY WithoutFacts
<1>3b. DOMAIN values_ \subseteq Seq(Cell)
       /\ \A x \in DOMAIN key2index_ : key2index_[x] \in Nat
    BY DEF KVInv
<1>4. DOMAIN key2index_' = DOMAIN promised' /\ DOMAIN promised' \subseteq Seq(Cell)
    BY <1>1, <1>3, <1>3a, <1>3b
<1>5. \A x \in DOMAIN key2index_' : key2index_'[x] \in Nat
    BY <1>1, <1>3, <1>3a, <1>3b
<1>6. OnSafePages'
    BY <1>3 DEF KVInv, OnSafePages
<1>7. ~Idle'
    BY <1>2 DEF Idle
<1> QED
    BY <1>1, <1>2, <1>3, <1>4, <1>5, <1>6, <1>7 DEF KVInv

LEMMA KVStepPageOp ==
    ASSUME KVInv, PageOp
    PROVE  KVInv'
<1> DEFINE next == Head(todo)
<1>1. /\ todo \in Seq(PageOps) /\ todo # <<>> /\ writes = <<>> /\ up
      /\ todo' = Tail(todo)
    BY DEF KVInv, PageOp
<1>2. next \in PageOps /\ todo' \in Seq(PageOps)
    BY <1>1, HeadTailProperties
<1>3. cells \in Safe
    BY ReachEnds DEF KVInv, OnSafePages
<1>4. OnSafePages'
    <2>1. CASE next.op = "insert" /\ HasSpace(cells, next.row)
               /\ writes' = InsertRow(cells, next.row)
        <3> DEFINE row == next.row
        <3>1. row \in Strings
            BY <1>2, <2>1, OpFacts
        <3>2. HasSpace(cells, row)
            BY <2>1
        <3> HIDE DEF row
        <3>3. Alike(cells) \cup Counting(cells, row) \subseteq Safe
            BY <1>3, <3>1, <3>2, CountingPages
        <3>4. Reaches(cells, InsertRow(cells, row), Alike(cells) \cup Counting(cells, row),
                      Inserted(cells, row))
            BY <1>3, <3>1, <3>2, InsertReaches
        <3>5. Reaches(cells, InsertRow(cells, row), Safe, Inserted(cells, row))
            BY <3>3, <3>4, ReachWithin
        <3>6. Reaches(cells', writes', Safe, Inserted(cells, row))
            BY <2>1, <3>5 DEF PageOp, row
        <3> QED
            BY <3>6 DEF OnSafePages
    <2>2. CASE next.op = "delete" /\ next.index < Rows(cells)
               /\ writes' = DeleteRow(cells, next.index)
        <3> DEFINE i == next.index
        <3>1. i \in Nat
            BY <1>2, <2>2, OpFacts
        <3>2. i < cells[0]
            BY <2>2 DEF Rows
        <3> HIDE DEF i
        <3>3. Shortened(cells, i) \subseteq Safe
            BY <1>3, <3>1, <3>2, ShortenedSafe
        <3>4. Reaches(cells, DeleteRow(cells, i), Shortened(cells, i), Deleted(cells, i))
            BY <1>3, <3>1, <3>2, DeleteReaches
        <3>5. Reaches(cells, DeleteRow(cells, i), Safe, Deleted(cells, i))
            BY <3>3, <3>4, ReachWithin
        <3>6. Reaches(cells', writes', Safe, Deleted(cells, i))
            BY <2>2, <3>5 DEF PageOp, i
        <3> QED
            BY <3>6 DEF OnSafePages
    <2> QED
        BY <2>1, <2>2 DEF PageOp
<1>5. /\ values_' = IF todo' = <<>> /\ writes' = <<>> THEN promised ELSE values_
      /\ UNCHANGED <<cells, key2index_, keysSize, promised, deletes, up, kills>>
    BY DEF PageOp, EndsOp
<1>6. Idle' => values_' = promised'
    BY <1>5 DEF Idle
<1>7. DOMAIN values_' \subseteq Seq(Cell)
    BY <1>5 DEF KVInv
<1> QED
    BY <1>1, <1>2, <1>4, <1>5, <1>6, <1>7 DEF KVInv

LEMMA KVStepWriteDigit ==
    ASSUME KVInv, WriteDigit
    PROVE  KVInv'
<1> DEFINE x == Head(writes)
<1>1. /\ up /\ writes # <<>> /\ writes' = Tail(writes)
      /\ cells' = Put(cells, x) /\ todo' = todo
    BY DEF WriteDigit, Put
<1>2. PICK d : Reaches(cells, writes, Safe, d)
    BY DEF KVInv, OnSafePages
<1>3. Reaches(Put(cells, x), Tail(writes), Safe, d)
    BY <1>1, <1>2, ReachNext
<1>4. OnSafePages'
    BY <1>1, <1>3 DEF OnSafePages
<1>5. /\ values_' = IF todo' = <<>> /\ writes' = <<>> THEN promised ELSE values_
      /\ UNCHANGED <<key2index_, keysSize, promised, deletes, up, kills>>
    BY DEF WriteDigit, EndsOp
<1>6. Idle' => values_' = promised'
    BY <1>5 DEF Idle
<1>7. DOMAIN values_' \subseteq Seq(Cell)
    BY <1>5 DEF KVInv
<1> QED
    BY <1>1, <1>4, <1>5, <1>6, <1>7 DEF KVInv

LEMMA KVStepDead ==
    ASSUME KVInv, Dead, kills < MaxKills[deletes], kills' = kills + 1
    PROVE  KVInv'
<1>1. cells \in Safe
    BY ReachEnds DEF KVInv, OnSafePages
<1>2. Reaches(cells, <<>>, Safe, cells)
    BY <1>1, ReachNothing
<1>3. /\ up' = FALSE /\ values_' = EmptyMap /\ key2index_' = EmptyMap
      /\ keysSize' = 0 /\ todo' = <<>> /\ writes' = <<>>
      /\ UNCHANGED <<cells, promised, kept, deletes>>
    BY DEF Dead
<1>4. OnSafePages'
    BY <1>2, <1>3 DEF OnSafePages
<1>5. kills' \in 0 .. MaxKills[deletes]'
    <2>1. deletes \in BOOLEAN /\ MaxKills[deletes] \in Nat
        BY DEF KVInv
    <2> QED
        BY <1>3, <2>1 DEF KVInv
<1>6. todo' \in Seq(PageOps)
    BY <1>3
<1> QED
    BY <1>3, <1>4, <1>5, <1>6, EmptyFacts DEF KVInv, Idle

LEMMA KVStepRestart ==
    ASSUME KVInv, Restart
    PROVE  KVInv'
<1>1. cells \in Safe
    BY ReachEnds DEF KVInv, OnSafePages
<1>2. /\ up' = TRUE /\ values_' = Recovered(cells) /\ promised' = values_'
      /\ key2index_' = RecoveredIndex(cells) /\ keysSize' = 0
      /\ UNCHANGED <<cells, todo, writes, kept, deletes, kills>>
    BY DEF Restart
<1>3. \A k \in DOMAIN Recovered(cells) :
        k \in Seq(Cell) /\ RecoveredIndex(cells)[k] \in Nat
    BY <1>1, RecoveredFrom
<1>4. DOMAIN RecoveredIndex(cells) = DOMAIN Recovered(cells)
    BY RecoveredKeys
<1>5. OnSafePages'
    BY <1>2 DEF KVInv, OnSafePages
<1> QED
    BY <1>2, <1>3, <1>4, <1>5 DEF KVInv, Idle

LEMMA KVStep == KVInv /\ [Next]_vars => KVInv'
<1> SUFFICES ASSUME KVInv, [Next]_vars PROVE KVInv'
    OBVIOUS
<1>1. CASE \E k \in Keys : \E v \in Values : Set(k, v)
    BY <1>1, KVStepSet
<1>2. CASE \E k \in Keys : Erase(k)
    BY <1>2, KVStepErase
<1>3. CASE PageOp
    BY <1>3, KVStepPageOp
<1>4. CASE WriteDigit
    BY <1>4, KVStepWriteDigit
<1>5. CASE AbortFull
    BY <1>5, KVStepDead DEF AbortFull
<1>6. CASE Kill
    BY <1>6, KVStepDead DEF Kill
<1>7. CASE Restart
    BY <1>7, KVStepRestart
<1>8. CASE UNCHANGED vars
    BY <1>8 DEF vars, memory, KVInv, OnSafePages, Idle
<1> QED
    BY <1>1, <1>2, <1>3, <1>4, <1>5, <1>6, <1>7, <1>8 DEF Next

LEMMA AlwaysKVInv == Spec => []KVInv
    BY KVInit, KVStep, PTL DEF Spec

\* The page, the two maps and the queues have their types, and headers and
\* rows never meet: whatever is set, overwritten and erased, and wherever the
\* master is killed.
THEOREM TypeCorrect == Spec => []TypeOK
    BY AlwaysKVInv, KVInvTypes, PTL

-----------------------------------------------------------------------------
(* One more row                                                            *)

\* d shows the rows of c and one more.
OneMore(c, d, row) ==
    /\ d[0] = c[0] + 1
    /\ \A i \in 0 .. c[0] - 1 : GetRow(d, i) = GetRow(c, i)
    /\ GetRow(d, c[0]) = row

LEMMA InsertedRow ==
    ASSUME NEW c \in Safe, NEW row \in Strings, HasSpace(c, row), c[0] < MaxCell
    PROVE  /\ Inserted(c, row) \in Safe
           /\ OneMore(c, Inserted(c, row), row)
<1> DEFINE m == Measured(c, row)
           d == Inserted(c, row)
           len == Len(row)
           first == RowStart(c, row)
           f == Filled(c, row, len)
<1>1. /\ first \in Nat /\ first >= c[0] + 2 /\ first + len = Packed(c)
      /\ Packed(c) <= PageSize /\ c[0] \in Nat /\ c \in Pages /\ len \in Nat
    BY RoomFacts
<1>1a. /\ c[0] \in Cell /\ c[0] < PageSize /\ c[0] \in 0 .. PageSize
       /\ PrevSum(c, c[0]) \in Nat /\ Packed(c) = PageSize - PrevSum(c, c[0])
    BY SafeFacts
<1>2. /\ m \in Pages /\ m[0] = c[0] /\ (\A r \in 1 .. c[0] : m[r] = c[r])
      /\ m[c[0] + 1] = len
      /\ \A x \in Packed(c) .. PageSize : m[x] = c[x]
      /\ \A x \in Cells : x # c[0] + 1 => m[x] = f[x]
    BY MeasuredFacts DEF Alike
<1>3. c[0] + 1 \in Cell /\ c[0] + 1 \in Nat
    BY <1>1, MaxCellNat DEF Cell
<1>4. Torn(c[0], c[0] + 1, 4) = c[0] + 1
    BY <1>1a, <1>3, TornEnds
<1>5. d = [m EXCEPT ![0] = c[0] + 1]
    BY <1>2, <1>4 DEF Inserted, AtDigit
<1>6. d \in Safe
    <2>1. 4 \in 0 .. 4
        OBVIOUS
    <2> QED
        BY <2>1, CountingSafe DEF Inserted
<1>7. \A j \in 1 .. len : f[first + j - 1] = row[j]
    <2> TAKE j \in 1 .. len
    <2>1. first + j - 1 \in Cells /\ first + j - 1 \in first .. first + len - 1
          /\ (first + j - 1) - first + 1 = j
        BY <1>1 DEF Cells
    <2> QED
        BY <2>1 DEF Filled
<1> HIDE DEF m, d, f, first, len
<1>8. 0 \in Cells /\ d[0] = c[0] + 1 /\ \A x \in Cells : x # 0 => d[x] = m[x]
    BY <1>2, <1>5 DEF Pages, Cells
<1>9. d \in Pages
    BY <1>6 DEF Safe
<1>10. ASSUME NEW i \in 0 .. c[0] - 1 PROVE GetRow(d, i) = GetRow(c, i)
    <2>1. i \in Nat /\ i < c[0]
        BY <1>1
    <2>2. \A r \in 1 .. i + 1 : d[r] = c[r]
        <3> TAKE r \in 1 .. i + 1
        <3>1. r \in 1 .. c[0] /\ r \in Cells /\ r # 0
            BY <1>1, <1>1a, <2>1 DEF Cells
        <3> QED
            BY <1>2, <1>8, <3>1
    <2>3. /\ PrevSum(c, i) \in Nat /\ PrevSum(c, i + 1) \in Nat
          /\ PrevSum(c, i + 1) <= PrevSum(c, c[0])
        BY <2>1, RowPlace
    <2>4. \A x \in PageSize - PrevSum(c, i + 1) .. PageSize - PrevSum(c, i) - 1 :
            d[x] = c[x]
        <3> TAKE x \in PageSize - PrevSum(c, i + 1) .. PageSize - PrevSum(c, i) - 1
        <3>1. x \in Packed(c) .. PageSize /\ x \in Cells /\ x # 0
            BY <1>1, <1>1a, <2>3 DEF Cells
        <3> QED
            BY <1>2, <1>8, <3>1
    <2>5. RowKept(c, d, i)
        BY <2>2, <2>4 DEF RowKept
    <2> QED
        BY <1>9, <2>1, <2>5, RowSame
<1>11. GetRow(d, c[0]) = row
    <2>1. d[c[0] + 1] = len
        <3>1. c[0] + 1 \in Cells /\ c[0] + 1 # 0
            BY <1>1, <1>1a DEF Cells
        <3> QED
            BY <1>2, <1>8, <3>1
    <2>2. PrevSum(d, c[0]) = PrevSum(c, c[0])
        <3>1. \A r \in 1 .. c[0] : d[r] = c[r]
            <4> TAKE r \in 1 .. c[0]
            <4>1. r \in Cells /\ r # 0
                BY <1>1, <1>1a DEF Cells
            <4> QED
                BY <1>2, <1>8, <4>1
        <3> QED
            BY <1>1, <1>1a, <1>9, <3>1, PrevSame
    <2>3. PrevSum(d, c[0] + 1) = PrevSum(c, c[0]) + len
        BY <1>1, <1>1a, <1>9, <2>1, <2>2, PrevNext
    <2>4. PageSize - PrevSum(d, c[0] + 1) = first
        BY <1>1, <1>1a, <2>3
    <2>5. ASSUME NEW j \in 1 .. len PROVE d[first + j - 1] = row[j]
        <3>1. first + j - 1 \in Cells /\ first + j - 1 # 0 /\ first + j - 1 # c[0] + 1
            BY <1>1 DEF Cells
        <3> QED
            BY <1>2, <1>7, <1>8, <3>1
    <2>6. GetRow(d, c[0]) = [j \in 1 .. len |-> d[first + j - 1]]
        BY <2>1, <2>4 DEF GetRow, Len0
    <2>7. GetRow(d, c[0]) = [j \in 1 .. len |-> row[j]]
        BY <2>5, <2>6
    <2>8. row = [j \in 1 .. Len(row) |-> row[j]]
        BY StringFacts
    <2> QED
        BY <2>7, <2>8 DEF len
<1> QED
    BY <1>6, <1>8, <1>10, <1>11 DEF d, OneMore

\* Two pages with the same complete pairs are the same map.
SamePairs(c, d) ==
    /\ d[0] \div 2 = c[0] \div 2
    /\ \A i \in 0 .. 2 * (c[0] \div 2) - 1 : GetRow(d, i) = GetRow(c, i)

LEMMA SamePairsFacts ==
    ASSUME NEW c \in Safe, NEW d \in Safe, SamePairs(c, d)
    PROVE  /\ PairsOf(d) = PairsOf(c)
           /\ \A i \in PairsOf(c) : /\ GetRow(d, 2 * i) = GetRow(c, 2 * i)
                                    /\ GetRow(d, 2 * i + 1) = GetRow(c, 2 * i + 1)
<1> DEFINE h == c[0] \div 2
<1>1. c[0] \in Nat /\ d[0] \in Nat
    BY SafeFacts
<1>2. h \in Nat /\ d[0] \div 2 = h
    BY <1>1 DEF SamePairs
<1>3. ASSUME NEW i \in 0 .. h - 1
      PROVE  /\ GetRow(d, 2 * i) = GetRow(c, 2 * i)
             /\ GetRow(d, 2 * i + 1) = GetRow(c, 2 * i + 1)
    <2>1. 2 * i \in 0 .. 2 * h - 1 /\ 2 * i + 1 \in 0 .. 2 * h - 1
        BY <1>2
    <2> QED
        BY <2>1 DEF SamePairs
<1> HIDE DEF h
<1>4. /\ PairsOf(c) = {i \in 0 .. h - 1 : GetRow(c, 2 * i) # <<>>
                                       /\ GetRow(c, 2 * i + 1) # <<>>}
      /\ PairsOf(d) = {i \in 0 .. h - 1 : GetRow(d, 2 * i) # <<>>
                                       /\ GetRow(d, 2 * i + 1) # <<>>}
    BY <1>2 DEF PairsOf, Rows, h
<1>5. PairsOf(d) = PairsOf(c)
    BY <1>3, <1>4
<1> QED
    BY <1>3, <1>4, <1>5

LEMMA RecoveredIsMap ==
    ASSUME NEW c
    PROVE  Recovered(c) = [k \in DOMAIN Recovered(c) |-> Recovered(c)[k]]
BY DEF Recovered

LEMMA EqualPairsRecovered ==
    ASSUME NEW c \in Safe, NEW d \in Safe, PairsOf(d) = PairsOf(c),
           \A i \in PairsOf(c) : /\ GetRow(d, 2 * i) = GetRow(c, 2 * i)
                                 /\ GetRow(d, 2 * i + 1) = GetRow(c, 2 * i + 1)
    PROVE  Recovered(d) = Recovered(c)
<1>1. /\ PairsOf(d) = PairsOf(c)
      /\ \A i \in PairsOf(c) : /\ GetRow(d, 2 * i) = GetRow(c, 2 * i)
                               /\ GetRow(d, 2 * i + 1) = GetRow(c, 2 * i + 1)
    OBVIOUS
<1>2. DOMAIN Recovered(d) = DOMAIN Recovered(c)
    <2>1. DOMAIN Recovered(c) = {GetRow(c, 2 * i) : i \in PairsOf(c)}
        BY RecoveredKeys
    <2>2. DOMAIN Recovered(d) = {GetRow(d, 2 * i) : i \in PairsOf(d)}
        BY RecoveredKeys
    <2> QED
        BY <1>1, <2>1, <2>2
<1>3. ASSUME NEW k \in DOMAIN Recovered(c) PROVE Recovered(d)[k] = Recovered(c)[k]
    <2>1. PICK i : IsLast(c, k, i)
        BY RecoveredFrom
    <2>2. IsLast(d, k, i) /\ i \in PairsOf(c)
        BY <1>1, <2>1 DEF IsLast
    <2>3. Recovered(c)[k] = GetRow(c, 2 * i + 1)
        BY <2>1, RecoveredAt
    <2>4. Recovered(d)[k] = GetRow(d, 2 * i + 1)
        BY <2>2, RecoveredAt
    <2> QED
        BY <1>1, <2>2, <2>3, <2>4
<1>4. /\ Recovered(c) = [k \in DOMAIN Recovered(c) |-> Recovered(c)[k]]
      /\ Recovered(d) = [k \in DOMAIN Recovered(d) |-> Recovered(d)[k]]
    BY RecoveredIsMap
<1> QED
    BY <1>2, <1>3, <1>4

LEMMA SamePairsRecovered ==
    ASSUME NEW c \in Safe, NEW d \in Safe, SamePairs(c, d)
    PROVE  Recovered(d) = Recovered(c)
BY SamePairsFacts, EqualPairsRecovered

LEMMA AlikePairs ==
    ASSUME NEW c \in Safe, NEW d \in Alike(c)
    PROVE  d \in Safe /\ SamePairs(c, d) /\ Recovered(d) = Recovered(c)
           /\ d[0] = c[0] /\ \A i \in 0 .. c[0] - 1 : GetRow(d, i) = GetRow(c, i)
<1>1. c[0] \in Nat
    BY SafeFacts
<1>2. d \in Safe /\ d[0] = c[0]
    BY AlikeSafe DEF Alike
<1>3. ASSUME NEW i \in 0 .. c[0] - 1 PROVE GetRow(d, i) = GetRow(c, i)
    <2>1. i \in Nat /\ i < c[0]
        BY <1>1
    <2> QED
        BY <2>1, AlikeRows
<1>4. ASSUME NEW i \in 0 .. 2 * (c[0] \div 2) - 1 PROVE GetRow(d, i) = GetRow(c, i)
    <2>1. i \in 0 .. c[0] - 1
        BY <1>1
    <2> QED
        BY <1>3, <2>1
<1>5. SamePairs(c, d)
    BY <1>2, <1>4 DEF SamePairs
<1> QED
    BY <1>2, <1>3, <1>5, SamePairsRecovered

Even(n) == n % 2 = 0

\* A row after complete pairs belongs to none.
LEMMA KeyRowPairs ==
    ASSUME NEW c \in Safe, NEW d \in Safe, NEW row, OneMore(c, d, row), Even(c[0])
    PROVE  /\ PairsOf(d) = PairsOf(c) /\ ~Even(d[0])
           /\ \A i \in PairsOf(c) : /\ GetRow(d, 2 * i) = GetRow(c, 2 * i)
                                    /\ GetRow(d, 2 * i + 1) = GetRow(c, 2 * i + 1)
<1>1. c[0] \in Nat
    BY SafeFacts
<1>2. d[0] \div 2 = c[0] \div 2 /\ 2 * (c[0] \div 2) = c[0] /\ ~Even(d[0])
    <2>1. d[0] = c[0] + 1 /\ c[0] % 2 = 0
        BY DEF OneMore, Even
    <2>2. 2 * (c[0] \div 2) = c[0]
        BY <1>1, <2>1
    <2>3. (c[0] + 1) \div 2 = c[0] \div 2 /\ (c[0] + 1) % 2 = 1
        BY <1>1, <2>1
    <2> QED
        BY <2>1, <2>2, <2>3 DEF Even
<1>3. SamePairs(c, d)
    BY <1>2 DEF OneMore, SamePairs
<1> QED
    BY <1>2, <1>3, SamePairsFacts

LEMMA KeyRowAlone ==
    ASSUME NEW c \in Safe, NEW d \in Safe, NEW row, OneMore(c, d, row), Even(c[0])
    PROVE  Recovered(d) = Recovered(c) /\ ~Even(d[0])
BY KeyRowPairs, EqualPairsRecovered

\* A row after a lone row makes a pair of the two.
LEMMA ValueRowPairs ==
    ASSUME NEW c \in Safe, NEW d \in Safe, NEW row, OneMore(c, d, row), row # <<>>,
           ~Even(c[0]), NEW k, k = GetRow(c, c[0] - 1), k # <<>>
    PROVE  \E p \in Nat :
             /\ p = c[0] \div 2 /\ Even(d[0])
             /\ PairsOf(d) = PairsOf(c) \cup {p}
             /\ GetRow(d, 2 * p) = k /\ GetRow(d, 2 * p + 1) = row
             /\ \A i \in PairsOf(c) :
                  /\ i \in Nat /\ i < p
                  /\ GetRow(d, 2 * i) = GetRow(c, 2 * i)
                  /\ GetRow(d, 2 * i + 1) = GetRow(c, 2 * i + 1)
<1> DEFINE p == c[0] \div 2
<1>1. c[0] \in Nat
    BY SafeFacts
<1>2. /\ p \in Nat /\ c[0] = 2 * p + 1 /\ d[0] = 2 * p + 2 /\ d[0] \div 2 = p + 1
      /\ c[0] - 1 = 2 * p /\ Even(d[0])
    BY <1>1 DEF OneMore, Even
<1> HIDE DEF p
<1>3. \A i \in 0 .. 2 * p : GetRow(d, i) = GetRow(c, i)
    <2> TAKE i \in 0 .. 2 * p
    <2>1. i \in 0 .. c[0] - 1
        BY <1>2
    <2> QED
        BY <2>1 DEF OneMore
<1>4. GetRow(d, 2 * p) = k /\ GetRow(d, 2 * p + 1) = row
    <2>1. 2 * p \in 0 .. 2 * p
        BY <1>2
    <2> QED
        BY <1>2, <1>3, <2>1 DEF OneMore
<1>5. ASSUME NEW i \in 0 .. p - 1
      PROVE  /\ GetRow(d, 2 * i) = GetRow(c, 2 * i)
             /\ GetRow(d, 2 * i + 1) = GetRow(c, 2 * i + 1)
    <2>1. 2 * i \in 0 .. 2 * p /\ 2 * i + 1 \in 0 .. 2 * p
        BY <1>2
    <2> QED
        BY <1>3, <2>1
<1>6. /\ PairsOf(c) = {i \in 0 .. p - 1 : GetRow(c, 2 * i) # <<>>
                                       /\ GetRow(c, 2 * i + 1) # <<>>}
      /\ PairsOf(d) = {i \in 0 .. p : GetRow(d, 2 * i) # <<>>
                                       /\ GetRow(d, 2 * i + 1) # <<>>}
    <2>1. (p + 1) - 1 = p
        BY <1>2
    <2> QED
        BY <1>2, <2>1 DEF PairsOf, Rows, p
<1>7. PairsOf(d) = PairsOf(c) \cup {p}
    <2>1. p \in PairsOf(d)
        BY <1>2, <1>4, <1>6
    <2>2. 0 .. p = (0 .. p - 1) \cup {p}
        BY <1>2
    <2>3. \A i \in 0 .. p - 1 : i \in PairsOf(d) <=> i \in PairsOf(c)
        BY <1>5, <1>6, <2>2
    <2>4. PairsOf(c) \subseteq 0 .. p - 1 /\ PairsOf(d) \subseteq 0 .. p
        BY <1>6
    <2> QED
        BY <2>1, <2>2, <2>3, <2>4
<1>8. \A i \in PairsOf(c) :
        /\ i \in 0 .. p - 1 /\ i \in Nat /\ i < p
        /\ GetRow(d, 2 * i) = GetRow(c, 2 * i)
        /\ GetRow(d, 2 * i + 1) = GetRow(c, 2 * i + 1)
    BY <1>2, <1>5, <1>6
<1>9. p = c[0] \div 2
    BY DEF p
<1> QED
    BY <1>2, <1>4, <1>7, <1>8, <1>9

\* The pair is the last of its key.
LEMMA ValueRowAdds ==
    ASSUME NEW c \in Safe, NEW d \in Safe, NEW row, OneMore(c, d, row), row # <<>>,
           ~Even(c[0]), NEW k, k = GetRow(c, c[0] - 1), k # <<>>
    PROVE  Recovered(d) = With(Recovered(c), k, row) /\ Even(d[0])
<1>1. PICK p \in Nat :
      /\ Even(d[0])
      /\ PairsOf(d) = PairsOf(c) \cup {p}
      /\ GetRow(d, 2 * p) = k /\ GetRow(d, 2 * p + 1) = row
      /\ \A i \in PairsOf(c) :
           /\ i \in Nat /\ i < p
           /\ GetRow(d, 2 * i) = GetRow(c, 2 * i)
           /\ GetRow(d, 2 * i + 1) = GetRow(c, 2 * i + 1)
    BY ValueRowPairs
<1>2. p \in Nat /\ Even(d[0])
    BY <1>1
<1>4. GetRow(d, 2 * p) = k /\ GetRow(d, 2 * p + 1) = row
    BY <1>1
<1>7. PairsOf(d) = PairsOf(c) \cup {p}
    BY <1>1
<1>8. \A i \in PairsOf(c) :
        /\ i \in Nat /\ i < p
        /\ GetRow(d, 2 * i) = GetRow(c, 2 * i)
        /\ GetRow(d, 2 * i + 1) = GetRow(c, 2 * i + 1)
    BY <1>1
<1> DEFINE w == With(Recovered(c), k, row)
<1>9. DOMAIN w = DOMAIN Recovered(c) \cup {k}
    BY DEF With
<1>10. DOMAIN Recovered(d) = DOMAIN w
    <2>1. DOMAIN Recovered(c) = {GetRow(c, 2 * i) : i \in PairsOf(c)}
        BY RecoveredKeys
    <2>2. DOMAIN Recovered(d) = {GetRow(d, 2 * i) : i \in PairsOf(d)}
        BY RecoveredKeys
    <2>3. {GetRow(d, 2 * i) : i \in PairsOf(d)}
            = {GetRow(c, 2 * i) : i \in PairsOf(c)} \cup {k}
        BY <1>4, <1>7, <1>8
    <2> QED
        BY <1>9, <2>1, <2>2, <2>3
<1>11. ASSUME NEW x \in DOMAIN w PROVE Recovered(d)[x] = w[x]
    <2>1. CASE x = k
        <3>1. \A j \in PairsOf(d) : j <= p
            BY <1>2, <1>7, <1>8
        <3>2. IsLast(d, k, p)
            BY <1>4, <1>7, <3>1 DEF IsLast
        <3>3. Recovered(d)[k] = GetRow(d, 2 * p + 1)
            BY <3>2, RecoveredAt
        <3>4. w[k] = row
            BY DEF With
        <3> QED
            BY <1>4, <2>1, <3>3, <3>4
    <2>2. CASE x # k
        <3>1. x \in DOMAIN Recovered(c) /\ w[x] = Recovered(c)[x]
            BY <1>9, <2>2 DEF With
        <3>2. PICK i : IsLast(c, x, i)
            BY <3>1, RecoveredFrom
        <3>3. i \in PairsOf(c) /\ GetRow(c, 2 * i) = x
            BY <3>2 DEF IsLast
        <3>4. IsLast(d, x, i)
            <4>1. i \in PairsOf(d) /\ GetRow(d, 2 * i) = x
                BY <1>7, <1>8, <3>3
            <4>2. ASSUME NEW j \in PairsOf(d), GetRow(d, 2 * j) = x PROVE j <= i
                <5>1. j # p
                    BY <1>4, <2>2, <4>2
                <5>2. j \in PairsOf(c)
                    BY <1>7, <5>1
                <5> QED
                    BY <1>8, <3>2, <4>2, <5>2 DEF IsLast
            <4> QED
                BY <4>1, <4>2 DEF IsLast
        <3>5. Recovered(d)[x] = GetRow(d, 2 * i + 1)
            BY <3>4, RecoveredAt
        <3>6. Recovered(c)[x] = GetRow(c, 2 * i + 1)
            BY <3>2, RecoveredAt
        <3> QED
            BY <1>8, <3>1, <3>3, <3>5, <3>6
    <2> QED
        BY <2>1, <2>2
<1>12. w = [x \in DOMAIN w |-> w[x]]
    BY DEF With
<1>13. Recovered(d) = [x \in DOMAIN Recovered(d) |-> Recovered(d)[x]]
    BY RecoveredIsMap
<1> HIDE DEF w
<1>14. Recovered(d) = w
    BY <1>10, <1>11, <1>12, <1>13
<1> QED
    BY <1>2, <1>14 DEF w

\* A row after a lone empty row makes a pair that does not count.
LEMMA EmptyKeyAlone ==
    ASSUME NEW c \in Safe, NEW d \in Safe, NEW row, OneMore(c, d, row),
           ~Even(c[0]), GetRow(c, c[0] - 1) = <<>>
    PROVE  Recovered(d) = Recovered(c) /\ Even(d[0])
<1> DEFINE p == c[0] \div 2
<1>1. c[0] \in Nat
    BY SafeFacts
<1>2. /\ p \in Nat /\ c[0] = 2 * p + 1 /\ d[0] = 2 * p + 2 /\ d[0] \div 2 = p + 1
      /\ c[0] - 1 = 2 * p /\ Even(d[0])
    BY <1>1 DEF OneMore, Even
<1> HIDE DEF p
<1>3. \A i \in 0 .. 2 * p : GetRow(d, i) = GetRow(c, i)
    <2> TAKE i \in 0 .. 2 * p
    <2>1. i \in 0 .. c[0] - 1
        BY <1>2
    <2> QED
        BY <2>1 DEF OneMore
<1>4. GetRow(d, 2 * p) = <<>>
    <2>1. 2 * p \in 0 .. 2 * p
        BY <1>2
    <2> QED
        BY <1>2, <1>3, <2>1
<1>5. ASSUME NEW i \in 0 .. p - 1
      PROVE  /\ GetRow(d, 2 * i) = GetRow(c, 2 * i)
             /\ GetRow(d, 2 * i + 1) = GetRow(c, 2 * i + 1)
    <2>1. 2 * i \in 0 .. 2 * p /\ 2 * i + 1 \in 0 .. 2 * p
        BY <1>2
    <2> QED
        BY <1>3, <2>1
<1>6. /\ PairsOf(c) = {i \in 0 .. p - 1 : GetRow(c, 2 * i) # <<>>
                                       /\ GetRow(c, 2 * i + 1) # <<>>}
      /\ PairsOf(d) = {i \in 0 .. p : GetRow(d, 2 * i) # <<>>
                                       /\ GetRow(d, 2 * i + 1) # <<>>}
    <2>1. (p + 1) - 1 = p
        BY <1>2
    <2> QED
        BY <1>2, <2>1 DEF PairsOf, Rows, p
<1>7. PairsOf(d) = PairsOf(c)
    <2>2. 0 .. p = (0 .. p - 1) \cup {p}
        BY <1>2
    <2> QED
        BY <1>4, <1>5, <1>6, <2>2
<1>8. \A i \in PairsOf(c) : /\ GetRow(d, 2 * i) = GetRow(c, 2 * i)
                            /\ GetRow(d, 2 * i + 1) = GetRow(c, 2 * i + 1)
    BY <1>5, <1>6
<1> QED
    BY <1>2, <1>7, <1>8, EqualPairsRecovered

-----------------------------------------------------------------------------
(* While the row count has one digit                                       *)

\* One more row and the count needs a second digit, which is written after the
\* first.
CountIsOneDigit == Rows(cells) < Base - 1

LEMMA OneDigitAtOnce ==
    ASSUME NEW c \in Safe, NEW row \in Strings, HasSpace(c, row), c[0] < Base - 1
    PROVE  /\ Counting(c, row) \subseteq Alike(c) \cup {Inserted(c, row)}
           /\ c[0] < MaxCell
           /\ Reaches(c, InsertRow(c, row), Alike(c) \cup {Inserted(c, row)},
                      Inserted(c, row))
<1> DEFINE m == Measured(c, row)
<1>1. c[0] \in Nat /\ c[0] < MaxCell /\ c[0] + 1 < Base /\ c[0] \in Cell
    BY SafeFacts, MaxCellNat
<1>2. m \in Alike(c) /\ m \in Pages /\ m[0] = c[0]
    BY MeasuredFacts DEF Alike
<1> HIDE DEF m
<1>3. ASSUME NEW d \in 0 .. 4
      PROVE  AtDigit(m, 0, c[0] + 1, d) \in Alike(c) \cup {Inserted(c, row)}
    <2>1. Torn(c[0], c[0] + 1, d) \in {c[0], c[0] + 1}
        BY <1>1, TornDigit
    <2>2. CASE Torn(c[0], c[0] + 1, d) = c[0]
        <3>1. AtDigit(m, 0, c[0] + 1, d) = m
            BY <1>2, <2>2 DEF AtDigit, Pages
        <3> QED
            BY <1>2, <3>1
    <2>3. CASE Torn(c[0], c[0] + 1, d) = c[0] + 1
        <3>1. c[0] + 1 \in Cell /\ c[0] + 1 \in Nat
            BY <1>1, MaxCellNat DEF Cell
        <3>2. Torn(c[0], c[0] + 1, 4) = c[0] + 1
            BY <1>1, <3>1, TornEnds
        <3>3. AtDigit(m, 0, c[0] + 1, d) = Inserted(c, row)
            BY <1>2, <2>3, <3>2 DEF AtDigit, Inserted, m
        <3> QED
            BY <3>3
    <2> QED
        BY <2>1, <2>2, <2>3
<1>4. Counting(c, row) \subseteq Alike(c) \cup {Inserted(c, row)}
    BY <1>3 DEF Counting, m
<1>5. Reaches(c, InsertRow(c, row), Alike(c) \cup Counting(c, row), Inserted(c, row))
    BY InsertReaches
<1>6. Alike(c) \cup Counting(c, row) \subseteq Alike(c) \cup {Inserted(c, row)}
    BY <1>4
<1>7. Reaches(c, InsertRow(c, row), Alike(c) \cup {Inserted(c, row)}, Inserted(c, row))
    BY <1>5, <1>6, ReachWithin
<1> QED
    BY <1>1, <1>4, <1>7

\* A key row is under way: the map stays.
LEMMA KeyRowReaches ==
    ASSUME NEW c \in Safe, NEW row \in Strings, HasSpace(c, row), c[0] < Base - 1,
           Even(c[0])
    PROVE  /\ Reaches(c, InsertRow(c, row),
                      {e \in Safe : Recovered(e) = Recovered(c)}, Inserted(c, row))
           /\ Inserted(c, row) \in Safe /\ ~Even(Inserted(c, row)[0])
           /\ Inserted(c, row)[0] = c[0] + 1
           /\ GetRow(Inserted(c, row), c[0]) = row
<1> DEFINE d == Inserted(c, row)
           S == {e \in Safe : Recovered(e) = Recovered(c)}
<1>1. c[0] < MaxCell
    BY OneDigitAtOnce
<1>2. d \in Safe /\ OneMore(c, d, row)
    BY <1>1, InsertedRow
<1> HIDE DEF d
<1>3. Recovered(d) = Recovered(c) /\ ~Even(d[0])
    BY <1>2, KeyRowAlone
<1>4. Alike(c) \cup {d} \subseteq S
    BY <1>2, <1>3, AlikePairs
<1>5. Reaches(c, InsertRow(c, row), Alike(c) \cup {d}, d)
    BY OneDigitAtOnce DEF d
<1> HIDE DEF S
<1>6. Reaches(c, InsertRow(c, row), S, d)
    BY <1>4, <1>5, ReachWithin
<1> QED
    BY <1>2, <1>3, <1>6 DEF S, d, OneMore

\* A value row is under way: the map stays until the pair is there.
LEMMA ValueRowReaches ==
    ASSUME NEW c \in Safe, NEW row \in Strings, HasSpace(c, row), c[0] < Base - 1,
           ~Even(c[0]), NEW k, k = GetRow(c, c[0] - 1), k # <<>>
    PROVE  /\ Reaches(c, InsertRow(c, row),
                      {e \in Safe : \/ /\ Recovered(e) = Recovered(c)
                                       /\ e[0] = c[0]
                                       /\ GetRow(e, e[0] - 1) = k
                                    \/ /\ Recovered(e) = With(Recovered(c), k, row)
                                       /\ Even(e[0])},
                      Inserted(c, row))
           /\ Inserted(c, row) \in Safe /\ Even(Inserted(c, row)[0])
           /\ Recovered(Inserted(c, row)) = With(Recovered(c), k, row)
<1> DEFINE d == Inserted(c, row)
           S == {e \in Safe : \/ /\ Recovered(e) = Recovered(c)
                                 /\ e[0] = c[0]
                                 /\ GetRow(e, e[0] - 1) = k
                              \/ /\ Recovered(e) = With(Recovered(c), k, row)
                                 /\ Even(e[0])}
<1>1. c[0] < MaxCell /\ c[0] \in Nat
    BY OneDigitAtOnce, SafeFacts
<1>2. d \in Safe /\ OneMore(c, d, row)
    BY <1>1, InsertedRow
<1>2a. row # <<>>
    BY StringFacts
<1> HIDE DEF d
<1>3. Recovered(d) = With(Recovered(c), k, row) /\ Even(d[0])
    BY <1>2, <1>2a, ValueRowAdds
<1>4. c[0] - 1 \in 0 .. c[0] - 1
    <2>1. c[0] # 0
        BY DEF Even
    <2> QED
        BY <1>1, <2>1
<1>5. ASSUME NEW e \in Alike(c) PROVE e \in S
    <2>1. /\ e \in Safe /\ Recovered(e) = Recovered(c) /\ e[0] = c[0]
          /\ \A i \in 0 .. c[0] - 1 : GetRow(e, i) = GetRow(c, i)
        BY AlikePairs
    <2> QED
        BY <1>4, <2>1
<1>6. d \in S
    BY <1>2, <1>3
<1> HIDE DEF S
<1>7. Alike(c) \cup {d} \subseteq S
    BY <1>5, <1>6
<1>8. Reaches(c, InsertRow(c, row), Alike(c) \cup {d}, d)
    BY OneDigitAtOnce DEF d
<1>9. Reaches(c, InsertRow(c, row), S, d)
    BY <1>7, <1>8, ReachWithin
<1> QED
    BY <1>2, <1>3, <1>9 DEF S, d

-----------------------------------------------------------------------------
(* The first life of an owner who only adds pairs                          *)

Showing(m, n) == {c \in Safe : Recovered(c) \in {m, n}}

\* What is still to be inserted, and what the page d at the end of the writes
\* shows: all is there; the value is missing; the key and the value are.
AllInserted(d) == todo = <<>> /\ Recovered(d) = promised /\ Even(d[0])
ValueToInsert(d, v) ==
    /\ todo = <<Insert(v)>>
    /\ Recovered(d) = values_ /\ ~Even(d[0]) /\ GetRow(d, d[0] - 1) # <<>>
    /\ promised = With(values_, GetRow(d, d[0] - 1), v)
PairToInsert(d, k, v) ==
    /\ todo = <<Insert(k), Insert(v)>> /\ writes = <<>>
    /\ Recovered(d) = values_ /\ Even(d[0])
    /\ promised = With(values_, k, v)

Adding(d) ==
    \/ AllInserted(d)
    \/ \E v \in Values : ValueToInsert(d, v)
    \/ \E k \in Keys, v \in Values : PairToInsert(d, k, v)

FirstLife == ~deletes /\ kills = 0

AddInv ==
    FirstLife =>
        /\ up
        /\ \E d : Reaches(cells, writes, Showing(values_, promised), d) /\ Adding(d)

LEMMA AddInvRecoverable == AddInv => RecoverableAtAnyPoint
<1> SUFFICES ASSUME AddInv, up, kills = 0, ~deletes
             PROVE  Recovered(cells) \in {values_, promised}
    BY DEF RecoverableAtAnyPoint
<1>1. PICK d : Reaches(cells, writes, Showing(values_, promised), d)
    BY DEF AddInv, FirstLife
<1>2. cells \in Showing(values_, promised)
    BY <1>1, ReachEnds
<1> QED
    BY <1>2 DEF Showing

LEMMA EmptyPage ==
    ASSUME NEW c \in Safe, c[0] = 0
    PROVE  Recovered(c) = EmptyMap /\ Even(c[0])
<1>1. 0 \div 2 = 0 /\ 0 % 2 = 0
    OBVIOUS
<1>2. PairsOf(c) = {}
    BY <1>1 DEF PairsOf, Rows
<1>3. DOMAIN Recovered(c) = {}
    BY <1>2, RecoveredKeys
<1>4. Recovered(c) = [k \in DOMAIN Recovered(c) |-> Recovered(c)[k]]
    BY RecoveredIsMap
<1>5. Recovered(c) = EmptyMap
    BY <1>3, <1>4 DEF EmptyMap
<1> QED
    BY <1>1, <1>5 DEF Even

LEMMA AddInit == Init => AddInv
<1> SUFFICES ASSUME Init PROVE AddInv
    OBVIOUS
<1>1. cells \in Safe
    BY KVInit, ReachEnds DEF KVInv, OnSafePages
<1>2. cells[0] = 0 /\ todo = <<>> /\ writes = <<>> /\ up
      /\ values_ = EmptyMap /\ promised = EmptyMap
    BY DEF Init, Cells
<1>3. Recovered(cells) = EmptyMap /\ Even(cells[0])
    BY <1>1, <1>2, EmptyPage
<1>4. cells \in Showing(values_, promised)
    BY <1>1, <1>2, <1>3 DEF Showing
<1>5. Reaches(cells, writes, Showing(values_, promised), cells)
    BY <1>2, <1>4, ReachNothing
<1>6. Adding(cells)
    BY <1>2, <1>3 DEF Adding, AllInserted
<1> QED
    BY <1>2, <1>5, <1>6 DEF AddInv

LEMMA AddStepSet ==
    ASSUME KVInv, AddInv, NEW k \in Keys, NEW v \in Values, Set(k, v)
    PROVE  AddInv'
<1> SUFFICES ASSUME FirstLife' PROVE /\ up'
                 /\ \E d : /\ Reaches(cells', writes', Showing(values_', promised'), d)
                           /\ Adding(d)'
    BY DEF AddInv
<1>1. /\ UNCHANGED <<cells, values_, writes, deletes, up, kills>>
      /\ Idle /\ up /\ todo = <<>> /\ writes = <<>> /\ values_ = promised
      /\ promised' = With(values_, k, v)
    BY DEF Set, Idle, KVInv
<1>2. FirstLife
    BY <1>1 DEF FirstLife
<1>3. todo' = <<Insert(k), Insert(v)>>
    <2>1. k \notin DOMAIN key2index_
        BY <1>2 DEF Set, FirstLife
    <2>2. todo' = <<>> \o <<Insert(k), Insert(v)>>
        BY <2>1 DEF Set
    <2> QED
        BY <2>2
<1>4. PICK d : Reaches(cells, writes, Showing(values_, promised), d) /\ Adding(d)
    BY <1>2 DEF AddInv
<1>5. d = cells /\ cells \in Showing(values_, promised)
    BY <1>1, <1>4, ReachedNothing
<1>6. AllInserted(cells)
    <2>1. ASSUME NEW x PROVE todo # <<x>>
        BY <1>1
    <2>2. ASSUME NEW x, NEW y PROVE todo # <<x, y>>
        BY <1>1
    <2> QED
        BY <1>4, <1>5, <2>1, <2>2 DEF Adding, ValueToInsert, PairToInsert
<1>7. Recovered(cells) = values_ /\ Even(cells[0]) /\ cells \in Safe
    BY <1>1, <1>5, <1>6 DEF AllInserted, Showing
<1>8. Reaches(cells, <<>>, Showing(values_, promised'), cells)
    <2>1. cells \in Showing(values_, promised')
        BY <1>7 DEF Showing
    <2> QED
        BY <2>1, ReachNothing
<1>9. PairToInsert(cells, k, v)'
    BY <1>1, <1>3, <1>7 DEF PairToInsert
<1>10. Adding(cells)'
    BY <1>9 DEF Adding
<1>11. Reaches(cells', writes', Showing(values_', promised'), cells')
    BY <1>1, <1>8
<1> QED
    BY <1>1, <1>10, <1>11

\* The page after the last write shows what was promised.
LEMMA AddEnds ==
    ASSUME NEW c, NEW w, NEW m, NEW n, NEW new, NEW d, Reaches(c, w, Showing(m, n), d),
           w = <<>> => Recovered(d) = n \/ new = m,
           new = (IF w = <<>> THEN n ELSE m) \/ new = m
    PROVE  Reaches(c, w, Showing(new, n), d)
<1>1. CASE new = m
    BY <1>1
<1>2. CASE new # m
    <2>1. w = <<>> /\ new = n
        BY <1>2
    <2>2. c = d /\ c \in Showing(m, n)
        BY <2>1, ReachedNothing
    <2>3. c \in Showing(n, n)
        BY <1>2, <2>1, <2>2 DEF Showing
    <2> QED
        BY <2>1, <2>2, <2>3, ReachNothing
<1> QED
    BY <1>1, <1>2

LEMMA AddStepPageOp ==
    ASSUME KVInv, AddInv, CountIsOneDigit, PageOp
    PROVE  AddInv'
<1> SUFFICES ASSUME FirstLife' PROVE /\ up'
                 /\ \E d : /\ Reaches(cells', writes', Showing(values_', promised'), d)
                           /\ Adding(d)'
    BY DEF AddInv
<1>1. /\ UNCHANGED <<cells, promised, deletes, up, kills>>
      /\ up /\ todo # <<>> /\ writes = <<>> /\ todo' = Tail(todo)
      /\ values_' = IF todo' = <<>> /\ writes' = <<>> THEN promised ELSE values_
    BY DEF PageOp, EndsOp
<1>2. FirstLife
    BY <1>1 DEF FirstLife
<1>4. PICK d : Reaches(cells, writes, Showing(values_, promised), d) /\ Adding(d)
    BY <1>2 DEF AddInv
<1>5. d = cells /\ cells \in Showing(values_, promised) /\ cells \in Safe
    <2>1. d = cells /\ cells \in Showing(values_, promised)
        BY <1>1, <1>4, ReachedNothing
    <2> QED
        BY <2>1 DEF Showing
<1>6. cells[0] < Base - 1
    BY DEF CountIsOneDigit, Rows
<1>7. CASE \E v \in Values : ValueToInsert(cells, v)
    <2>1. PICK v \in Values : ValueToInsert(cells, v)
        BY <1>7
    <2> DEFINE k == GetRow(cells, cells[0] - 1)
    <2>2. /\ todo = <<Insert(v)>> /\ Recovered(cells) = values_ /\ ~Even(cells[0])
          /\ k # <<>> /\ promised = With(values_, k, v)
        BY <2>1 DEF ValueToInsert
    <2>3. Head(todo) = Insert(v) /\ todo' = <<>>
        BY <1>1, <2>2
    <2>4. HasSpace(cells, v) /\ writes' = InsertRow(cells, v)
        BY <2>3 DEF PageOp, Insert
    <2>5. v \in Strings
        BY DEF Strings
    <2> HIDE DEF k
    <2> DEFINE T == {x \in Safe : \/ /\ Recovered(x) = Recovered(cells)
                                     /\ x[0] = cells[0]
                                     /\ GetRow(x, x[0] - 1) = k
                                  \/ /\ Recovered(x) = With(Recovered(cells), k, v)
                                     /\ Even(x[0])}
    <2>6. PICK e :
          /\ Reaches(cells, InsertRow(cells, v), T, e)
          /\ e \in Safe /\ Even(e[0]) /\ Recovered(e) = With(Recovered(cells), k, v)
        BY <1>5, <1>6, <2>2, <2>4, <2>5, ValueRowReaches DEF k
    <2>7. T \subseteq Showing(values_, promised)
        BY <2>2 DEF Showing
    <2> HIDE DEF T
    <2>8. Reaches(cells, InsertRow(cells, v), Showing(values_, promised), e)
        BY <2>6, <2>7, ReachWithin
    <2>9. Recovered(e) = promised
        BY <2>2, <2>6
    <2>10. Reaches(cells, writes', Showing(values_', promised), e)
        BY <1>1, <2>4, <2>8, <2>9, AddEnds
    <2>11. AllInserted(e)'
        BY <1>1, <2>3, <2>6, <2>9 DEF AllInserted
    <2> QED
        BY <1>1, <2>10, <2>11 DEF Adding
<1>8. CASE \E k \in Keys, v \in Values : PairToInsert(cells, k, v)
    <2>1. PICK k \in Keys, v \in Values : PairToInsert(cells, k, v)
        BY <1>8
    <2> DEFINE T == {x \in Safe : Recovered(x) = Recovered(cells)}
    <2>2. /\ todo = <<Insert(k), Insert(v)>> /\ Recovered(cells) = values_
          /\ Even(cells[0]) /\ promised = With(values_, k, v)
        BY <2>1 DEF PairToInsert
    <2>3. Head(todo) = Insert(k) /\ todo' = <<Insert(v)>> /\ todo' # <<>>
        BY <1>1, <2>2
    <2>4. HasSpace(cells, k) /\ writes' = InsertRow(cells, k)
        BY <2>3 DEF PageOp, Insert
    <2>5. k \in Strings /\ k # <<>>
        BY StringFacts DEF Strings
    <2>6. PICK e :
          /\ Reaches(cells, InsertRow(cells, k), T, e)
          /\ e \in Safe /\ ~Even(e[0]) /\ e[0] = cells[0] + 1
          /\ GetRow(e, cells[0]) = k
        BY <1>5, <1>6, <2>2, <2>4, <2>5, KeyRowReaches
    <2>7. T \subseteq Showing(values_, promised) /\ e \in T
        <3>1. T \subseteq Showing(values_, promised)
            BY <2>2 DEF Showing
        <3> HIDE DEF T
        <3>2. e \in T
            BY <2>6, ReachEnds
        <3> QED
            BY <3>1, <3>2
    <2>8. Recovered(e) = values_
        BY <2>2, <2>7
    <2> HIDE DEF T
    <2>9. Reaches(cells, InsertRow(cells, k), Showing(values_, promised), e)
        BY <2>6, <2>7, ReachWithin
    <2>10. values_' = values_ /\ promised' = promised
        BY <1>1, <2>3
    <2>11. GetRow(e, e[0] - 1) = k
        <3>1. cells[0] \in Nat
            BY <1>5, SafeFacts
        <3>2. e[0] - 1 = cells[0]
            BY <2>6, <3>1
        <3> QED
            BY <2>6, <3>2
    <2>12. ValueToInsert(e, v)'
        BY <2>2, <2>3, <2>5, <2>6, <2>8, <2>10, <2>11 DEF ValueToInsert
    <2> QED
        BY <1>1, <2>4, <2>9, <2>10, <2>12 DEF Adding
<1> QED
    BY <1>1, <1>4, <1>5, <1>7, <1>8 DEF Adding, AllInserted

LEMMA AddStepWriteDigit ==
    ASSUME KVInv, AddInv, WriteDigit
    PROVE  AddInv'
<1> SUFFICES ASSUME FirstLife' PROVE /\ up'
                 /\ \E d : /\ Reaches(cells', writes', Showing(values_', promised'), d)
                           /\ Adding(d)'
    BY DEF AddInv
<1>1. /\ UNCHANGED <<todo, promised, deletes, up, kills>>
      /\ up /\ writes # <<>> /\ writes' = Tail(writes) /\ cells' = Put(cells, Head(writes))
      /\ values_' = IF todo' = <<>> /\ writes' = <<>> THEN promised ELSE values_
    BY DEF WriteDigit, EndsOp, Put
<1>2. FirstLife
    BY <1>1 DEF FirstLife
<1>4. PICK d : Reaches(cells, writes, Showing(values_, promised), d) /\ Adding(d)
    BY <1>2 DEF AddInv
<1>5. Reaches(cells', writes', Showing(values_, promised), d)
    BY <1>1, <1>4, ReachNext
<1>6. CASE AllInserted(d)
    <2>1. Reaches(cells', writes', Showing(values_', promised), d)
        BY <1>1, <1>5, <1>6, AddEnds DEF AllInserted
    <2>2. AllInserted(d)'
        BY <1>1, <1>6 DEF AllInserted
    <2> QED
        BY <1>1, <2>1, <2>2 DEF Adding
<1>7. CASE \E v \in Values : ValueToInsert(d, v)
    <2>1. PICK v \in Values : ValueToInsert(d, v)
        BY <1>7
    <2>2. todo' # <<>>
        BY <1>1, <2>1 DEF ValueToInsert
    <2>3. values_' = values_
        BY <1>1, <2>2
    <2>4. ValueToInsert(d, v)'
        BY <1>1, <2>1, <2>3 DEF ValueToInsert
    <2> QED
        BY <1>1, <1>5, <2>3, <2>4 DEF Adding
<1> QED
    BY <1>1, <1>4, <1>6, <1>7 DEF Adding, PairToInsert

LEMMA AddStep == KVInv /\ AddInv /\ CountIsOneDigit /\ [Next]_vars => AddInv'
<1> SUFFICES ASSUME KVInv, AddInv, CountIsOneDigit, [Next]_vars PROVE AddInv'
    OBVIOUS
<1>1. CASE \E k \in Keys : \E v \in Values : Set(k, v)
    BY <1>1, AddStepSet
<1>2. CASE \E k \in Keys : Erase(k)
    BY <1>2 DEF Erase, AddInv, FirstLife
<1>3. CASE PageOp
    BY <1>3, AddStepPageOp
<1>4. CASE WriteDigit
    BY <1>4, AddStepWriteDigit
<1>5. CASE AbortFull \/ Kill
    <2>1. kills \in Nat /\ kills' = kills + 1
        BY <1>5 DEF AbortFull, Kill, KVInv
    <2> QED
        BY <2>1 DEF AddInv, FirstLife
<1>6. CASE Restart
    BY <1>6 DEF Restart, AddInv, FirstLife
<1>7. CASE UNCHANGED vars
    BY <1>7 DEF vars, memory, AddInv, FirstLife, Adding, AllInserted,
                ValueToInsert, PairToInsert
<1> QED
    BY <1>1, <1>2, <1>3, <1>4, <1>5, <1>6, <1>7 DEF Next

\* A master that only adds pairs and is killed for the first time, between any
\* two digits of any write, comes back with the map of before or of after the
\* operation under way, as long as the page has fewer than Base - 1 rows.  With
\* more, a kill while the count is written may lose every pair.
THEOREM RecoverableWhileOneDigit ==
    Spec /\ []CountIsOneDigit => []RecoverableAtAnyPoint
    BY AddInit, AddStep, AlwaysKVInv, AddInvRecoverable, PTL DEF Spec

-----------------------------------------------------------------------------
(* Later lives of an owner who only adds pairs                             *)

\* The map m is found, and a lone key row, which the next row completes, is no
\* key of m.
Keeping(m) ==
    {c \in Safe :
        /\ \A k \in DOMAIN m : k \in DOMAIN Recovered(c) /\ Recovered(c)[k] = m[k]
        /\ ~Even(c[0]) => GetRow(c, c[0] - 1) \notin DOMAIN m}

NewRows(m) == {Insert(row) : row \in Strings \ DOMAIN m}

KeptInv ==
    ~deletes =>
        /\ DOMAIN kept \subseteq Keys
        /\ kills = 0 => DOMAIN promised \subseteq Keys
        /\ up => DOMAIN kept \subseteq DOMAIN values_ \cap DOMAIN promised
        /\ todo \in Seq(NewRows(kept))
        /\ \E d : Reaches(cells, writes, Keeping(kept), d)

LEMMA KeptInvSurvive == KeptInv => PairsBeforeTheKillSurvive
<1> SUFFICES ASSUME KeptInv, ~deletes, NEW k \in DOMAIN kept
             PROVE  k \in DOMAIN Recovered(cells) /\ Recovered(cells)[k] = kept[k]
    BY DEF PairsBeforeTheKillSurvive
<1>1. cells \in Keeping(kept)
    BY ReachEnds DEF KeptInv
<1> QED
    BY <1>1 DEF Keeping

\* One more row, new to the map, wherever the kills left the pairs.
LEMMA NewRowKeeps ==
    ASSUME NEW m, NEW c \in Keeping(m), NEW row \in Strings, row \notin DOMAIN m,
           HasSpace(c, row), c[0] < Base - 1
    PROVE  Reaches(c, InsertRow(c, row), Keeping(m), Inserted(c, row))
<1> DEFINE d == Inserted(c, row)
           l == GetRow(c, c[0] - 1)
<1>1. c \in Safe /\ c[0] \in Nat
    BY SafeFacts DEF Keeping
<1>2. c[0] < MaxCell /\ Reaches(c, InsertRow(c, row), Alike(c) \cup {d}, d)
    BY <1>1, OneDigitAtOnce
<1>3. d \in Safe /\ OneMore(c, d, row)
    BY <1>1, <1>2, InsertedRow
<1>3a. row # <<>>
    BY StringFacts
<1> HIDE DEF d
<1>4. ASSUME NEW e \in Alike(c) PROVE e \in Keeping(m)
    <2>1. /\ e \in Safe /\ Recovered(e) = Recovered(c) /\ e[0] = c[0]
          /\ \A i \in 0 .. c[0] - 1 : GetRow(e, i) = GetRow(c, i)
        BY <1>1, AlikePairs
    <2>2. ASSUME ~Even(e[0]) PROVE GetRow(e, e[0] - 1) = GetRow(c, c[0] - 1)
        <3>1. c[0] # 0
            BY <2>1, <2>2 DEF Even
        <3>2. c[0] - 1 \in 0 .. c[0] - 1
            BY <1>1, <3>1
        <3> QED
            BY <2>1, <3>2
    <2> QED
        BY <2>1, <2>2 DEF Keeping
<1>5. d \in Keeping(m)
    <2>1. CASE Even(c[0])
        <3>1. Recovered(d) = Recovered(c)
            BY <1>1, <1>3, <2>1, KeyRowAlone
        <3>2. d[0] - 1 = c[0] /\ GetRow(d, c[0]) = row
            BY <1>1, <1>3 DEF OneMore
        <3> QED
            BY <1>3, <3>1, <3>2 DEF Keeping
    <2>2. CASE ~Even(c[0]) /\ l # <<>>
        <3>1. Recovered(d) = With(Recovered(c), l, row) /\ Even(d[0])
            BY <1>1, <1>3, <1>3a, <2>2, ValueRowAdds
        <3>2. l \notin DOMAIN m
            BY <2>2 DEF Keeping
        <3>3. ASSUME NEW k \in DOMAIN m
              PROVE  k \in DOMAIN Recovered(d) /\ Recovered(d)[k] = m[k]
            <4>1. k \in DOMAIN Recovered(c) /\ Recovered(c)[k] = m[k] /\ k # l
                BY <3>2 DEF Keeping
            <4> HIDE DEF l
            <4> QED
                BY <3>1, <4>1 DEF With
        <3> QED
            BY <1>3, <3>1, <3>3 DEF Keeping
    <2>3. CASE ~Even(c[0]) /\ l = <<>>
        <3>1. Recovered(d) = Recovered(c) /\ Even(d[0])
            BY <1>1, <1>3, <2>3, EmptyKeyAlone
        <3> QED
            BY <1>3, <3>1 DEF Keeping
    <2> QED
        BY <2>1, <2>2, <2>3
<1>6. Alike(c) \cup {d} \subseteq Keeping(m)
    BY <1>4, <1>5
<1>7. Reaches(c, InsertRow(c, row), Keeping(m), d)
    BY <1>2, <1>6, ReachWithin
<1> QED
    BY <1>7 DEF d

LEMMA KeptInit == Init => KeptInv
<1> SUFFICES ASSUME Init PROVE KeptInv
    OBVIOUS
<1>1. cells \in Safe
    BY KVInit, ReachEnds DEF KVInv, OnSafePages
<1>2. /\ cells[0] = 0 /\ todo = <<>> /\ writes = <<>> /\ up
      /\ kept = EmptyMap /\ promised = EmptyMap
    BY DEF Init, Cells
<1>3. DOMAIN EmptyMap = {} /\ Even(cells[0])
    BY <1>1, <1>2, EmptyFacts, EmptyPage
<1>4. cells \in Keeping(kept)
    BY <1>1, <1>2, <1>3 DEF Keeping
<1>5. Reaches(cells, writes, Keeping(kept), cells)
    BY <1>2, <1>4, ReachNothing
<1>6. todo \in Seq(NewRows(kept))
    BY <1>2
<1> QED
    BY <1>2, <1>3, <1>5, <1>6 DEF KeptInv

LEMMA KeptStepSet ==
    ASSUME Keys \cap Values = {},
           KVInv, KeptInv, NEW k \in Keys, NEW v \in Values, Set(k, v), ~deletes
    PROVE  KeptInv'
<1>1. /\ UNCHANGED <<cells, values_, writes, kept, deletes, up, kills>>
      /\ Idle /\ up /\ todo = <<>> /\ writes = <<>> /\ values_ = promised
      /\ DOMAIN key2index_ = DOMAIN promised
      /\ promised' = With(values_, k, v)
    BY DEF Set, Idle, KVInv
<1>2. k \notin DOMAIN key2index_
    BY DEF Set
<1>3. /\ DOMAIN kept \subseteq Keys
      /\ kills = 0 => DOMAIN promised \subseteq Keys
      /\ DOMAIN kept \subseteq DOMAIN values_ \cap DOMAIN promised
      /\ \E d : Reaches(cells, writes, Keeping(kept), d)
    BY <1>1 DEF KeptInv
<1>4. k \notin DOMAIN kept /\ v \notin DOMAIN kept /\ k \in Strings /\ v \in Strings
    BY <1>1, <1>2, <1>3 DEF Strings
<1>5. todo' \in Seq(NewRows(kept))
    <2>1. todo' = <<>> \o <<Insert(k), Insert(v)>>
        BY <1>2 DEF Set
    <2>2. Insert(k) \in NewRows(kept) /\ Insert(v) \in NewRows(kept)
        BY <1>4 DEF NewRows
    <2>3. <<Insert(k), Insert(v)>> \in Seq(NewRows(kept))
        BY <2>2
    <2>4. <<>> \o <<Insert(k), Insert(v)>> = <<Insert(k), Insert(v)>>
        OBVIOUS
    <2> QED
        BY <2>1, <2>3, <2>4
<1>6. DOMAIN promised' = DOMAIN values_ \cup {k}
    BY <1>1 DEF With
<1> QED
    BY <1>1, <1>3, <1>5, <1>6 DEF KeptInv

\* What the end of an operation does to the map that is kept.
LEMMA KeptEnds ==
    ASSUME KVInv, KeptInv, AddInv', ~deletes, up,
           UNCHANGED <<promised, deletes, up, kills>>, EndsOp,
           todo' \in Seq(NewRows(kept)),
           NEW d, Reaches(cells', writes', Keeping(kept), d)
    PROVE  KeptInv'
<1>1. /\ DOMAIN kept \subseteq Keys
      /\ kills = 0 => DOMAIN promised \subseteq Keys
      /\ DOMAIN kept \subseteq DOMAIN values_ \cap DOMAIN promised
    BY DEF KeptInv
<1>2. CASE ~(todo' = <<>> /\ writes' = <<>> /\ kills = 0)
    <2>1. kept' = kept /\ values_' \in {values_, promised}
        BY <1>2 DEF EndsOp
    <2>2. Reaches(cells', writes', Keeping(kept'), d)
        BY <2>1
    <2>3. todo' \in Seq(NewRows(kept'))
        BY <2>1
    <2> QED
        BY <1>1, <2>1, <2>2, <2>3 DEF KeptInv
<1>3. CASE todo' = <<>> /\ writes' = <<>> /\ kills = 0
    <2>1. kept' = promised /\ values_' = promised
        BY <1>3 DEF EndsOp
    <2>2. FirstLife'
        BY <1>3 DEF FirstLife
    <2>3. PICK e : Reaches(cells', writes', Showing(values_', promised'), e) /\ Adding(e)'
        BY <2>2 DEF AddInv
    <2>4. e = cells' /\ cells' \in Showing(values_', promised')
        BY <1>3, <2>3, ReachedNothing
    <2>5. AllInserted(e)'
        <3>1. ASSUME NEW x PROVE todo' # <<x>>
            BY <1>3
        <3>2. ASSUME NEW x, NEW y PROVE todo' # <<x, y>>
            BY <1>3
        <3> QED
            BY <2>3, <3>1, <3>2 DEF Adding, ValueToInsert, PairToInsert
    <2>6. Recovered(cells') = promised /\ Even(cells'[0]) /\ cells' \in Safe
        BY <2>4, <2>5 DEF AllInserted, Showing
    <2>7. cells' \in Keeping(kept')
        BY <2>1, <2>6 DEF Keeping
    <2>8. Reaches(cells', <<>>, Keeping(kept'), cells')
        BY <2>7, ReachNothing
    <2>9. \E x : Reaches(cells', writes', Keeping(kept'), x)
        BY <1>3, <2>8
    <2>10. todo' \in Seq(NewRows(kept'))
        BY <1>3
    <2> QED
        BY <1>1, <1>3, <2>1, <2>9, <2>10 DEF KeptInv
<1> QED
    BY <1>2, <1>3

LEMMA KeptStepPageOp ==
    ASSUME KVInv, KeptInv, AddInv', CountIsOneDigit, PageOp, ~deletes
    PROVE  KeptInv'
<1>1. /\ UNCHANGED <<cells, promised, deletes, up, kills>> /\ EndsOp
      /\ up /\ todo # <<>> /\ writes = <<>> /\ todo' = Tail(todo)
    BY DEF PageOp
<1>2. todo \in Seq(NewRows(kept)) /\ cells \in Keeping(kept)
    <2>1. \E d : Reaches(cells, writes, Keeping(kept), d)
        BY DEF KeptInv
    <2> QED
        BY <2>1, ReachEnds DEF KeptInv
<1>3. Head(todo) \in NewRows(kept) /\ todo' \in Seq(NewRows(kept))
    BY <1>1, <1>2, HeadTailProperties
<1>4. PICK row \in Strings \ DOMAIN kept : Head(todo) = Insert(row)
    BY <1>3 DEF NewRows
<1>5. HasSpace(cells, row) /\ writes' = InsertRow(cells, row)
    BY <1>4 DEF PageOp, Insert
<1>6. cells[0] < Base - 1
    BY DEF CountIsOneDigit, Rows
<1>7. Reaches(cells, InsertRow(cells, row), Keeping(kept), Inserted(cells, row))
    BY <1>2, <1>5, <1>6, NewRowKeeps
<1>8. Reaches(cells', writes', Keeping(kept), Inserted(cells, row))
    BY <1>1, <1>5, <1>7
<1> QED
    BY <1>1, <1>3, <1>8, KeptEnds

LEMMA KeptStepWriteDigit ==
    ASSUME KVInv, KeptInv, AddInv', WriteDigit, ~deletes
    PROVE  KeptInv'
<1>1. /\ UNCHANGED <<todo, promised, deletes, up, kills>> /\ EndsOp
      /\ up /\ writes # <<>> /\ writes' = Tail(writes) /\ cells' = Put(cells, Head(writes))
    BY DEF WriteDigit, Put
<1>2. PICK d : Reaches(cells, writes, Keeping(kept), d)
    BY DEF KeptInv
<1>3. Reaches(cells', writes', Keeping(kept), d)
    BY <1>1, <1>2, ReachNext
<1>4. todo' \in Seq(NewRows(kept))
    BY <1>1 DEF KeptInv
<1> QED
    BY <1>1, <1>3, <1>4, KeptEnds

LEMMA KeptStepDead ==
    ASSUME KVInv, KeptInv, Dead, kills' = kills + 1, ~deletes
    PROVE  KeptInv'
<1>1. /\ up' = FALSE /\ todo' = <<>> /\ writes' = <<>>
      /\ UNCHANGED <<cells, promised, kept, deletes>>
    BY DEF Dead
<1>2. cells \in Keeping(kept) /\ DOMAIN kept \subseteq Keys
    BY ReachEnds DEF KeptInv
<1>3. Reaches(cells', writes', Keeping(kept'), cells')
    BY <1>1, <1>2, ReachNothing
<1>4. kills' # 0
    <2>1. kills \in Nat
        BY DEF KVInv
    <2> QED
        BY <2>1
<1>5. todo' \in Seq(NewRows(kept'))
    BY <1>1
<1> QED
    BY <1>1, <1>2, <1>3, <1>4, <1>5 DEF KeptInv

LEMMA KeptStepRestart ==
    ASSUME KVInv, KeptInv, AddInv, Restart, ~deletes
    PROVE  KeptInv'
<1>1. /\ values_' = Recovered(cells) /\ promised' = values_'
      /\ UNCHANGED <<cells, todo, writes, kept, deletes, kills>>
    BY DEF Restart
<1>2. kills # 0
    BY DEF Restart, AddInv, FirstLife
<1>3. PICK d : Reaches(cells, writes, Keeping(kept), d)
    BY DEF KeptInv
<1>4. cells \in Keeping(kept)
    BY <1>3, ReachEnds
<1>5. DOMAIN kept \subseteq DOMAIN Recovered(cells)
    BY <1>4 DEF Keeping
<1>6. Reaches(cells', writes', Keeping(kept'), d)
    BY <1>1, <1>3
<1> QED
    BY <1>1, <1>2, <1>5, <1>6 DEF KeptInv

LEMMA KeptStep ==
    ASSUME Keys \cap Values = {}
    PROVE  KVInv /\ KeptInv /\ AddInv /\ AddInv' /\ CountIsOneDigit /\ [Next]_vars
             => KeptInv'
<1> SUFFICES ASSUME KVInv, KeptInv, AddInv, AddInv', CountIsOneDigit, [Next]_vars
             PROVE  KeptInv'
    OBVIOUS
<1>0. CASE deletes
    <2>1. deletes' = deletes
        BY DEF Next, Set, Erase, PageOp, WriteDigit, AbortFull, Kill, Dead, Restart,
               vars
    <2> QED
        BY <1>0, <2>1 DEF KeptInv
<1>1. CASE ~deletes /\ \E k \in Keys : \E v \in Values : Set(k, v)
    BY <1>1, KeptStepSet
<1>2. CASE ~deletes /\ \E k \in Keys : Erase(k)
    BY <1>2 DEF Erase
<1>3. CASE ~deletes /\ PageOp
    BY <1>3, KeptStepPageOp
<1>4. CASE ~deletes /\ WriteDigit
    BY <1>4, KeptStepWriteDigit
<1>5. CASE ~deletes /\ (AbortFull \/ Kill)
    BY <1>5, KeptStepDead DEF AbortFull, Kill
<1>6. CASE ~deletes /\ Restart
    BY <1>6, KeptStepRestart
<1>7. CASE UNCHANGED vars
    BY <1>7 DEF vars, memory, KeptInv
<1> QED
    BY <1>0, <1>1, <1>2, <1>3, <1>4, <1>5, <1>6, <1>7 DEF Next

\* What was acknowledged before the first kill is found after every later one,
\* although a pair cut in two shifts all later pairs, if no value is a key and
\* the page has fewer than Base - 1 rows.
THEOREM KeptWhileOneDigit ==
    ASSUME Keys \cap Values = {}
    PROVE  Spec /\ []CountIsOneDigit => []PairsBeforeTheKillSurvive
<1>1. KVInv /\ KeptInv /\ AddInv /\ AddInv' /\ CountIsOneDigit /\ [Next]_vars
        => KeptInv'
    BY KeptStep
<1> QED
    BY <1>1, KeptInit, AddInit, AddStep, AlwaysKVInv, KeptInvSurvive, PTL DEF Spec

-----------------------------------------------------------------------------
(* One row less                                                            *)

LEMMA PrevGrows ==
    ASSUME NEW c \in Pages, NEW m \in 0 .. PageSize, NEW n \in 0 .. PageSize, m <= n
    PROVE  PrevSum(c, m) <= PrevSum(c, n)
<1>1. \A r \in 1 .. m : c[r] <= c[r]
    <2> TAKE r \in 1 .. m
    <2>1. r \in 0 .. PageSize
        OBVIOUS
    <2> QED
        BY <2>1, CellNat
<1> QED
    BY <1>1, PrevBelow

LEMMA DeletedLengths ==
    ASSUME NEW c \in Safe, NEW i \in Nat, i < c[0]
    PROVE  /\ Deleted(c, i) \in Safe /\ Deleted(c, i) \in Pages
           /\ Deleted(c, i)[0] = c[0] /\ Deleted(c, i)[i + 1] = 0
           /\ \A x \in 1 .. c[0] : x # i + 1 => Deleted(c, i)[x] = c[x]
<1>1. c[0] \in Nat /\ c[i + 1] \in Nat /\ c[i + 1] \in 0 .. c[i + 1]
    BY DeleteFacts
<1>2. /\ Deleted(c, i) \in Pages /\ Deleted(c, i)[i + 1] = 0
      /\ \A x \in 0 .. c[0] : x # i + 1 => Deleted(c, i)[x] = c[x]
      /\ Deleted(c, i) \in Shortened(c, i)
    BY <1>1, ZeroedFacts DEF Deleted
<1>3. Deleted(c, i) \in Safe
    BY <1>2, ShortenedSafe
<1>4. 0 \in 0 .. c[0] /\ 0 # i + 1 /\ 1 .. c[0] \subseteq 0 .. c[0]
    BY <1>1
<1> QED
    BY <1>2, <1>3, <1>4

\* The place of the t-th cell of a later row once the rows have moved up by l.
LEMMA ShiftedCell ==
    ASSUME NEW f \in Int, NEW l \in Int, NEW lo \in Int, NEW hi \in Int,
           NEW n \in Int, NEW t \in Int, NEW x,
           x = (f + l) + t - 1, f >= lo, f + n <= hi, 1 <= t, t <= n
    PROVE  x \in Int /\ x >= lo + l /\ x <= hi + l - 1 /\ x - l = f + t - 1
<1>1. x \in Int
    OBVIOUS
<1>2. x >= lo + l
    BY <1>1
<1>3. x <= hi + l - 1
    BY <1>1
<1>4. x - l = f + t - 1
    BY <1>1
<1> QED
    BY <1>1, <1>2, <1>3, <1>4

\* The later rows move up.
LEMMA DeletedLater ==
    ASSUME NEW c \in Safe, NEW i \in Nat, NEW j \in Nat, i < j, j < c[0]
    PROVE  GetRow(Deleted(c, i), j) = GetRow(c, j)
<1> DEFINE d == Deleted(c, i)
           len == c[i + 1]
           from == From(c, i)
           to == Packed(c)
           first == PageSize - PrevSum(c, j + 1)
           n == c[j + 1]
<1>1. /\ c \in Pages /\ c[0] \in Nat /\ len \in Nat /\ from \in Nat /\ to \in Nat
      /\ to > c[0] /\ from + len <= PageSize /\ i < c[0]
      /\ from = PageSize - PrevSum(c, i + 1)
    BY SafeFacts, DeleteFacts
<1>2. /\ j < PageSize /\ j + 1 \in 0 .. PageSize /\ j \in 0 .. PageSize
      /\ PrevSum(c, j) \in Nat /\ PrevSum(c, j + 1) \in Nat /\ n \in Nat
      /\ PrevSum(c, j + 1) = PrevSum(c, j) + n
      /\ PrevSum(c, j + 1) <= PrevSum(c, c[0])
    BY RowPlace
<1>3. /\ i + 1 \in 0 .. PageSize /\ PrevSum(c, i + 1) \in Nat
      /\ PrevSum(c, i + 1) <= PrevSum(c, j)
    <2>1. i + 1 \in 0 .. PageSize /\ PrevSum(c, i + 1) \in Nat
        BY <1>1, RowPlace
    <2> QED
        BY <1>1, <1>2, <2>1, PrevGrows
<1>4. to = PageSize - PrevSum(c, c[0]) /\ PrevSum(c, c[0]) \in Nat
    BY SafeFacts
<1>5. /\ d \in Pages /\ d[0] = c[0] /\ d[i + 1] = 0
      /\ \A x \in 1 .. c[0] : x # i + 1 => d[x] = c[x]
    BY <1>1, DeletedLengths
<1>6. d[j + 1] = n
    <2>1. j + 1 \in 1 .. c[0] /\ j + 1 # i + 1
        BY <1>1
    <2> QED
        BY <1>5, <2>1
<1>7. PrevSum(d, j + 1) = PrevSum(c, j + 1) - len
    <2>1. i \in 0 .. (j + 1) - 1
        OBVIOUS
    <2>2. \A r \in 1 .. j + 1 : r # i + 1 => d[r] = c[r]
        <3> TAKE r \in 1 .. j + 1
        <3>1. r \in 1 .. c[0]
            BY <1>1
        <3> QED
            BY <1>5, <3>1
    <2> HIDE DEF d
    <2> QED
        BY <1>1, <1>2, <1>5, <2>1, <2>2, PrevEmptied
<1>8. ASSUME NEW t \in 1 .. n PROVE d[(first + len) + t - 1] = c[first + t - 1]
    <2> HIDE DEF len, from, to, n
    <2>a. first \in Int /\ first >= to
        BY <1>2, <1>4
    <2>b. first + n = PageSize - PrevSum(c, j)
        BY <1>2
    <2>c. first + n <= from
        BY <1>1, <1>2, <1>3, <2>b
    <2> HIDE DEF first
    <2>0. PICK x : x = (first + len) + t - 1
        OBVIOUS
    <2>d. /\ first \in Int /\ len \in Int /\ to \in Int /\ from \in Int
          /\ n \in Int /\ t \in Int /\ 1 <= t /\ t <= n
        BY <1>1, <1>2, <1>4, <2>a
    <2>1. x \in Int /\ x >= to + len /\ x <= from + len - 1 /\ x - len = first + t - 1
        BY <2>0, <2>a, <2>c, <2>d, ShiftedCell
    <2>e. /\ from + len <= PageSize /\ len >= 0 /\ to >= 0 /\ to > c[0] /\ i < c[0]
          /\ c[0] \in Nat
        BY <1>1
    <2>2. x \in Cells
        BY <2>1, <2>d, <2>e, PageAssumption DEF Cells
    <2>3. x # i + 1
        BY <2>1, <2>d, <2>e
    <2>4. ~(x \in to .. to + len - 1)
        BY <2>1, <2>d
    <2>5. x \in to + len .. from + len
        BY <2>1, <2>d
    <2>6. d[x] = c[x - len]
        BY <2>2, <2>3, <2>4, <2>5 DEF Deleted, Zeroed, len, from, to
    <2> QED
        BY <2>0, <2>1, <2>6
<1>9. PageSize - PrevSum(d, j + 1) = first + len
    <2> DEFINE a == PrevSum(c, j + 1)
               b == PrevSum(d, j + 1)
    <2>1. a \in Int /\ len \in Int /\ PageSize \in Int /\ b = a - len
        BY <1>1, <1>2, <1>7, PageAssumption
    <2> HIDE DEF a, b, d, len
    <2>2. PageSize - b = (PageSize - a) + len
        BY <2>1
    <2> QED
        BY <2>2 DEF a, b
<1>10. GetRow(d, j) = [t \in 1 .. n |-> d[(first + len) + t - 1]]
    BY <1>6, <1>9 DEF GetRow, Len0
<1>11. GetRow(c, j) = [t \in 1 .. n |-> c[first + t - 1]]
    BY DEF GetRow, Len0
<1> HIDE DEF first, len, d, n
<1>12. [t \in 1 .. n |-> d[(first + len) + t - 1]] = [t \in 1 .. n |-> c[first + t - 1]]
    BY <1>8
<1> QED
    BY <1>10, <1>11, <1>12 DEF d

\* An earlier row stays if some cell of a row lies between it and the deleted
\* one: the first cell of the nearest row is overwritten.
LEMMA DeletedEarlier ==
    ASSUME NEW c \in Safe, NEW i \in Nat, NEW j \in Nat, j < i, i < c[0],
           PrevSum(c, j + 1) < PrevSum(c, i)
    PROVE  GetRow(Deleted(c, i), j) = GetRow(c, j)
<1> DEFINE d == Deleted(c, i)
           len == c[i + 1]
           from == From(c, i)
           to == Packed(c)
<1>1. /\ c \in Pages /\ c[0] \in Nat /\ len \in Nat /\ from \in Nat /\ to \in Nat
      /\ to > c[0] /\ to <= from /\ from + len <= PageSize /\ j < c[0]
      /\ from + len = PageSize - PrevSum(c, i)
    BY SafeFacts, DeleteFacts
<1>2. /\ j + 1 \in 0 .. PageSize /\ PrevSum(c, j) \in Nat /\ PrevSum(c, j + 1) \in Nat
      /\ PrevSum(c, i) \in Nat
    BY <1>1, RowPlace
<1>3. /\ d \in Pages /\ \A x \in 1 .. c[0] : x # i + 1 => d[x] = c[x]
    BY DeletedLengths
<1>4. \A r \in 1 .. j + 1 : d[r] = c[r]
    <2> TAKE r \in 1 .. j + 1
    <2>1. r \in 1 .. c[0] /\ r # i + 1
        BY <1>1
    <2> QED
        BY <1>3, <2>1
<1>5. ASSUME NEW x \in PageSize - PrevSum(c, j + 1) .. PageSize - PrevSum(c, j) - 1
      PROVE  d[x] = c[x]
    <2> HIDE DEF len, from, to
    <2>1. /\ x \in Cells /\ x # i + 1 /\ ~(x \in to .. to + len - 1)
          /\ ~(x \in to + len .. from + len)
        BY <1>1, <1>2 DEF Cells
    <2> QED
        BY <2>1 DEF Deleted, Zeroed, len, from, to
<1>6. RowKept(c, d, j)
    BY <1>4, <1>5 DEF RowKept
<1> QED
    BY <1>1, <1>3, <1>6, RowSame

LEMMA PairsAreLengths ==
    ASSUME NEW c \in Safe
    PROVE  PairsOf(c) = {i \in 0 .. (c[0] \div 2) - 1 :
                            c[2 * i + 1] # 0 /\ c[2 * i + 2] # 0}
<1>1. c[0] \in Nat
    BY SafeFacts
<1>2. ASSUME NEW i \in 0 .. (c[0] \div 2) - 1
      PROVE  /\ GetRow(c, 2 * i) = <<>> <=> c[2 * i + 1] = 0
             /\ GetRow(c, 2 * i + 1) = <<>> <=> c[2 * i + 2] = 0
    <2>1. /\ 2 * i \in Nat /\ 2 * i < c[0] /\ 2 * i + 1 \in Nat /\ 2 * i + 1 < c[0]
          /\ (2 * i + 1) + 1 = 2 * i + 2
        BY <1>1
    <2>2. GetRow(c, 2 * i) = <<>> <=> c[2 * i + 1] = 0
        BY <2>1, RowIsString
    <2>3. GetRow(c, 2 * i + 1) = <<>> <=> c[(2 * i + 1) + 1] = 0
        BY <2>1, RowIsString
    <2> QED
        BY <2>1, <2>2, <2>3
<1> QED
    BY <1>2 DEF PairsOf, Rows

\* Without a row of pair p, the other pairs and their keys are there.
LEMMA DeletedPair ==
    ASSUME NEW c \in Safe, NEW p \in Nat, NEW i \in Nat,
           i = 2 * p \/ i = 2 * p + 1, i < c[0]
    PROVE  /\ PairsOf(Deleted(c, i)) \subseteq PairsOf(c)
           /\ PairsOf(c) \ {p} \subseteq PairsOf(Deleted(c, i))
           /\ p \notin PairsOf(Deleted(c, i))
           /\ \A j \in PairsOf(c) \ {p} :
                GetRow(Deleted(c, i), 2 * j) = GetRow(c, 2 * j)
<1> DEFINE d == Deleted(c, i)
<1>1. /\ d \in Safe /\ d[0] = c[0] /\ d[i + 1] = 0 /\ c[0] \in Nat /\ i \in Nat
      /\ \A x \in 1 .. c[0] : x # i + 1 => d[x] = c[x]
    BY DeletedLengths, SafeFacts
<1>2. ASSUME NEW j \in 0 .. (c[0] \div 2) - 1
      PROVE  /\ j # p => d[2 * j + 1] = c[2 * j + 1] /\ d[2 * j + 2] = c[2 * j + 2]
             /\ j = p => d[2 * j + 1] = 0 \/ d[2 * j + 2] = 0
    <2>1. /\ 2 * j + 1 \in 1 .. c[0] /\ 2 * j + 2 \in 1 .. c[0]
          /\ j # p => 2 * j + 1 # i + 1 /\ 2 * j + 2 # i + 1
          /\ j = p => i + 1 = 2 * j + 1 \/ i + 1 = 2 * j + 2
        BY <1>1
    <2> QED
        BY <1>1, <2>1
<1> HIDE DEF d
<1>3. /\ PairsOf(c) = {j \in 0 .. (c[0] \div 2) - 1 :
                          c[2 * j + 1] # 0 /\ c[2 * j + 2] # 0}
      /\ PairsOf(d) = {j \in 0 .. (d[0] \div 2) - 1 :
                          d[2 * j + 1] # 0 /\ d[2 * j + 2] # 0}
    BY <1>1, PairsAreLengths
<1>4. PairsOf(d) = PairsOf(c) \ {p}
    BY <1>1, <1>2, <1>3
<1>5. ASSUME NEW j \in PairsOf(c), j # p PROVE GetRow(d, 2 * j) = GetRow(c, 2 * j)
    <2>1. j \in Nat /\ 2 * j \in Nat /\ 2 * j + 1 \in Nat /\ 2 * j + 1 < c[0]
          /\ 2 * j < c[0]
        BY PairFacts
    <2>2. CASE j > p
        <3>1. i < 2 * j
            BY <2>1, <2>2
        <3> QED
            BY <1>1, <2>1, <3>1, DeletedLater DEF d
    <2>3. CASE j < p
        <3>1. 2 * j + 2 <= i /\ 2 * j < i
            BY <2>1, <2>3
        <3>2. /\ PrevSum(c, (2 * j + 1) + 1) = PrevSum(c, 2 * j + 1) + c[(2 * j + 1) + 1]
              /\ PrevSum(c, 2 * j + 1) \in Nat /\ PrevSum(c, (2 * j + 1) + 1) \in Nat
              /\ c[(2 * j + 1) + 1] \in Nat
            BY <2>1, RowPlace
        <3>3. (2 * j + 1) + 1 = 2 * j + 2
            BY <2>1
        <3>4. c[2 * j + 2] # 0
            BY <1>3
        <3>5. PrevSum(c, 2 * j + 2) <= PrevSum(c, i) /\ PrevSum(c, i) \in Nat
            <4>1. c \in Pages /\ c[0] < PageSize
                BY SafeFacts
            <4>2. 2 * j + 2 \in 0 .. PageSize /\ i \in 0 .. PageSize
                BY <1>1, <2>1, <3>1, <4>1
            <4> QED
                BY <3>1, <4>1, <4>2, PrevGrows, PrevNat
        <3>6. PrevSum(c, 2 * j + 1) < PrevSum(c, i)
            BY <3>2, <3>3, <3>4, <3>5
        <3> QED
            BY <1>1, <2>1, <3>1, <3>6, DeletedEarlier DEF d
    <2> QED
        BY <1>5, <2>1, <2>2, <2>3
<1> QED
    BY <1>4, <1>5 DEF d

-----------------------------------------------------------------------------
(* The first life of an owner who also deletes                             *)

\* The pairs of the page, but for those of X, are the keys of K with the pair
\* numbers f.
Holds(c, f, K, X) ==
    /\ \A k \in K : f[k] \in PairsOf(c) \ X /\ GetRow(c, 2 * f[k]) = k
    /\ \A i \in PairsOf(c) \ X : \E k \in K : f[k] = i

LEMMA HoldsDeleted ==
    ASSUME NEW c \in Safe, NEW p \in Nat, NEW i \in Nat,
           i = 2 * p \/ i = 2 * p + 1, i < c[0],
           NEW f, NEW K, Holds(c, f, K, {p})
    PROVE  /\ Holds(Deleted(c, i), f, K, {p}) /\ Holds(Deleted(c, i), f, K, {})
           /\ Deleted(c, i)[0] = c[0]
           /\ Reaches(c, DeleteRow(c, i), Safe, Deleted(c, i))
<1> DEFINE d == Deleted(c, i)
<1>1. i \in Nat
    OBVIOUS
<1>2. d[0] = c[0]
    BY <1>1, DeletedLengths
<1>3. /\ PairsOf(d) \subseteq PairsOf(c)
      /\ PairsOf(c) \ {p} \subseteq PairsOf(d)
      /\ p \notin PairsOf(d)
      /\ \A j \in PairsOf(c) \ {p} : GetRow(d, 2 * j) = GetRow(c, 2 * j)
    <2>2. /\ PairsOf(Deleted(c, i)) \subseteq PairsOf(c)
          /\ PairsOf(c) \ {p} \subseteq PairsOf(Deleted(c, i))
          /\ p \notin PairsOf(Deleted(c, i))
          /\ \A j \in PairsOf(c) \ {p} :
                GetRow(Deleted(c, i), 2 * j) = GetRow(c, 2 * j)
        BY DeletedPair
    <2> QED
        BY <2>2
<1>4. Shortened(c, i) \subseteq Safe
    BY <1>1, ShortenedSafe
<1>5. Reaches(c, DeleteRow(c, i), Shortened(c, i), d)
    BY <1>1, DeleteReaches
<1> HIDE DEF d
<1>6. Reaches(c, DeleteRow(c, i), Safe, d)
    BY <1>4, <1>5, ReachWithin
<1>7. Holds(d, f, K, {p}) /\ Holds(d, f, K, {})
    BY <1>3 DEF Holds
<1> QED
    BY <1>2, <1>6, <1>7 DEF d

LEMMA RowReaches ==
    ASSUME NEW c \in Safe, NEW row \in Strings, HasSpace(c, row)
    PROVE  Reaches(c, InsertRow(c, row), Safe, Inserted(c, row))
<1>1. Alike(c) \cup Counting(c, row) \subseteq Safe
    BY CountingPages
<1>2. Reaches(c, InsertRow(c, row), Alike(c) \cup Counting(c, row), Inserted(c, row))
    BY InsertReaches
<1> QED
    BY <1>1, <1>2, ReachWithin

LEMMA HoldsKeyRow ==
    ASSUME NEW c \in Safe, NEW k \in Strings, HasSpace(c, k), c[0] < MaxCell,
           Even(c[0]), NEW f, NEW K, Holds(c, f, K, {})
    PROVE  \E d : /\ Reaches(c, InsertRow(c, k), Safe, d)
                  /\ Holds(d, f, K, {})
                  /\ d[0] = c[0] + 1 /\ GetRow(d, d[0] - 1) = k
<1> DEFINE d == Inserted(c, k)
<1>1. Reaches(c, InsertRow(c, k), Safe, d)
    BY RowReaches
<1>2. d \in Safe /\ OneMore(c, d, k) /\ c[0] \in Nat
    BY InsertedRow, SafeFacts
<1> HIDE DEF d
<1>3. d[0] = c[0] + 1 /\ d[0] - 1 = c[0] /\ GetRow(d, c[0]) = k
    BY <1>2 DEF OneMore
<1>4. /\ PairsOf(d) = PairsOf(c)
      /\ \A i \in PairsOf(c) : GetRow(d, 2 * i) = GetRow(c, 2 * i)
    BY <1>2, KeyRowPairs
<1>5. Holds(d, f, K, {})
    BY <1>4 DEF Holds
<1> QED
    BY <1>1, <1>3, <1>5

LEMMA HoldsValueRow ==
    ASSUME NEW c \in Safe, NEW v \in Strings, HasSpace(c, v), c[0] < MaxCell,
           ~Even(c[0]), NEW k \in Strings, k = GetRow(c, c[0] - 1),
           NEW f, f[k] = c[0] \div 2, NEW K, Holds(c, f, K \ {k}, {}), k \in K
    PROVE  \E d : /\ Reaches(c, InsertRow(c, v), Safe, d)
                  /\ Holds(d, f, K, {})
                  /\ d[0] = c[0] + 1
<1> DEFINE d == Inserted(c, v)
<1>1. Reaches(c, InsertRow(c, v), Safe, d)
    BY RowReaches
<1>2. d \in Safe /\ OneMore(c, d, v) /\ v # <<>> /\ k # <<>>
    BY InsertedRow, StringFacts
<1> HIDE DEF d
<1>3. d[0] = c[0] + 1
    BY <1>2 DEF OneMore
<1>4. PICK p \in Nat :
      /\ p = c[0] \div 2
      /\ PairsOf(d) = PairsOf(c) \cup {p}
      /\ GetRow(d, 2 * p) = k
      /\ \A i \in PairsOf(c) : GetRow(d, 2 * i) = GetRow(c, 2 * i)
    BY <1>2, ValueRowPairs
<1>5. f[k] = p
    BY <1>4
<1>6. Holds(d, f, K, {})
    BY <1>4, <1>5 DEF Holds
<1> QED
    BY <1>1, <1>3, <1>6

Done(d, X) ==
    /\ d[0] = 2 * keysSize
    /\ Holds(d, key2index_, DOMAIN key2index_, X)
Lacking(d, k, X) ==
    /\ k \in DOMAIN key2index_ /\ key2index_[k] = keysSize - 1
    /\ d[0] = 2 * (keysSize - 1)
    /\ Holds(d, key2index_, DOMAIN key2index_ \ {k}, X)
LackingValue(d, k) ==
    /\ k \in DOMAIN key2index_ /\ key2index_[k] = keysSize - 1
    /\ d[0] = 2 * (keysSize - 1) + 1 /\ GetRow(d, d[0] - 1) = k
    /\ Holds(d, key2index_, DOMAIN key2index_ \ {k}, {})

\* What is left of a set or an erase, and what the page d at the end of the
\* writes holds: pair i is being deleted, the pair of k and v inserted.
ErasesPair(d, i) == todo = <<Delete(2 * i), Delete(2 * i + 1)>> /\ Done(d, {i})
ErasesValue(d, i) == todo = <<Delete(2 * i + 1)>> /\ Done(d, {i})
ReplacesPair(d, i, k, v) ==
    /\ todo = <<Delete(2 * i), Delete(2 * i + 1), Insert(k), Insert(v)>>
    /\ Lacking(d, k, {i})
ReplacesValue(d, i, k, v) ==
    todo = <<Delete(2 * i + 1), Insert(k), Insert(v)>> /\ Lacking(d, k, {i})
InsertsPair(d, k, v) == todo = <<Insert(k), Insert(v)>> /\ Lacking(d, k, {})
InsertsValue(d, k, v) == todo = <<Insert(v)>> /\ LackingValue(d, k)

Stage(d) ==
    \/ todo = <<>> /\ Done(d, {})
    \/ \E i \in Nat : ErasesPair(d, i) \/ ErasesValue(d, i)
    \/ \E i \in Nat, k \in Keys, v \in Values :
          ReplacesPair(d, i, k, v) \/ ReplacesValue(d, i, k, v)
    \/ \E k \in Keys, v \in Values : InsertsPair(d, k, v) \/ InsertsValue(d, k, v)

StayInv ==
    kills = 0 => up /\ \E d : Reaches(cells, writes, Safe, d) /\ Stage(d)

\* Between two operations the page holds all pairs.
LEMMA IdlePage ==
    ASSUME StayInv, Idle, kills = 0
    PROVE  cells \in Safe /\ Done(cells, {})
<1>1. todo = <<>> /\ writes = <<>>
    BY DEF Idle
<1>2. PICK d : Reaches(cells, writes, Safe, d) /\ Stage(d)
    BY DEF StayInv
<1>3. d = cells /\ cells \in Safe
    BY <1>1, <1>2, ReachedNothing
<1>4. ASSUME NEW x PROVE todo # <<x>>
    BY <1>1
<1>5. ASSUME NEW x, NEW y PROVE todo # <<x, y>>
    BY <1>1
<1>6. ASSUME NEW x, NEW y, NEW z PROVE todo # <<x, y, z>>
    BY <1>1
<1>7. ASSUME NEW x, NEW y, NEW z, NEW u PROVE todo # <<x, y, z, u>>
    BY <1>1
<1> QED
    BY <1>2, <1>3, <1>4, <1>5, <1>6, <1>7
       DEF Stage, ErasesPair, ErasesValue, ReplacesPair, ReplacesValue,
           InsertsPair, InsertsValue

LEMMA StayInvFound == KVInv /\ StayInv => PairsStayFound
<1> SUFFICES ASSUME KVInv, StayInv, kills = 0, Idle
             PROVE  /\ DOMAIN Recovered(cells) = DOMAIN values_
                    /\ \A k \in DOMAIN key2index_ :
                         /\ 2 * key2index_[k] + 1 < Rows(cells)
                         /\ GetRow(cells, 2 * key2index_[k]) = k
    BY DEF PairsStayFound, KeysRecoverable
<1>1. todo = <<>> /\ writes = <<>> /\ DOMAIN key2index_ = DOMAIN values_
    BY DEF Idle, KVInv
<1>3. cells \in Safe /\ Done(cells, {})
    BY IdlePage
<1>5. Holds(cells, key2index_, DOMAIN key2index_, {})
    BY <1>3 DEF Done
<1>6. DOMAIN Recovered(cells) = DOMAIN key2index_
    <2>1. DOMAIN Recovered(cells) = {GetRow(cells, 2 * i) : i \in PairsOf(cells)}
        BY RecoveredKeys
    <2>2. ASSUME NEW k \in DOMAIN key2index_
          PROVE  \E i \in PairsOf(cells) : k = GetRow(cells, 2 * i)
        BY <1>5 DEF Holds
    <2>3. ASSUME NEW i \in PairsOf(cells)
          PROVE  GetRow(cells, 2 * i) \in DOMAIN key2index_
        BY <1>5 DEF Holds
    <2>4. {GetRow(cells, 2 * i) : i \in PairsOf(cells)} \subseteq DOMAIN key2index_
        BY <2>3
    <2>5. DOMAIN key2index_ \subseteq {GetRow(cells, 2 * i) : i \in PairsOf(cells)}
        BY <2>2
    <2> QED
        BY <2>1, <2>4, <2>5
<1>7. ASSUME NEW k \in DOMAIN key2index_
      PROVE  2 * key2index_[k] + 1 < Rows(cells) /\ GetRow(cells, 2 * key2index_[k]) = k
    <2>1. key2index_[k] \in PairsOf(cells) /\ GetRow(cells, 2 * key2index_[k]) = k
        BY <1>5 DEF Holds
    <2>2. 2 * key2index_[k] + 1 < cells[0]
        BY <1>3, <2>1, PairFacts
    <2> QED
        BY <2>1, <2>2 DEF Rows
<1> QED
    BY <1>1, <1>6, <1>7

LEMMA StayInit == Init => StayInv
<1> SUFFICES ASSUME Init PROVE StayInv
    OBVIOUS
<1>1. cells \in Safe
    BY KVInit, ReachEnds DEF KVInv, OnSafePages
<1>2. /\ cells[0] = 0 /\ todo = <<>> /\ writes = <<>> /\ up
      /\ key2index_ = EmptyMap /\ keysSize = 0
    BY DEF Init, Cells
<1>3. PairsOf(cells) = {}
    <2>1. cells[0] \div 2 = 0
        BY <1>2
    <2> QED
        BY <2>1 DEF PairsOf, Rows
<1>4. Done(cells, {})
    BY <1>2, <1>3, EmptyFacts DEF Done, Holds
<1>5. Reaches(cells, writes, Safe, cells)
    BY <1>1, <1>2, ReachNothing
<1> QED
    BY <1>2, <1>4, <1>5 DEF StayInv, Stage

LEMMA TwoAndTwo ==
    ASSUME NEW a, NEW b, NEW c, NEW d
    PROVE  <<a, b>> \o <<c, d>> = <<a, b, c, d>>
<1> DEFINE T == {a, b, c, d}
           x == <<a, b>>
           y == <<c, d>>
           z == <<a, b, c, d>>
<1>1. x \in Seq(T) /\ y \in Seq(T) /\ Len(x) = 2 /\ Len(y) = 2
    OBVIOUS
<1>2. x[1] = a /\ x[2] = b /\ y[1] = c /\ y[2] = d
    OBVIOUS
<1>3. z \in Seq(T) /\ Len(z) = 4 /\ z[1] = a /\ z[2] = b /\ z[3] = c /\ z[4] = d
    OBVIOUS
<1> HIDE DEF x, y, z, T
<1>4. /\ x \o y \in Seq(T) /\ Len(x \o y) = 4
      /\ \A i \in 1 .. 4 : (x \o y)[i] = IF i <= 2 THEN x[i] ELSE y[i - 2]
    <2>0. x \in Seq(T)
        BY <1>1
    <2>0a. y \in Seq(T)
        BY <1>1
    <2>1. x \o y \in Seq(T) /\ Len(x \o y) = Len(x) + Len(y)
        BY <2>0, <2>0a
    <2>2. \A i \in 1 .. Len(x) + Len(y) :
            (x \o y)[i] = IF i <= Len(x) THEN x[i] ELSE y[i - Len(x)]
        BY <2>0, <2>0a
    <2>3. Len(x) + Len(y) = 4
        BY <1>1
    <2> QED
        BY <1>1, <2>1, <2>2, <2>3
<1>5. \A i \in 1 .. 4 : (x \o y)[i] = z[i]
    BY <1>2, <1>3, <1>4
<1>6. x \o y = z
    <2> DEFINE w == x \o y
    <2>1. w \in Seq(T) /\ z \in Seq(T) /\ Len(w) = Len(z)
        BY <1>3, <1>4
    <2>2. \A i \in 1 .. Len(w) : w[i] = z[i]
        BY <1>4, <1>5
    <2> HIDE DEF w
    <2>3. w = z
        BY <2>1, <2>2, SeqEqual
    <2> QED
        BY <2>3 DEF w
<1> QED
    BY <1>6 DEF x, y, z

\* Without key k, its pair is the only one that is no key's.
LEMMA HoldsWithout ==
    ASSUME NEW c, NEW f, NEW g, NEW D, NEW k \in D, Holds(c, f, D, {}),
           \A x \in D \ {k} : g[x] = f[x]
    PROVE  Holds(c, g, D \ {k}, {f[k]})
<1>1. ASSUME NEW x \in D \ {k} PROVE f[x] # f[k]
    <2>1. GetRow(c, 2 * f[x]) = x /\ GetRow(c, 2 * f[k]) = k
        BY DEF Holds
    <2> QED
        BY <2>1
<1> QED
    BY <1>1 DEF Holds

LEMMA HoldsNew ==
    ASSUME NEW c, NEW f, NEW g, NEW D, NEW k, k \notin D, Holds(c, f, D, {}),
           \A x \in D : g[x] = f[x]
    PROVE  Holds(c, g, (D \cup {k}) \ {k}, {})
<1>1. (D \cup {k}) \ {k} = D
    OBVIOUS
<1>2. Holds(c, g, D, {})
    BY DEF Holds
<1> QED
    BY <1>1, <1>2

LEMMA StayStepSet ==
    ASSUME KVInv, StayInv, NEW k \in Keys, NEW v \in Values, Set(k, v), kills = 0
    PROVE  StayInv'
<1>1. /\ UNCHANGED <<cells, values_, writes, kills>> /\ up' = up
      /\ Idle /\ up /\ writes = <<>> /\ DOMAIN key2index_ = DOMAIN values_
      /\ keysSize' = keysSize + 1 /\ keysSize \in Nat
      /\ key2index_' = With(key2index_, k, keysSize)
    BY DEF Set, Idle, KVInv
<1>2. cells \in Safe /\ Done(cells, {})
    BY <1>1, IdlePage
<1>3. cells[0] = 2 * keysSize /\ Holds(cells, key2index_, DOMAIN key2index_, {})
    BY <1>2 DEF Done
<1>4. /\ DOMAIN key2index_' = DOMAIN key2index_ \cup {k}
      /\ key2index_'[k] = keysSize
      /\ \A x \in DOMAIN key2index_ : x # k => key2index_'[x] = key2index_[x]
    BY <1>1 DEF With
<1>5. keysSize' - 1 = keysSize /\ cells'[0] = 2 * (keysSize' - 1)
    BY <1>1, <1>3
<1>6. Reaches(cells', writes', Safe, cells)
    BY <1>1, <1>2, ReachNothing
<1>7. CASE k \notin DOMAIN key2index_
    <2>1. todo' = <<>> \o <<Insert(k), Insert(v)>>
        BY <1>7 DEF Set
    <2>2. todo' = <<Insert(k), Insert(v)>>
        BY <2>1
    <2>3. Holds(cells, key2index_', (DOMAIN key2index_ \cup {k}) \ {k}, {})
        BY <1>3, <1>4, <1>7, HoldsNew
    <2>4. Lacking(cells, k, {})'
        BY <1>1, <1>4, <1>5, <2>3 DEF Lacking
    <2>5. InsertsPair(cells, k, v)'
        BY <2>2, <2>4 DEF InsertsPair
    <2>6. Stage(cells)'
        BY <2>5 DEF Stage
    <2> QED
        BY <1>1, <1>6, <2>6 DEF StayInv
<1>8. CASE k \in DOMAIN key2index_
    <2> DEFINE old == key2index_[k]
    <2>0. old \in Nat
        BY <1>8 DEF KVInv
    <2>a. PICK i \in Nat : i = key2index_[k]
        BY <2>0
    <2>1. todo' = <<Delete(2 * i), Delete(2 * i + 1)>> \o <<Insert(k), Insert(v)>>
        BY <1>1, <1>8, <2>a DEF Set, DeletePair
    <2>2. todo' = <<Delete(2 * i), Delete(2 * i + 1), Insert(k), Insert(v)>>
        BY <2>1, TwoAndTwo
    <2>3. Holds(cells, key2index_', DOMAIN key2index_ \ {k}, {key2index_[k]})
        BY <1>3, <1>4, <1>8, HoldsWithout
    <2>3a. DOMAIN key2index_ \ {k} = (DOMAIN key2index_)' \ {k}
        BY <1>4
    <2>4. Lacking(cells, k, {i})'
        BY <1>1, <1>4, <1>5, <2>3, <2>3a, <2>a DEF Lacking
    <2>5. ReplacesPair(cells, i, k, v)'
        BY <2>2, <2>4 DEF ReplacesPair
    <2>6. Stage(cells)'
        BY <2>5 DEF Stage
    <2> QED
        BY <1>1, <1>6, <2>6 DEF StayInv
<1> QED
    BY <1>7, <1>8

LEMMA StayStepErase ==
    ASSUME KVInv, StayInv, NEW k \in Keys, Erase(k), kills = 0
    PROVE  StayInv'
<1>1. /\ UNCHANGED <<cells, keysSize, writes, kills>> /\ up' = up
      /\ Idle /\ up /\ writes = <<>> /\ DOMAIN key2index_ = DOMAIN values_
      /\ k \in DOMAIN key2index_
      /\ key2index_' = Without(key2index_, k)
    BY DEF Erase, Idle, KVInv
<1>2. cells \in Safe /\ Done(cells, {})
    BY <1>1, IdlePage
<1>3. cells[0] = 2 * keysSize /\ Holds(cells, key2index_, DOMAIN key2index_, {})
    BY <1>2 DEF Done
<1>4. /\ DOMAIN key2index_' = DOMAIN key2index_ \ {k}
      /\ \A x \in DOMAIN key2index_ : x # k => key2index_'[x] = key2index_[x]
    BY <1>1 DEF Without, Restrict
<1>5. PICK i \in Nat : i = key2index_[k]
    BY <1>1 DEF KVInv
<1>6. todo' = <<Delete(2 * i), Delete(2 * i + 1)>>
    BY <1>5 DEF Erase, DeletePair
<1>7. Holds(cells, key2index_', DOMAIN key2index_ \ {k}, {key2index_[k]})
    BY <1>1, <1>3, <1>4, HoldsWithout
<1>8. Done(cells, {i})'
    BY <1>1, <1>3, <1>4, <1>5, <1>7 DEF Done
<1>9. ErasesPair(cells, i)'
    BY <1>6, <1>8 DEF ErasesPair
<1>10. Stage(cells)'
    BY <1>9 DEF Stage
<1>11. Reaches(cells', writes', Safe, cells')
    BY <1>1, <1>2, ReachNothing
<1> QED
    BY <1>1, <1>10, <1>11 DEF StayInv

\* No more rows than a cell can count.
CountFits == Rows(cells) < MaxCell

\* Deleting a row of pair i.
LEMMA DeleteStep ==
    ASSUME KVInv, PageOp, cells \in Safe, NEW i \in Nat, NEW r \in Nat,
           r = 2 * i \/ r = 2 * i + 1, Head(todo) = Delete(r),
           NEW f, NEW K, Holds(cells, f, K, {i})
    PROVE  \E d : /\ Reaches(cells, writes', Safe, d) /\ d[0] = cells[0]
                  /\ Holds(d, f, K, {i}) /\ Holds(d, f, K, {})
<1>1. r < Rows(cells) /\ writes' = DeleteRow(cells, r)
    BY DEF PageOp, Delete
<1>2. r < cells[0]
    BY <1>1 DEF Rows
<1>3. /\ Holds(Deleted(cells, r), f, K, {i}) /\ Holds(Deleted(cells, r), f, K, {})
      /\ Deleted(cells, r)[0] = cells[0]
      /\ Reaches(cells, DeleteRow(cells, r), Safe, Deleted(cells, r))
    BY <1>2, HoldsDeleted
<1> QED
    BY <1>1, <1>3

LEMMA StayStepPageOp ==
    ASSUME KVInv, StayInv, CountFits, PageOp, kills = 0
    PROVE  StayInv'
<1>1. /\ UNCHANGED <<cells, key2index_, keysSize, kills>> /\ up' = up
      /\ up /\ todo # <<>> /\ writes = <<>> /\ todo' = Tail(todo) /\ keysSize \in Nat
    BY DEF PageOp, KVInv
<1>2. cells \in Safe /\ Stage(cells)
    <2>1. PICK d : Reaches(cells, writes, Safe, d) /\ Stage(d)
        BY DEF StayInv
    <2>2. d = cells /\ cells \in Safe
        BY <1>1, <2>1, ReachedNothing
    <2> QED
        BY <2>1, <2>2
<1>3. cells[0] < MaxCell
    BY DEF CountFits, Rows
<1>4. SUFFICES \E d : Reaches(cells, writes', Safe, d) /\ Stage(d)'
    BY <1>1 DEF StayInv
<1>5. CASE \E i \in Nat : ErasesPair(cells, i)
    <2>1. PICK i \in Nat : ErasesPair(cells, i)
        BY <1>5
    <2>2. PICK r \in Nat : r = 2 * i
        OBVIOUS
    <2>3. todo = <<Delete(r), Delete(2 * i + 1)>>
        BY <2>1, <2>2 DEF ErasesPair
    <2>4. Head(todo) = Delete(r) /\ todo' = <<Delete(2 * i + 1)>>
        BY <1>1, <2>3
    <2>5. cells[0] = 2 * keysSize /\ Holds(cells, key2index_, DOMAIN key2index_, {i})
        BY <2>1 DEF ErasesPair, Done
    <2>6. PICK d : /\ Reaches(cells, writes', Safe, d) /\ d[0] = cells[0]
                   /\ Holds(d, key2index_, DOMAIN key2index_, {i})
        BY <1>2, <2>2, <2>4, <2>5, DeleteStep
    <2>7. ErasesValue(d, i)'
        BY <1>1, <2>4, <2>5, <2>6 DEF ErasesValue, Done
    <2> QED
        BY <2>6, <2>7 DEF Stage
<1>6. CASE \E i \in Nat : ErasesValue(cells, i)
    <2>1. PICK i \in Nat : ErasesValue(cells, i)
        BY <1>6
    <2>2. PICK r \in Nat : r = 2 * i + 1
        OBVIOUS
    <2>3. todo = <<Delete(r)>>
        BY <2>1, <2>2 DEF ErasesValue
    <2>4. Head(todo) = Delete(r) /\ todo' = <<>>
        BY <1>1, <2>3
    <2>5. cells[0] = 2 * keysSize /\ Holds(cells, key2index_, DOMAIN key2index_, {i})
        BY <2>1 DEF ErasesValue, Done
    <2>6. PICK d : /\ Reaches(cells, writes', Safe, d) /\ d[0] = cells[0]
                   /\ Holds(d, key2index_, DOMAIN key2index_, {})
        BY <1>2, <2>2, <2>4, <2>5, DeleteStep
    <2>7. Done(d, {})'
        BY <1>1, <2>5, <2>6 DEF Done
    <2> QED
        BY <2>4, <2>6, <2>7 DEF Stage
<1>7. CASE \E i \in Nat, k \in Keys, v \in Values : ReplacesPair(cells, i, k, v)
    <2>1. PICK i \in Nat, k \in Keys, v \in Values : ReplacesPair(cells, i, k, v)
        BY <1>7
    <2> DEFINE K == DOMAIN key2index_ \ {k}
    <2>2. PICK r \in Nat : r = 2 * i
        OBVIOUS
    <2>3. todo = <<Delete(r), Delete(2 * i + 1), Insert(k), Insert(v)>>
        BY <2>1, <2>2 DEF ReplacesPair
    <2>4. /\ Head(todo) = Delete(r)
          /\ todo' = <<Delete(2 * i + 1), Insert(k), Insert(v)>>
        BY <1>1, <2>3
    <2>5. /\ k \in DOMAIN key2index_ /\ key2index_[k] = keysSize - 1
          /\ cells[0] = 2 * (keysSize - 1)
          /\ Holds(cells, key2index_, K, {i})
        BY <2>1 DEF ReplacesPair, Lacking
    <2>6. PICK d : /\ Reaches(cells, writes', Safe, d) /\ d[0] = cells[0]
                   /\ Holds(d, key2index_, K, {i})
        BY <1>2, <2>2, <2>4, <2>5, DeleteStep
    <2>7. ReplacesValue(d, i, k, v)'
        BY <1>1, <2>4, <2>5, <2>6 DEF ReplacesValue, Lacking
    <2> QED
        BY <2>6, <2>7 DEF Stage
<1>8. CASE \E i \in Nat, k \in Keys, v \in Values : ReplacesValue(cells, i, k, v)
    <2>1. PICK i \in Nat, k \in Keys, v \in Values : ReplacesValue(cells, i, k, v)
        BY <1>8
    <2> DEFINE K == DOMAIN key2index_ \ {k}
    <2>2. PICK r \in Nat : r = 2 * i + 1
        OBVIOUS
    <2>3. todo = <<Delete(r), Insert(k), Insert(v)>>
        BY <2>1, <2>2 DEF ReplacesValue
    <2>4. Head(todo) = Delete(r) /\ todo' = <<Insert(k), Insert(v)>>
        BY <1>1, <2>3
    <2>5. /\ k \in DOMAIN key2index_ /\ key2index_[k] = keysSize - 1
          /\ cells[0] = 2 * (keysSize - 1)
          /\ Holds(cells, key2index_, K, {i})
        BY <2>1 DEF ReplacesValue, Lacking
    <2>6. PICK d : /\ Reaches(cells, writes', Safe, d) /\ d[0] = cells[0]
                   /\ Holds(d, key2index_, K, {})
        BY <1>2, <2>2, <2>4, <2>5, DeleteStep
    <2>7. InsertsPair(d, k, v)'
        BY <1>1, <2>4, <2>5, <2>6 DEF InsertsPair, Lacking
    <2> QED
        BY <2>6, <2>7 DEF Stage
<1>9. CASE \E k \in Keys, v \in Values : InsertsPair(cells, k, v)
    <2>1. PICK k \in Keys, v \in Values : InsertsPair(cells, k, v)
        BY <1>9
    <2> DEFINE K == DOMAIN key2index_ \ {k}
    <2>2. Head(todo) = Insert(k) /\ todo' = <<Insert(v)>>
        BY <1>1, <2>1 DEF InsertsPair
    <2>3. HasSpace(cells, k) /\ writes' = InsertRow(cells, k)
        BY <2>2 DEF PageOp, Insert
    <2>4. /\ k \in DOMAIN key2index_ /\ key2index_[k] = keysSize - 1
          /\ cells[0] = 2 * (keysSize - 1)
          /\ Holds(cells, key2index_, K, {})
        BY <2>1 DEF InsertsPair, Lacking
    <2>5. k \in Strings /\ Even(cells[0])
        <3>1. (2 * (keysSize - 1)) % 2 = 0
            BY <1>1
        <3> QED
            BY <2>4, <3>1 DEF Strings, Even
    <2>6. PICK d : /\ Reaches(cells, InsertRow(cells, k), Safe, d)
                   /\ Holds(d, key2index_, K, {})
                   /\ d[0] = cells[0] + 1 /\ GetRow(d, d[0] - 1) = k
        BY <1>2, <1>3, <2>3, <2>4, <2>5, HoldsKeyRow
    <2>7. LackingValue(d, k)'
        BY <1>1, <2>4, <2>6 DEF LackingValue
    <2>8. InsertsValue(d, k, v)'
        BY <2>2, <2>7 DEF InsertsValue
    <2> QED
        BY <2>3, <2>6, <2>8 DEF Stage
<1>10. CASE \E k \in Keys, v \in Values : InsertsValue(cells, k, v)
    <2>1. PICK k \in Keys, v \in Values : InsertsValue(cells, k, v)
        BY <1>10
    <2> DEFINE K == DOMAIN key2index_
    <2>2. Head(todo) = Insert(v) /\ todo' = <<>>
        BY <1>1, <2>1 DEF InsertsValue
    <2>3. HasSpace(cells, v) /\ writes' = InsertRow(cells, v)
        BY <2>2 DEF PageOp, Insert
    <2>4. /\ k \in K /\ key2index_[k] = keysSize - 1
          /\ cells[0] = 2 * (keysSize - 1) + 1
          /\ GetRow(cells, cells[0] - 1) = k
          /\ Holds(cells, key2index_, K \ {k}, {})
        BY <2>1 DEF InsertsValue, LackingValue
    <2>5. /\ k \in Strings /\ v \in Strings /\ ~Even(cells[0])
          /\ key2index_[k] = cells[0] \div 2
          /\ cells[0] + 1 = 2 * keysSize
        <3>1. /\ (2 * (keysSize - 1) + 1) % 2 = 1
              /\ (2 * (keysSize - 1) + 1) \div 2 = keysSize - 1
              /\ (2 * (keysSize - 1) + 1) + 1 = 2 * keysSize
            BY <1>1
        <3> QED
            BY <2>4, <3>1 DEF Strings, Even
    <2>6. PICK d : /\ Reaches(cells, InsertRow(cells, v), Safe, d)
                   /\ Holds(d, key2index_, K, {})
                   /\ d[0] = cells[0] + 1
        BY <1>2, <1>3, <2>3, <2>4, <2>5, HoldsValueRow
    <2>7. Done(d, {})'
        BY <1>1, <2>5, <2>6 DEF Done
    <2> QED
        BY <2>2, <2>3, <2>6, <2>7 DEF Stage
<1> QED
    BY <1>1, <1>2, <1>5, <1>6, <1>7, <1>8, <1>9, <1>10 DEF Stage

LEMMA StayStepWriteDigit ==
    ASSUME KVInv, StayInv, WriteDigit, kills = 0
    PROVE  StayInv'
<1>1. /\ UNCHANGED <<todo, key2index_, keysSize, kills>> /\ up' = up
      /\ up /\ writes # <<>> /\ writes' = Tail(writes) /\ cells' = Put(cells, Head(writes))
    BY DEF WriteDigit, Put
<1>2. PICK d : Reaches(cells, writes, Safe, d) /\ Stage(d)
    BY DEF StayInv
<1>3. Reaches(cells', writes', Safe, d)
    BY <1>1, <1>2, ReachNext
<1>4. Stage(d)'
    BY <1>1, <1>2
       DEF Stage, ErasesPair, ErasesValue, ReplacesPair, ReplacesValue,
           InsertsPair, InsertsValue, Done, Lacking, LackingValue
<1> QED
    BY <1>1, <1>3, <1>4 DEF StayInv

LEMMA StayStep == KVInv /\ StayInv /\ CountFits /\ [Next]_vars => StayInv'
<1> SUFFICES ASSUME KVInv, StayInv, CountFits, [Next]_vars PROVE StayInv'
    OBVIOUS
<1>0. kills \in Nat
    BY DEF KVInv
<1>1. CASE kills # 0
    <2>1. kills' = kills \/ kills' = kills + 1
        BY DEF Next, Set, Erase, PageOp, WriteDigit, AbortFull, Kill, Restart, vars
    <2>2. kills' # 0
        BY <1>0, <1>1, <2>1
    <2> QED
        BY <2>2 DEF StayInv
<1>2. CASE kills = 0 /\ \E k \in Keys : \E v \in Values : Set(k, v)
    BY <1>2, StayStepSet
<1>3. CASE kills = 0 /\ \E k \in Keys : Erase(k)
    BY <1>3, StayStepErase
<1>4. CASE kills = 0 /\ PageOp
    BY <1>4, StayStepPageOp
<1>5. CASE kills = 0 /\ WriteDigit
    BY <1>5, StayStepWriteDigit
<1>6. CASE kills = 0 /\ (AbortFull \/ Kill)
    <2>1. kills' = kills + 1
        BY <1>6 DEF AbortFull, Kill
    <2>2. kills' # 0
        BY <1>0, <2>1
    <2> QED
        BY <2>2 DEF StayInv
<1>7. CASE kills = 0 /\ Restart
    BY <1>7 DEF Restart, StayInv
<1>8. CASE UNCHANGED vars
    BY <1>8
       DEF vars, memory, StayInv, Stage, ErasesPair, ErasesValue, ReplacesPair,
           ReplacesValue, InsertsPair, InsertsValue, Done, Lacking, LackingValue
<1> QED
    BY <1>1, <1>2, <1>3, <1>4, <1>5, <1>6, <1>7, <1>8 DEF Next

\* In the first life of a master, whatever was set, overwritten and erased, its
\* keys are recoverable and the pair number kept for a key is where its pair is:
\* deleting a row damages no key row of another pair.
THEOREM PairsStay == Spec /\ []CountFits => []PairsStayFound
    BY StayInit, StayStep, AlwaysKVInv, StayInvFound, PTL DEF Spec
=============================================================================
