---------------------------- MODULE NumberLemmas ----------------------------
(***************************************************************************)
(* Lemmas about the natural numbers: division by a positive number,        *)
(* induction for sets in place of predicates, and what it says of          *)
(* functions defined by recursion.  Induction follows from the             *)
(* well-foundedness of the strict subset relation on finite sets: a number *)
(* n stands for the set 1 .. n.                                            *)
(***************************************************************************)
EXTENDS Integers, FiniteSetTheorems, WellFoundedInduction, TLAPS

\* Every set of natural numbers has a least element.
LEMMA LeastNatural ==
  ASSUME NEW T \in SUBSET Nat, T # {}
  PROVE  \E m \in T : \A k \in T : m <= k
  <1> DEFINE below == StrictSubsetOrdering(Nat)
             family == {1 .. k : k \in T}
  <1>1. IsWellFoundedOn(below, FiniteSubsetsOf(Nat))
    BY FS_StrictSubsetOrderingWellFounded
  <1>2. family \subseteq FiniteSubsetsOf(Nat) /\ family # {}
    <2>1. ASSUME NEW k \in T PROVE 1 .. k \in FiniteSubsetsOf(Nat)
      <3>1. IsFiniteSet(1 .. k)
        BY FS_Interval
      <3>2. 1 .. k \in SUBSET Nat
        OBVIOUS
      <3> QED
        BY <3>1, <3>2 DEF FiniteSubsetsOf
    <2> QED
      BY <2>1
  <1>3. PICK x \in family : \A y \in family : ~(<<y, x>> \in below)
    <2> HIDE DEF below, family
    <2> QED
      BY <1>1, <1>2, WFMin
  <1>4. PICK m \in T : x = 1 .. m
    BY <1>3
  <1>5. ASSUME NEW k \in T, k < m PROVE FALSE
    <2>1. 1 .. k \subseteq 1 .. m /\ 1 .. k # 1 .. m
      <3>1. m \in 1 .. m /\ m \notin 1 .. k
        BY <1>5
      <3> QED
        BY <1>5, <3>1
    <2>2. <<1 .. k, 1 .. m>> \in below
      BY <1>4, <1>5, <2>1 DEF StrictSubsetOrdering
    <2> QED
      BY <1>3, <1>4, <2>2
  <1> QED
    BY <1>5

\* A set of natural numbers that has 0, and with every n the next number up to
\* a bound, has them all.
LEMMA InductionUpTo ==
  ASSUME NEW N \in Nat, NEW S, 0 \in S, \A n \in 0 .. N - 1 : n \in S => n + 1 \in S
  PROVE  0 .. N \subseteq S
  <1> SUFFICES ASSUME (0 .. N) \ S # {} PROVE FALSE
    OBVIOUS
  <1>1. PICK m \in (0 .. N) \ S : \A k \in (0 .. N) \ S : m <= k
    <2>1. (0 .. N) \ S \in SUBSET Nat
      OBVIOUS
    <2> QED
      BY <2>1, LeastNatural
  <1>2. m # 0 /\ m - 1 \in 0 .. N - 1 /\ (m - 1) + 1 = m
    BY <1>1
  <1>3. m - 1 \in S
    BY <1>1, <1>2
  <1> QED
    BY <1>1, <1>2, <1>3

\* N functions on S, and the function that is got from base by applying them.
Steps(N, S) == [1 .. N -> [S -> S]]
IsRecursion(f, N, S, base, step) ==
    /\ f \in [0 .. N -> S]
    /\ f[0] = base
    /\ \A n \in 1 .. N : f[n] = step[n][f[n - 1]]

\* There is such a function.
LEMMA RecursionExists ==
  ASSUME NEW N \in Nat, NEW S, NEW base \in S, NEW step, step \in Steps(N, S)
  PROVE  \E f : IsRecursion(f, N, S, base, step)
  <1> DEFINE Defined(m) == \E f \in [0 .. m -> S] :
                             f[0] = base /\ \A n \in 1 .. m : f[n] = step[n][f[n - 1]]
             done == {m \in 0 .. N : Defined(m)}
  <1>0. step \in [1 .. N -> [S -> S]]
    BY DEF Steps
  <1>1. 0 \in done
    <2> DEFINE f == [n \in 0 .. 0 |-> base]
    <2>1. f \in [0 .. 0 -> S] /\ f[0] = base /\ 1 .. 0 = {}
      OBVIOUS
    <2> HIDE DEF f
    <2>2. Defined(0)
      BY <2>1
    <2> QED
      BY <2>2
  <1>2. ASSUME NEW m \in 0 .. N - 1, m \in done PROVE m + 1 \in done
    <2>1. PICK f \in [0 .. m -> S] : f[0] = base /\ \A n \in 1 .. m : f[n] = step[n][f[n - 1]]
      BY <1>2
    <2>2. m \in Nat /\ m + 1 \in 1 .. N /\ f[m] \in S
      OBVIOUS
    <2> DEFINE next == step[m + 1][f[m]]
               g == [n \in 0 .. m + 1 |-> IF n = m + 1 THEN next ELSE f[n]]
    <2>3. next \in S
      BY <1>0, <2>2
    <2> HIDE DEF next
    <2>4. g \in [0 .. m + 1 -> S]
      BY <2>2, <2>3
    <2>5. g[0] = base /\ g[m] = f[m] /\ g[m + 1] = next
      BY <2>1, <2>2
    <2>6. ASSUME NEW n \in 1 .. m + 1 PROVE g[n] = step[n][g[n - 1]]
      <3>1. CASE n = m + 1
        <4>1. n - 1 = m
          BY <2>2, <3>1
        <4> QED
          BY <2>5, <3>1, <4>1 DEF next
      <3>2. CASE n \in 1 .. m
        <4>1. g[n] = f[n] /\ g[n - 1] = f[n - 1]
          BY <2>2, <3>2
        <4> QED
          BY <2>1, <3>2, <4>1
      <3> QED
        BY <2>2, <3>1, <3>2
    <2> HIDE DEF g
    <2>7. Defined(m + 1)
      BY <2>4, <2>5, <2>6
    <2> QED
      BY <2>2, <2>7
  <1> HIDE DEF Defined
  <1>3. 0 .. N \subseteq done
    <2> HIDE DEF done
    <2> QED
      BY <1>1, <1>2, InductionUpTo
  <1>4. Defined(N)
    BY <1>3
  <1> QED
    BY <1>4 DEF Defined, IsRecursion

\* Division by a positive number.
LEMMA Divided ==
  ASSUME NEW a \in Int, NEW n \in Nat \ {0}
  PROVE  /\ a \div n \in Int /\ a % n \in 0 .. n - 1
         /\ a = n * (a \div n) + (a % n)
         /\ a >= 0 => a \div n \in Nat
  <1>1. /\ a \div n \in Int /\ a % n \in 0 .. n - 1
        /\ a = n * (a \div n) + (a % n)
    OBVIOUS
  <1>2. ASSUME a >= 0, a \div n <= -1 PROVE FALSE
    <2> DEFINE q == a \div n
    <2>1. q \in Int /\ a % n \in 0 .. n - 1 /\ a = n * q + (a % n) /\ q <= -1
      BY <1>1, <1>2
    <2> HIDE DEF q
    <2>2. n * q <= -n
      BY <2>1
    <2> QED
      BY <1>2, <2>1, <2>2
  <1> QED
    BY <1>1, <1>2

\* A quotient of natural numbers is one.
LEMMA QuotientInNat ==
  ASSUME NEW a \in Nat, NEW n \in Nat \ {0}
  PROVE  a \div n \in Nat
  <1>1. a \in Int /\ a >= 0
    OBVIOUS
  <1> QED
    BY <1>1, Divided

\* Two numbers below n that differ by a multiple of n are one.
LEMMA OneRemainder ==
  ASSUME NEW n \in Nat \ {0}, NEW r \in 0 .. n - 1, NEW s \in 0 .. n - 1, NEW q \in Int,
         r = n * q + s
  PROVE  r = s
  <1>1. CASE q = 0
    BY <1>1
  <1>2. CASE q >= 1
    <2>1. n * q >= n
      BY <1>2
    <2> QED
      BY <2>1
  <1>3. CASE q <= -1
    <2>1. n * q <= -n
      BY <1>3
    <2> QED
      BY <2>1
  <1> QED
    BY <1>1, <1>2, <1>3

\* Multiples of n.
LEMMA Multiples ==
  ASSUME NEW n \in Nat \ {0}, NEW q \in Int
  PROVE  /\ n * q \in Int /\ q * n = n * q
         /\ q <= -1 => n * q <= -n
         /\ q >= 0 => n * q >= 0
  OBVIOUS

\* A product with a difference, and one of a positive number that is zero.
LEMMA Differences ==
  ASSUME NEW n \in Nat \ {0}, NEW p \in Int, NEW q \in Int
  PROVE  /\ n * (p - q) = n * p - n * q /\ n * p \in Int /\ n * q \in Int
         /\ n * (p - q) = 0 => p = q
  <1>1. n * (p - q) = n * p - n * q /\ n * p \in Int /\ n * q \in Int
    OBVIOUS
  <1>2. ASSUME n * (p - q) = 0 PROVE p = q
    <2> DEFINE d == p - q
    <2>1. d \in Int /\ n * d = 0
      BY <1>2
    <2> HIDE DEF d
    <2>2. d >= 1 => n * d >= n
      BY <2>1
    <2>3. d <= -1 => n * d <= -n
      BY <2>1
    <2>4. d = 0
      BY <2>1, <2>2, <2>3
    <2> QED
      BY <2>4 DEF d
  <1> QED
    BY <1>1, <1>2

\* Quotient and remainder are the only pair of their kind.
LEMMA OneQuotient ==
  ASSUME NEW a \in Int, NEW n \in Nat \ {0}, NEW q \in Int, NEW r \in 0 .. n - 1, a = n * q + r
  PROVE  a \div n = q /\ a % n = r
  <1> DEFINE p == a \div n
             s == a % n
  <1>1. p \in Int /\ s \in 0 .. n - 1 /\ a = n * p + s
    BY Divided
  <1> HIDE DEF p, s
  <1>2. n * (p - q) = n * p - n * q /\ n * p \in Int /\ n * q \in Int /\ p - q \in Int
    BY <1>1, Differences
  <1>3. r = n * (p - q) + s
    BY <1>1, <1>2
  <1>4. r = s
    BY <1>1, <1>2, <1>3, OneRemainder
  <1>5. p = q
    <2>1. n * (p - q) = 0
      BY <1>1, <1>2, <1>3, <1>4
    <2> QED
      BY <1>1, <2>1, Differences
  <1> QED
    BY <1>4, <1>5 DEF p, s

\* A division in two steps. The two results have names: a proof that cites the
\* lemma meets no product and no quotient until it opens them.
DividesInTurn(a, m, n) == a \div (m * n) = (a \div m) \div n
RemainsInTurn(a, m, n) == a % (m * n) = m * ((a \div m) % n) + (a % m)

LEMMA DivisionInTurn ==
  ASSUME NEW a \in Int, NEW m \in Nat \ {0}, NEW n \in Nat \ {0}
  PROVE  DividesInTurn(a, m, n) /\ RemainsInTurn(a, m, n)
  <1> DEFINE p == a \div m
             r == a % m
             q == p \div n
             s == p % n
             mn == m * n
             ms == m * s
  <1>1. p \in Int /\ r \in 0 .. m - 1 /\ a = m * p + r
    BY Divided
  <1>2. q \in Int /\ s \in 0 .. n - 1 /\ p = n * q + s
    <2> HIDE DEF p
    <2> QED
      BY <1>1, Divided
  <1> HIDE DEF p, r, q, s
  <1>3. m * p = mn * q + ms /\ mn \in Nat \ {0} /\ ms \in Int /\ mn * q \in Int
    <2>1. m * (n * q + s) = m * n * q + m * s
      BY <1>1, <1>2
    <2>2. mn \in Nat \ {0} /\ ms \in Int /\ mn * q \in Int
      BY <1>2
    <2> QED
      BY <1>2, <2>1, <2>2
  <1>4. 0 <= ms /\ ms <= mn - m
    <2>1. m * s <= m * (n - 1) /\ m * (n - 1) = m * n - m
      BY <1>2
    <2> QED
      BY <1>2, <2>1
  <1> HIDE DEF mn, ms
  <1>5. ms + r \in 0 .. mn - 1
    BY <1>1, <1>3, <1>4
  <1>6. a = mn * q + (ms + r)
    BY <1>1, <1>3
  <1>7. a \div mn = q /\ a % mn = ms + r
    BY <1>2, <1>3, <1>5, <1>6, OneQuotient
  <1>8. DividesInTurn(a, m, n)
    BY <1>7, Zenon DEF mn, q, p, DividesInTurn
  <1>9. RemainsInTurn(a, m, n)
    BY <1>7, Zenon DEF mn, ms, s, p, r, RemainsInTurn
  <1> QED
    BY <1>8, <1>9

\* A finite set has subsets of every size up to its own.
LEMMA SubsetOfSize ==
  ASSUME NEW S, IsFiniteSet(S), NEW k \in 0 .. Cardinality(S)
  PROVE  \E T \in SUBSET S : Cardinality(T) = k
  <1> DEFINE size == Cardinality(S)
             sizes == {m \in 0 .. size : \E T \in SUBSET S : IsFiniteSet(T) /\ Cardinality(T) = m}
  <1>1. size \in Nat
    BY FS_CardinalityType
  <1>2. 0 \in sizes
    BY <1>1, FS_EmptySet
  <1>3. ASSUME NEW m \in 0 .. size - 1, m \in sizes PROVE m + 1 \in sizes
    <2>1. PICK T \in SUBSET S : IsFiniteSet(T) /\ Cardinality(T) = m
      BY <1>3
    <2>2. PICK x \in S : x \notin T
      BY <1>1, <2>1
    <2>3. IsFiniteSet(T \cup {x}) /\ Cardinality(T \cup {x}) = m + 1 /\ T \cup {x} \in SUBSET S
      BY <2>1, <2>2, FS_AddElement
    <2> QED
      BY <1>1, <2>3
  <1>4. 0 .. size \subseteq sizes
    <2> HIDE DEF sizes, size
    <2> QED
      BY <1>1, <1>2, <1>3, InductionUpTo
  <1> QED
    BY <1>4

\* Finitely many natural numbers are bounded.
LEMMA NumbersAreBounded ==
  ASSUME NEW N \in Nat, NEW f, \A n \in 1 .. N : f[n] \in Nat
  PROVE  \E top \in Nat : \A n \in 1 .. N : f[n] <= top
  <1> DEFINE Bounded(m, top) == \A n \in 1 .. m : f[n] <= top
             bounded == {m \in 0 .. N : \E top \in Nat : Bounded(m, top)}
  <1>1. 0 \in bounded
    <2>1. Bounded(0, 0) /\ 0 \in Nat /\ 0 \in 0 .. N
      OBVIOUS
    <2> HIDE DEF Bounded
    <2> QED
      BY <2>1
  <1>2. ASSUME NEW m \in 0 .. N - 1, m \in bounded PROVE m + 1 \in bounded
    <2>1. PICK top \in Nat : Bounded(m, top)
      BY <1>2
    <2>2. m + 1 \in 1 .. N /\ m + 1 \in 0 .. N /\ f[m + 1] \in Nat /\ top + f[m + 1] \in Nat
      OBVIOUS
    <2>3. Bounded(m + 1, top + f[m + 1])
      <3> SUFFICES ASSUME NEW n \in 1 .. m + 1 PROVE f[n] <= top + f[m + 1]
        OBVIOUS
      <3>1. f[n] \in Nat /\ (n = m + 1 \/ n \in 1 .. m)
        OBVIOUS
      <3> QED
        BY <2>1, <2>2, <3>1
    <2> HIDE DEF Bounded
    <2> QED
      BY <2>2, <2>3
  <1>3. 0 .. N \subseteq bounded
    <2> HIDE DEF bounded
    <2> QED
      BY <1>1, <1>2, InductionUpTo
  <1>4. \E top \in Nat : Bounded(N, top)
    <2> HIDE DEF Bounded
    <2> QED
      BY <1>3
  <1> QED
    BY <1>4

=============================================================================
