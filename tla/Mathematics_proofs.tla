------------------------- MODULE Mathematics_proofs -------------------------
(***************************************************************************)
(* The mathematics that the proofs about oracles and designs need and that *)
(* the library does not state in a form the provers can use: induction and *)
(* recursion on the numbers, powers of 2, divisors, folds, loops.          *)
(***************************************************************************)
EXTENDS Integers, SequencesExt, FiniteSetsExt, TLAPS, FiniteSetTheorems, SequenceTheorems

\* A set of natural numbers that is not empty has a smallest element.
LEMMA Smallest ==
  ASSUME NEW T, T \subseteq Nat, T # {}
  PROVE  \E m \in T : \A n \in T : m <= n
<1>1. IsWellFoundedOn(OpToRel(<, Nat), Nat)
  BY NatLessThanWellFounded
<1>2. PICK m \in T : \A n \in T : <<n, m>> \notin OpToRel(<, Nat)
  BY <1>1, WFMin, Zenon
<1>3. \A n \in T : ~ (n < m)
  BY <1>2 DEF OpToRel
<1> QED
  BY <1>3

\* Induction, for the elements of a set: the induction rule of the library takes a
\* predicate as a parameter, which the provers cannot instantiate, a set they can.
LEMMA Induction ==
  ASSUME NEW S, 0 \in S, \A n \in Nat : n \in S => n + 1 \in S
  PROVE  \A n \in Nat : n \in S
<1> SUFFICES ASSUME Nat \ S # {} PROVE FALSE
  OBVIOUS
<1>1. PICK m \in Nat \ S : \A n \in Nat \ S : m <= n
  BY Smallest
<1>2. m - 1 \in Nat /\ m - 1 \in S
  BY <1>1
<1> QED
  BY <1>2, <1>1

\* f is the beginning, up to n, of the sequence that starts with a and is continued
\* by h, which is given the index and the last element.
Follows(S, a, h, n, f) ==
  /\ f \in [0 .. n -> S] /\ f[0] = a
  /\ \A i \in 0 .. n - 1 : f[i + 1] = h[<<i, f[i]>>]

\* Such beginnings exist for every n.
LEMMA Approximations ==
  ASSUME NEW S, NEW a \in S, NEW h, \A n \in Nat, s \in S : h[<<n, s>>] \in S
  PROVE  \A n \in Nat : \E f : Follows(S, a, h, n, f)
<1> DEFINE Defined == {n \in Nat : \E f : Follows(S, a, h, n, f)}
<1>1. 0 \in Defined
  <2>1. Follows(S, a, h, 0, [i \in 0 .. 0 |-> a])
    BY DEF Follows
  <2> QED
    BY <2>1
<1>2. ASSUME NEW n \in Nat, n \in Defined
      PROVE  n + 1 \in Defined
  <2>1. PICK f : Follows(S, a, h, n, f)
    BY <1>2
  <2> DEFINE g == [i \in 0 .. n + 1 |-> IF i = n + 1 THEN h[<<n, f[n]>>] ELSE f[i]]
  <2>2. f \in [0 .. n -> S] /\ f[n] \in S /\ h[<<n, f[n]>>] \in S
    <3>1. f \in [0 .. n -> S] /\ f[n] \in S
      BY <2>1 DEF Follows
    <3> QED
      BY <3>1
  <2>3. g \in [0 .. n + 1 -> S] /\ g[0] = a
    BY <2>1, <2>2 DEF Follows
  <2>4. \A i \in 0 .. n : g[i + 1] = h[<<i, g[i]>>]
    <3> TAKE i \in 0 .. n
    <3>1. g[i] = f[i] /\ g[i + 1] = IF i = n THEN h[<<n, f[n]>>] ELSE f[i + 1]
      OBVIOUS
    <3> HIDE DEF g
    <3> QED
      BY <2>1, <3>1 DEF Follows
  <2> HIDE DEF g
  <2>5. Follows(S, a, h, n + 1, g)
    BY <2>3, <2>4 DEF Follows
  <2> QED
    BY <2>5
<1> HIDE DEF Defined
<1>3. \A n \in Nat : n \in Defined
  BY <1>1, <1>2, Induction
<1> QED
  BY <1>3 DEF Defined

\* g is the whole sequence.
Iterates(S, a, h, g) ==
  g \in [Nat -> S] /\ g[0] = a /\ \A n \in Nat : g[n + 1] = h[<<n, g[n]>>]

\* The sequence exists: a function on Nat may be defined by recursion.
LEMMA Recursion ==
  ASSUME NEW S, NEW a \in S, NEW h, \A n \in Nat, s \in S : h[<<n, s>>] \in S
  PROVE  \E g : Iterates(S, a, h, g)
<1> DEFINE Chosen(n) == CHOOSE f : Follows(S, a, h, n, f)
<1>1. \A n \in Nat : Follows(S, a, h, n, Chosen(n))
  BY Approximations
<1> HIDE DEF Chosen
<1>2. ASSUME NEW n \in Nat
      PROVE  Chosen(n + 1)[n] = Chosen(n)[n]
  <2> DEFINE f == Chosen(n)  g == Chosen(n + 1)
             Same == {i \in Nat : i <= n => g[i] = f[i]}
  <2>1. Follows(S, a, h, n, f) /\ Follows(S, a, h, n + 1, g)
    BY <1>1
  <2> HIDE DEF f, g
  <2>2. 0 \in Same
    BY <2>1 DEF Follows
  <2>3. \A i \in Nat : i < n => f[i + 1] = h[<<i, f[i]>>] /\ g[i + 1] = h[<<i, g[i]>>]
    BY <2>1 DEF Follows
  <2>4. ASSUME NEW i \in Nat, i \in Same
        PROVE  i + 1 \in Same
    <3>1. CASE i < n
      <4>1. g[i] = f[i]
        BY <2>4, <3>1
      <4>2. f[i + 1] = h[<<i, f[i]>>] /\ g[i + 1] = h[<<i, g[i]>>]
        BY <2>3, <3>1
      <4>3. g[i + 1] = f[i + 1]
        BY <4>1, <4>2
      <4> QED
        BY <4>3
    <3>2. CASE ~ (i < n)
      BY <3>2
    <3> QED
      BY <3>1, <3>2
  <2> HIDE DEF Same
  <2>5. n \in Same
    BY <2>2, <2>4, Induction
  <2> QED
    BY <2>5 DEF Same, f, g
<1> DEFINE g == [n \in Nat |-> Chosen(n)[n]]
<1>3. \A n \in Nat : g[n] = Chosen(n)[n]
  OBVIOUS
<1>4. \A n \in Nat : Chosen(n)[n] \in S
  BY <1>1 DEF Follows
<1>5. g \in [Nat -> S]
  BY <1>4
<1> HIDE DEF g
<1>6. g[0] = a
  BY <1>1, <1>3 DEF Follows
<1>7. ASSUME NEW n \in Nat
      PROVE  g[n + 1] = h[<<n, g[n]>>]
  <2>1. Chosen(n + 1)[n + 1] = h[<<n, Chosen(n + 1)[n]>>]
    BY <1>1 DEF Follows
  <2> QED
    BY <2>1, <1>2, <1>3
<1> QED
  BY <1>5, <1>6, <1>7 DEF Iterates

-----------------------------------------------------------------------------
\* Powers of 2.

\* What defines 2 ^ n for the provers: the number of subsets of n elements.
LEMMA PowOfCardinality ==
  ASSUME NEW n \in Nat
  PROVE  /\ IsFiniteSet(1 .. n) /\ IsFiniteSet(SUBSET (1 .. n))
         /\ Cardinality(SUBSET (1 .. n)) = 2 ^ n
<1>1. IsFiniteSet(1 .. n) /\ Cardinality(1 .. n) = n
  BY FS_Interval
<1> QED
  BY <1>1, FS_SUBSET

\* 2 ^ n is a number,
LEMMA PowNat == \A n \in Nat : 2 ^ n \in Nat
BY PowOfCardinality, FS_CardinalityType

\* doubles with n,
LEMMA PowNext == \A n \in Nat : 2 ^ (n + 1) = 2 * 2 ^ n
<1> TAKE n \in Nat
<1> DEFINE A == SUBSET (1 .. n)
           B == {s \in SUBSET (1 .. n + 1) : n + 1 \in s}
           f == [s \in A |-> s \cup {n + 1}]
<1>1. SUBSET (1 .. n + 1) = A \cup B /\ A \cap B = {}
  <2>1. 1 .. n + 1 = (1 .. n) \cup {n + 1} /\ n + 1 \notin 1 .. n
    OBVIOUS
  <2> QED
    BY <2>1
<1>2. ExistsBijection(A, B)
  <2>1. f \in [A -> B]
    BY SMT
  <2>2. \A s, t \in A : f[s] = f[t] => s = t
    <3>1. \A s \in A : n + 1 \notin s
      OBVIOUS
    <3>2. \A s \in A : s = f[s] \ {n + 1}
      BY <3>1
    <3> HIDE DEF f, A
    <3> QED
      BY <3>2
  <2>3. \A t \in B : \E s \in A : f[s] = t
    <3> TAKE t \in B
    <3>1. t \ {n + 1} \in A /\ t = (t \ {n + 1}) \cup {n + 1}
      OBVIOUS
    <3> WITNESS t \ {n + 1} \in A
    <3> QED
      BY <3>1
  <2> HIDE DEF f, A, B
  <2> QED
    BY <2>1, <2>2, <2>3 DEF ExistsBijection, Bijection, Injection, Surjection, IsInjective
<1>3. IsFiniteSet(A) /\ Cardinality(A) = 2 ^ n
  BY PowOfCardinality
<1>4. n + 1 \in Nat
  OBVIOUS
<1>5. Cardinality(SUBSET (1 .. n + 1)) = 2 ^ (n + 1)
  BY <1>4, PowOfCardinality, Zenon
<1> HIDE DEF A, B
<1>6. IsFiniteSet(B) /\ Cardinality(B) = 2 ^ n
  BY <1>2, <1>3, FS_Bijection
<1>7. 2 ^ (n + 1) = 2 ^ n + 2 ^ n - Cardinality({})
  BY <1>1, <1>3, <1>5, <1>6, FS_Union, Zenon
<1> QED
  BY <1>7, PowNat, FS_EmptySet

\* is at least 1,
LEMMA PowPositive == \A n \in Nat : 2 ^ n \in Nat /\ 1 <= 2 ^ n
<1> DEFINE S == {n \in Nat : 1 <= 2 ^ n}
<1>1. 0 \in S
  OBVIOUS
<1>2. \A n \in Nat : n \in S => n + 1 \in S
  BY PowNext, PowNat
<1> HIDE DEF S
<1>3. \A n \in Nat : n \in S
  BY <1>1, <1>2, Induction
<1> QED
  BY <1>3, PowNat DEF S

\* multiplies when exponents are added,
LEMMA PowSum == \A m, n \in Nat : 2 ^ (m + n) = 2 ^ m * 2 ^ n
<1> TAKE m \in Nat
<1> DEFINE S == {n \in Nat : 2 ^ (m + n) = 2 ^ m * 2 ^ n}
<1>1. 0 \in S
  BY PowPositive
<1>2. ASSUME NEW n \in Nat, n \in S
      PROVE  n + 1 \in S
  <2>1. 2 ^ (m + (n + 1)) = 2 * 2 ^ (m + n)
    <3>1. m + n \in Nat /\ m + (n + 1) = (m + n) + 1
      OBVIOUS
    <3> QED
      BY <3>1, PowNext, Zenon
  <2>2. 2 ^ (n + 1) = 2 * 2 ^ n
    BY PowNext
  <2>3. 2 ^ m \in Nat /\ 2 ^ n \in Nat
    BY PowPositive
  <2>4. 2 ^ (m + n) = 2 ^ m * 2 ^ n
    BY <1>2
  <2>5. 2 ^ m * (2 * 2 ^ n) = 2 * (2 ^ m * 2 ^ n)
    BY <2>3
  <2> QED
    BY <2>1, <2>2, <2>4, <2>5
<1> HIDE DEF S
<1>3. \A n \in Nat : n \in S
  BY <1>1, <1>2, Induction
<1> QED
  BY <1>3 DEF S

\* and grows with n.
LEMMA PowGrows == \A m, n \in Nat : m <= n => 2 ^ m <= 2 ^ n
<1> TAKE m, n \in Nat
<1> HAVE m <= n
<1> DEFINE k == n - m
<1>1. k \in Nat /\ n = m + k
  OBVIOUS
<1> HIDE DEF k
<1>2. 2 ^ n = 2 ^ m * 2 ^ k
  BY <1>1, PowSum
<1>3. 2 ^ m \in Nat /\ 2 ^ k \in Nat /\ 1 <= 2 ^ k
  BY <1>1, PowPositive
<1>4. \A a, b \in Nat : 1 <= b => a <= a * b
  OBVIOUS
<1> QED
  BY <1>2, <1>3, <1>4

-----------------------------------------------------------------------------
\* Greatest and least elements.

\* What Max and Min of the community modules return.
LEMMA Greatest ==
  ASSUME NEW n \in Nat, NEW s, s \subseteq 0 .. n, s # {}
  PROVE  Max(s) \in s /\ \A y \in s : y <= Max(s)
<1> DEFINE T == {k \in Nat : n - k \in s}
<1>1. PICK y \in s : TRUE
  OBVIOUS
<1>2. n - y \in T
  BY <1>1
<1> HIDE DEF T
<1>3. PICK k \in T : \A j \in T : k <= j
  <2>1. T \subseteq Nat
    BY DEF T
  <2> QED
    BY <1>2, <2>1, Smallest
<1>4. n - k \in s /\ k \in Nat
  BY DEF T
<1>5. ASSUME NEW z \in s PROVE z <= n - k
  <2>1. n - z \in T
    BY DEF T
  <2> QED
    BY <2>1, <1>3, <1>4
<1> QED
  BY <1>4, <1>5 DEF Max

LEMMA Least ==
  ASSUME NEW s, s \subseteq Nat, s # {}
  PROVE  Min(s) \in s /\ \A y \in s : Min(s) <= y
BY Smallest DEF Min

-----------------------------------------------------------------------------
\* Divisors.

\* d is a divisor of n.
Divides(d, n) == \E k \in Nat : n = k * d

\* Division with remainder.
LEMMA Division ==
  ASSUME NEW x \in Nat, NEW y \in Nat, y # 0
  PROVE  x = (x \div y) * y + (x % y) /\ x \div y \in Nat /\ x % y \in Nat /\ x % y < y
OBVIOUS

\* Divisors of two numbers divide their sums,
LEMMA DividesSum ==
  ASSUME NEW d \in Nat, NEW m \in Nat, NEW n \in Nat, NEW k \in Nat,
         Divides(d, m), Divides(d, n)
  PROVE  Divides(d, k * m + n)
<1>1. PICK i \in Nat : m = i * d
  BY DEF Divides
<1>2. PICK j \in Nat : n = j * d
  BY DEF Divides
<1>3. k * (i * d) + j * d = (k * i + j) * d /\ k * i + j \in Nat
  OBVIOUS
<1> QED
  BY <1>1, <1>2, <1>3 DEF Divides

\* differences
LEMMA DividesDifference ==
  ASSUME NEW d \in Nat, NEW m \in Nat, NEW n \in Nat, n <= m,
         Divides(d, m), Divides(d, n)
  PROVE  Divides(d, m - n)
<1>1. PICK i \in Nat : m = i * d
  BY DEF Divides
<1>2. PICK j \in Nat : n = j * d
  BY DEF Divides
<1>3. i * d - j * d = (i - j) * d
  OBVIOUS
<1>4. CASE j <= i
  <2>1. i - j \in Nat
    BY <1>4
  <2> QED
    BY <1>1, <1>2, <1>3, <2>1 DEF Divides
<1>5. CASE i < j
  <2>1. i * d <= j * d
    BY <1>5
  <2>2. m - n = 0 * d
    BY <1>1, <1>2, <2>1
  <2> QED
    BY <2>2 DEF Divides
<1> QED
  BY <1>4, <1>5

\* and products,
LEMMA DividesProduct ==
  ASSUME NEW d \in Nat, NEW m \in Nat, NEW k \in Nat, Divides(d, m)
  PROVE  Divides(d, k * m)
<1>1. PICK i \in Nat : m = i * d
  BY DEF Divides
<1>2. k * (i * d) = (k * i) * d /\ k * i \in Nat
  OBVIOUS
<1> QED
  BY <1>1, <1>2 DEF Divides

\* and are no greater than a number that is not 0.
LEMMA DividesBounds ==
  ASSUME NEW d \in Nat, NEW n \in Nat, n # 0, Divides(d, n)
  PROVE  1 <= d /\ d <= n
<1>1. PICK k \in Nat : n = k * d
  BY DEF Divides
<1>2. k # 0 /\ d # 0
  BY <1>1
<1>3. \A i \in Nat : i # 0 => d <= i * d
  OBVIOUS
<1> QED
  BY <1>1, <1>2, <1>3

\* Divisors leave no remainder.
LEMMA DividesAsMod ==
  ASSUME NEW d \in Nat, NEW n \in Nat, d # 0
  PROVE  Divides(d, n) <=> n % d = 0
<1>1. n = (n \div d) * d + (n % d) /\ n \div d \in Nat
  BY Division
<1>2. ASSUME NEW k \in Nat, n = k * d
      PROVE  n % d = 0
  BY <1>2
<1>3. ASSUME n % d = 0
      PROVE  n = (n \div d) * d
  BY <1>1, <1>3
<1> QED
  BY <1>1, <1>2, <1>3 DEF Divides

-----------------------------------------------------------------------------
\* Folds over sequences.

\* The recursion over sets of indices that FoldLeft stands for, with values in S:
\* the greatest index is folded last.
FoldStep(n, S, b, h, F) ==
  [s \in SUBSET (1 .. n) |-> IF s = {} THEN b ELSE h[<<Max(s), F[s \ {Max(s)}]>>]]

\* The greatest index of a set that is not empty, and what is left without it.
LEMMA MaxOfIndices ==
  ASSUME NEW n \in Nat, NEW s \in SUBSET (1 .. n), s # {}
  PROVE  /\ Max(s) \in s /\ Max(s) \in 1 .. n
         /\ s \ {Max(s)} \subseteq 1 .. n - 1 /\ s \ {Max(s)} \subseteq 1 .. n
<1>1. s \subseteq 0 .. n
  OBVIOUS
<1>2. Max(s) \in s /\ \A y \in s : y <= Max(s)
  BY <1>1, Greatest, Zenon
<1>3. Max(s) \in 1 .. n
  BY <1>2
<1>4. \A y \in s \ {Max(s)} : y \in 1 .. n - 1
  <2> TAKE y \in s \ {Max(s)}
  <2>1. y \in 1 .. n /\ y <= Max(s) /\ y # Max(s)
    BY <1>2
  <2> QED
    BY <2>1, <1>3
<1> QED
  BY <1>2, <1>3, <1>4

\* There is a function that satisfies this recursion.
LEMMA FoldExists ==
  ASSUME NEW n \in Nat, NEW S, NEW b \in S, NEW h,
         \A k \in 1 .. n, s \in S : h[<<k, s>>] \in S
  PROVE  \E F \in [SUBSET (1 .. n) -> S] : F = FoldStep(n, S, b, h, F)
<1> DEFINE Fs == [SUBSET (1 .. n) -> S]
<1>1. ASSUME NEW F \in Fs
      PROVE  FoldStep(n, S, b, h, F) \in Fs
  <2>1. ASSUME NEW s \in SUBSET (1 .. n), s # {}
        PROVE  h[<<Max(s), F[s \ {Max(s)}]>>] \in S
    <3>1. Max(s) \in 1 .. n /\ s \ {Max(s)} \in SUBSET (1 .. n)
      BY <2>1, MaxOfIndices
    <3> QED
      BY <3>1
  <2> QED
    BY <2>1 DEF FoldStep
<1>2. PICK first \in Fs : first[{}] = b
  <2>1. [s \in SUBSET (1 .. n) |-> b] \in Fs
    OBVIOUS
  <2> QED
    BY <2>1
<1>3. PICK step : \A k \in Nat, F \in Fs : step[<<k, F>>] = FoldStep(n, S, b, h, F)
  <2> DEFINE st == [p \in Nat \X Fs |-> FoldStep(n, S, b, h, p[2])]
  <2>1. \A k \in Nat, F \in Fs : st[<<k, F>>] = FoldStep(n, S, b, h, F)
    OBVIOUS
  <2> HIDE DEF st
  <2> QED
    BY <2>1
<1>4. \A k \in Nat, F \in Fs : step[<<k, F>>] \in Fs
  BY <1>1, <1>3
<1> HIDE DEF Fs
<1>5. PICK g : Iterates(Fs, first, step, g)
  BY <1>4, Recursion
<1>6. g \in [Nat -> Fs] /\ g[0] = first /\ \A k \in Nat : g[k + 1] = step[<<k, g[k]>>]
  BY <1>5 DEF Iterates
<1>7. \A k \in Nat : g[k] \in Fs /\ g[k + 1] = FoldStep(n, S, b, h, g[k])
  BY <1>6, <1>3
<1> DEFINE Fixed == {k \in Nat : k <= n => \A s \in SUBSET (1 .. k) : g[k + 1][s] = g[k][s]}
<1>8. 0 \in Fixed
  <2>1. \A s \in SUBSET (1 .. 0) : s = {}
    OBVIOUS
  <2>2. g[0 + 1][{}] = b
    BY <1>7 DEF FoldStep
  <2> QED
    BY <2>1, <2>2, <1>2, <1>6
<1>9. ASSUME NEW k \in Nat, k \in Fixed
      PROVE  k + 1 \in Fixed
  <2>1. ASSUME k + 1 <= n, NEW s \in SUBSET (1 .. k + 1)
        PROVE  g[(k + 1) + 1][s] = g[k + 1][s]
    <3>1. s \in SUBSET (1 .. n)
      BY <2>1
    <3>2. /\ g[k + 1][s] = IF s = {} THEN b ELSE h[<<Max(s), g[k][s \ {Max(s)}]>>]
          /\ g[(k + 1) + 1][s] = IF s = {} THEN b ELSE h[<<Max(s), g[k + 1][s \ {Max(s)}]>>]
      <4>1. k + 1 \in Nat
        OBVIOUS
      <4> QED
        BY <1>7, <3>1, <4>1 DEF FoldStep
    <3>3. CASE s = {}
      BY <3>2, <3>3
    <3>4. CASE s # {}
      <4>1. s \ {Max(s)} \in SUBSET (1 .. k)
        <5>1. k + 1 \in Nat /\ (k + 1) - 1 = k
          OBVIOUS
        <5> QED
          BY <3>4, <5>1, MaxOfIndices, <2>1
      <4>2. g[k + 1][s \ {Max(s)}] = g[k][s \ {Max(s)}]
        BY <4>1, <1>9, <2>1
      <4> QED
        BY <3>2, <3>4, <4>2
    <3> QED
      BY <3>3, <3>4
  <2>2. k + 1 \in Nat
    OBVIOUS
  <2> QED
    BY <2>1, <2>2, Zenon
<1> HIDE DEF Fixed
<1>10. n \in Fixed
  BY <1>8, <1>9, Induction
<1>11. \A s \in SUBSET (1 .. n) : FoldStep(n, S, b, h, g[n])[s] = g[n][s]
  BY <1>10, <1>7 DEF Fixed
<1>12. FoldStep(n, S, b, h, g[n]) \in Fs /\ g[n] \in Fs
  BY <1>7, <1>1
<1>13. g[n] = FoldStep(n, S, b, h, g[n])
  BY <1>11, <1>12 DEF Fs
<1> QED
  BY <1>12, <1>13 DEF Fs

\* Two recursions over the first indices that agree on the empty set and keep
\* agreeing are the same.
LEMMA FoldOfIndices ==
  ASSUME NEW n \in Nat, NEW c, NEW F, c[{}] = F[0],
         \A k \in 0 .. n - 1 : c[1 .. k] = F[k] => c[1 .. k + 1] = F[k + 1]
  PROVE  c[1 .. n] = F[n]
<1> DEFINE Same == {k \in Nat : k <= n => c[1 .. k] = F[k]}
<1>1. 0 \in Same
  <2>1. 1 .. 0 = {}
    OBVIOUS
  <2> QED
    BY <2>1
<1>2. \A k \in Nat : k \in Same => k + 1 \in Same
  OBVIOUS
<1> HIDE DEF Same
<1>3. n \in Same
  BY <1>1, <1>2, Induction
<1> QED
  BY <1>3 DEF Same

\* Of the first k + 1 indices the greatest is k + 1.
LEMMA IndicesNext ==
  ASSUME NEW k \in Nat
  PROVE  1 .. k + 1 # {} /\ Max(1 .. k + 1) = k + 1 /\ (1 .. k + 1) \ {k + 1} = 1 .. k
<1>1. 1 .. k + 1 # {} /\ (1 .. k + 1) \ {k + 1} = 1 .. k
  OBVIOUS
<1>2. Max(1 .. k + 1) \in 1 .. k + 1 /\ \A y \in 1 .. k + 1 : y <= Max(1 .. k + 1)
  <2>1. k + 1 \in Nat /\ 1 .. k + 1 \subseteq 0 .. k + 1
    OBVIOUS
  <2> QED
    BY <1>1, <2>1, Greatest
<1> QED
  BY <1>1, <1>2

-----------------------------------------------------------------------------
\* Words as sequences of digits.

\* Words of w digits are the sequences of length w, and back.
LEMMA SequencesAsBits ==
  ASSUME NEW B, NEW s \in Seq(B), NEW w \in Nat, Len(s) = w
  PROVE  s \in [1 .. w -> B]
BY LenProperties

LEMMA BitsAsSequences ==
  ASSUME NEW B, NEW w \in Nat, NEW x \in [1 .. w -> B]
  PROVE  x \in Seq(B) /\ Len(x) = w /\ DOMAIN x = 1 .. w
OBVIOUS

\* Words with the same digits are the same.
LEMMA SameBits ==
  ASSUME NEW B, NEW w \in Nat, NEW x \in [1 .. w -> B], NEW y \in [1 .. w -> B],
         \A i \in 1 .. w : x[i] = y[i]
  PROVE  x = y
OBVIOUS

\* The first n digits,
LEMMA FirstBits ==
  ASSUME NEW B, NEW w \in Nat, NEW x \in [1 .. w -> B], NEW n \in 0 .. w
  PROVE  /\ SubSeq(x, 1, n) \in [1 .. n -> B]
         /\ \A i \in 1 .. n : SubSeq(x, 1, n)[i] = x[i]
<1>1. x \in Seq(B) /\ Len(x) = w
  OBVIOUS
<1>2. SubSeq(x, 1, n) \in Seq(B) /\ Len(SubSeq(x, 1, n)) = n
  BY <1>1
<1>3. \A i \in 1 .. n : SubSeq(x, 1, n)[i] = x[i]
  BY <1>1
<1>4. SubSeq(x, 1, n) \in [1 .. n -> B]
  <2>1. n \in Nat
    OBVIOUS
  <2> QED
    BY <1>2, <2>1, SequencesAsBits
<1> QED
  BY <1>3, <1>4

\* the digits from m to n,
LEMMA Slice ==
  ASSUME NEW B, NEW w \in Nat, NEW x \in [1 .. w -> B], NEW m \in 1 .. w + 1, NEW n \in m - 1 .. w
  PROVE  /\ SubSeq(x, m, n) \in Seq(B) /\ Len(SubSeq(x, m, n)) = n - m + 1
         /\ SubSeq(x, m, n) = [k \in 1 .. n - m + 1 |-> x[m + k - 1]]
<1>1. x \in Seq(B) /\ Len(x) = w /\ m \in Int /\ n \in Int
  OBVIOUS
<1>2. SubSeq(x, m, n) \in Seq(B) /\ Len(SubSeq(x, m, n)) = n - m + 1
  BY <1>1
<1>3. \A k \in 1 .. n - m + 1 : SubSeq(x, m, n)[k] = x[m + k - 1]
  BY <1>1
<1>4. DOMAIN SubSeq(x, m, n) = 1 .. n - m + 1
  BY <1>2
<1> QED
  BY <1>2, <1>3, <1>4

\* and the word reversed.
LEMMA ReversedBits ==
  ASSUME NEW B, NEW w \in Nat, NEW x \in [1 .. w -> B]
  PROVE  Reverse(x) = [i \in 1 .. w |-> x[w - i + 1]] /\ Reverse(x) \in [1 .. w -> B]
<1>1. Len(x) = w
  OBVIOUS
<1> QED
  BY <1>1 DEF Reverse

-----------------------------------------------------------------------------
\* Loops.

\* A loop that returns v when it stops and goes on at next otherwise.
TailStep(P, stop, v, next, F) ==
  [p \in P |-> IF p \in stop THEN v[p] ELSE F[next[p]]]

\* A loop with a measure m that decreases is defined everywhere.
LEMMA TailRecursion ==
  ASSUME NEW P, NEW stop, NEW v, NEW next, NEW m,
         \A p \in P : m[p] \in Nat /\ v[p] \in Nat,
         \A p \in P \ stop : next[p] \in P /\ m[next[p]] < m[p]
  PROVE  \E F : F \in [P -> Nat] /\ F = TailStep(P, stop, v, next, F)
<1> DEFINE Fs == [P -> Nat]
<1>1. ASSUME NEW F \in Fs
      PROVE  /\ TailStep(P, stop, v, next, F) \in Fs
             /\ \A p \in P : TailStep(P, stop, v, next, F)[p]
                               = IF p \in stop THEN v[p] ELSE F[next[p]]
  <2>1. \A p \in P : (IF p \in stop THEN v[p] ELSE F[next[p]]) \in Nat
    OBVIOUS
  <2> QED
    BY <2>1 DEF TailStep
<1>2. PICK first \in Fs : TRUE
  <2>1. [p \in P |-> 0] \in Fs
    OBVIOUS
  <2> QED
    BY <2>1
<1>3. PICK step : \A k \in Nat, F \in Fs : step[<<k, F>>] = TailStep(P, stop, v, next, F)
  <2> DEFINE st == [a \in Nat \X Fs |-> TailStep(P, stop, v, next, a[2])]
  <2>1. \A k \in Nat, F \in Fs : st[<<k, F>>] = TailStep(P, stop, v, next, F)
    OBVIOUS
  <2> HIDE DEF st
  <2> QED
    BY <2>1
<1> HIDE DEF Fs
<1>4. \A k \in Nat, F \in Fs : step[<<k, F>>] \in Fs
  BY <1>1, <1>3
<1>5. PICK g : Iterates(Fs, first, step, g)
  BY <1>4, Recursion
<1>6. \A k \in Nat : g[k] \in Fs /\ g[k + 1] = TailStep(P, stop, v, next, g[k])
  BY <1>3, <1>5 DEF Iterates
<1>7. ASSUME NEW k \in Nat, NEW p \in P
      PROVE  g[k + 1][p] = IF p \in stop THEN v[p] ELSE g[k][next[p]]
  <2>1. g[k] \in Fs /\ g[k + 1] = TailStep(P, stop, v, next, g[k])
    BY <1>6
  <2> QED
    BY <1>1, <2>1
<1> DEFINE Fixed == {k \in Nat : \A p \in P : m[p] <= k => g[(k + 1) + 1][p] = g[k + 1][p]}
           Stable == {k \in Nat : \A p \in P : m[p] <= k => g[k + 1][p] = g[m[p] + 1][p]}
<1>8. \A k \in Nat : k \in Fixed
  <2>1. ASSUME NEW k \in Nat, NEW p \in P, m[p] <= k,
               \A q \in P : m[q] < k => g[k + 1][q] = g[k][q]
        PROVE  g[(k + 1) + 1][p] = g[k + 1][p]
    <3>1. PICK j \in Nat : j = k + 1
      OBVIOUS
    <3>2. g[j + 1][p] = IF p \in stop THEN v[p] ELSE g[j][next[p]]
      BY <1>7
    <3>3. g[k + 1][p] = IF p \in stop THEN v[p] ELSE g[k][next[p]]
      BY <1>7
    <3>4. p \notin stop => m[next[p]] < k /\ next[p] \in P
      BY <2>1
    <3> QED
      BY <2>1, <3>1, <3>2, <3>3, <3>4
  <2>2. 0 \in Fixed
    <3>1. \A q \in P : ~ (m[q] < 0)
      OBVIOUS
    <3> QED
      BY <2>1, <3>1
  <2>3. ASSUME NEW k \in Nat, k \in Fixed
        PROVE  k + 1 \in Fixed
    <3>1. PICK j \in Nat : j = k + 1
      OBVIOUS
    <3>2. \A q \in P : m[q] < j => g[j + 1][q] = g[j][q]
      BY <2>3, <3>1
    <3>3. \A q \in P : m[q] <= j => g[(j + 1) + 1][q] = g[j + 1][q]
      BY <2>1, <3>2
    <3>4. j \in Fixed
      BY <3>3
    <3> QED
      BY <3>1, <3>4
  <2> HIDE DEF Fixed
  <2> QED
    BY <2>2, <2>3, Induction
<1>9. \A k \in Nat : k \in Stable
  <2>1. 0 \in Stable
    <3>1. \A p \in P : m[p] <= 0 => m[p] = 0
      OBVIOUS
    <3> QED
      BY <3>1
  <2>2. ASSUME NEW k \in Nat, k \in Stable
        PROVE  k + 1 \in Stable
    <3>1. ASSUME NEW p \in P, m[p] <= k + 1
          PROVE  g[(k + 1) + 1][p] = g[m[p] + 1][p]
      <4>1. CASE m[p] = k + 1
        BY <4>1
      <4>2. CASE m[p] <= k
        BY <4>2, <2>2, <1>8
      <4> QED
        BY <3>1, <4>1, <4>2
    <3> QED
      BY <3>1
  <2> HIDE DEF Stable
  <2> QED
    BY <2>1, <2>2, Induction
<1> DEFINE F == [p \in P |-> g[m[p] + 1][p]]
<1>10. F \in Fs
  <2>1. ASSUME NEW p \in P
        PROVE  g[m[p] + 1][p] \in Nat
    <3>1. g[m[p] + 1] \in [P -> Nat]
      BY <1>6 DEF Fs
    <3> QED
      BY <3>1
  <2> QED
    BY <2>1 DEF Fs
<1>11. \A p \in P : F[p] = g[m[p] + 1][p]
  OBVIOUS
<1> HIDE DEF F
<1>12. ASSUME NEW p \in P
       PROVE  F[p] = IF p \in stop THEN v[p] ELSE F[next[p]]
  <2>1. F[p] = IF p \in stop THEN v[p] ELSE g[m[p]][next[p]]
    BY <1>7, <1>11
  <2>2. CASE p \notin stop
    <3>1. PICK j \in Nat : m[p] = j + 1
      BY <2>2
    <3>2. next[p] \in P /\ m[next[p]] <= j
      BY <2>2, <3>1
    <3>3. g[j + 1][next[p]] = g[m[next[p]] + 1][next[p]]
      BY <1>9, <3>2
    <3> QED
      BY <1>11, <2>1, <2>2, <3>1, <3>2, <3>3
  <2> QED
    BY <2>1, <2>2
<1>13. F = TailStep(P, stop, v, next, F)
  <2>1. /\ TailStep(P, stop, v, next, F) \in Fs
        /\ \A p \in P : TailStep(P, stop, v, next, F)[p] = F[p]
    BY <1>1, <1>10, <1>12
  <2> QED
    BY <1>10, <2>1 DEF Fs
<1> QED
  BY <1>10, <1>13 DEF Fs

=============================================================================
