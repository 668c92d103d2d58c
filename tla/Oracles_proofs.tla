---------------------------- MODULE Oracles_proofs ----------------------------
(***************************************************************************)
(* For every word that the generators can draw, the oracle of each task    *)
(* returns what its prompt asks for, in as many bits as the task has.      *)
(*                                                                         *)
(* IInv, at the end, is the inductive invariant: TypeOK and LoopInv, and   *)
(* the answer once it is there.  A section per task shows that its loop    *)
(* keeps its part of them (NameInv) and returns what is asked for          *)
(* (NameAnswer), by lemmas of the same names: NameCase, that for this task *)
(* NameInv is the whole of TypeOK and LoopInv; NameInit; and NameStep, for *)
(* its action.                                                             *)
(***************************************************************************)
EXTENDS Oracles, Mathematics_proofs

\* The invariant, and what a result is.
Kept == TypeOK /\ LoopInv
Answer == result = Described /\ Fits(result)
Running == pc \in {"loop", "returned"}

-----------------------------------------------------------------------------
\* Counting.

\* The numbers from 1 to n,
LEMMA CountTo ==
  ASSUME NEW n \in Nat
  PROVE  IsFiniteSet(1 .. n) /\ Cardinality(1 .. n) = n
<1>1. IsFiniteSet(1 .. n) /\ Cardinality(1 .. n) = IF 1 > n THEN 0 ELSE n - 1 + 1
  BY FS_Interval
<1> QED
  BY <1>1

\* some of them,
LEMMA CountSome ==
  ASSUME NEW n \in Nat, NEW S, S \subseteq 1 .. n
  PROVE  IsFiniteSet(S) /\ Cardinality(S) \in 0 .. n
<1>1. IsFiniteSet(1 .. n) /\ Cardinality(1 .. n) = n
  BY CountTo
<1>2. IsFiniteSet(S) /\ Cardinality(S) <= n
  BY <1>1, FS_Subset, Zenon
<1>3. Cardinality(S) \in Nat
  BY <1>2, FS_CardinalityType
<1> QED
  BY <1>2, <1>3

\* and the last one apart.
LEMMA CountNext ==
  ASSUME NEW n \in Nat, NEW S, S \subseteq 1 .. n + 1
  PROVE  Cardinality(S) = Cardinality(S \cap (1 .. n)) + BoolToInt(n + 1 \in S)
<1> DEFINE T == S \cap (1 .. n)
<1>1. IsFiniteSet(T) /\ Cardinality(T) \in Nat
  <2>1. T \subseteq 1 .. n
    OBVIOUS
  <2> QED
    BY <2>1, CountSome
<1>2. 1 .. n + 1 = (1 .. n) \cup {n + 1} /\ n + 1 \notin 1 .. n
  OBVIOUS
<1>3. CASE n + 1 \in S
  <2>1. S = T \cup {n + 1} /\ n + 1 \notin T
    BY <1>3, <1>2, Zenon
  <2> QED
    BY <1>1, <1>3, <2>1, FS_AddElement, Zenon DEF BoolToInt
<1>4. CASE n + 1 \notin S
  <2>1. S = T
    BY <1>4, <1>2, Zenon
  <2> QED
    BY <1>1, <1>4, <2>1 DEF BoolToInt
<1> QED
  BY <1>3, <1>4

-----------------------------------------------------------------------------
LEMMA PowersOfTwo ==
  /\ 2 ^ 0 = 1 /\ 2 ^ 1 = 2 /\ 2 ^ 2 = 4 /\ 2 ^ 3 = 8
  /\ 2 ^ 4 = 16 /\ 2 ^ 5 = 32 /\ 2 ^ 8 = 256
OBVIOUS

\* Digits are integers.
LEMMA ByteIsInt == \A v \in Byte : v \in 0 .. 255 /\ v \in Int /\ 0 <= v /\ v <= 255
BY DEF Byte

LEMMA NibbleIsInt == \A v \in Nibble : v \in 0 .. 15 /\ v \in Int /\ 0 <= v /\ v <= 15
BY DEF Nibble

\* A sequence of digits is packed as it is.
LEMMA NibblesKept ==
  ASSUME NEW s \in Seq(Nibble)
  PROVE  Nibbles(s) = s
<1>1. \A v \in Nibble : v % 2 ^ 4 = v
  BY PowersOfTwo DEF Nibble
<1>2. \A k \in DOMAIN s : s[k] \in Nibble
  OBVIOUS
<1>3. s = [k \in DOMAIN s |-> s[k]]
  OBVIOUS
<1>4. \A k \in DOMAIN s : s[k] % 2 ^ 4 = s[k]
  BY <1>1, <1>2
<1> QED
  BY <1>3, <1>4 DEF Nibbles, Masked

LEMMA NibblesFit ==
  ASSUME NEW s \in Seq(Nibble)
  PROVE  \A k \in DOMAIN s : s[k] \in 0 .. 2 ^ 4 - 1
<1>1. \A k \in DOMAIN s : s[k] \in Nibble
  OBVIOUS
<1>2. Nibble = 0 .. 2 ^ 4 - 1
  BY PowersOfTwo DEF Nibble
<1> QED
  BY <1>1, <1>2

\* Eight digits are a sequence.
LEMMA EightNibbles ==
  ASSUME NEW y \in [1 .. 8 -> Nibble]
  PROVE  y \in Seq(Nibble) /\ Len(y) = 8
<1>1. PICK w \in Nat : w = 8
  OBVIOUS
<1>2. y \in [1 .. w -> Nibble]
  BY <1>1
<1>3. y \in Seq(Nibble)
  BY <1>2
<1>4. Len(y) = w
  BY <1>2
<1> QED
  BY <1>1, <1>3, <1>4

-----------------------------------------------------------------------------
\* The greatest and the least element, once one is known.
LEMMA MaxIs ==
  ASSUME NEW s, s \subseteq Int, NEW m \in s, \A y \in s : y <= m
  PROVE  Max(s) = m
<1>1. m \in Int /\ \A y \in s : m >= y
  OBVIOUS
<1>2. \A u \in s : (\A y \in s : u >= y) => u = m
  BY <1>1
<1> QED
  BY <1>1, <1>2, Zenon DEF Max

LEMMA MinIs ==
  ASSUME NEW s, s \subseteq Int, NEW m \in s, \A y \in s : m <= y
  PROVE  Min(s) = m
<1>1. m \in Int
  OBVIOUS
<1>2. \A u \in s : (\A y \in s : u <= y) => u = m
  BY <1>1
<1> QED
  BY <1>1, <1>2, Zenon DEF Min

LEMMA MaxOfTwo ==
  ASSUME NEW n \in Int
  PROVE  Max({1, n}) = IF n <= 1 THEN 1 ELSE n
<1>1. CASE n <= 1
  <2>1. \A y \in {1, n} : y <= 1
    BY <1>1
  <2> QED
    BY <1>1, <2>1, MaxIs
<1>2. CASE n > 1
  <2>1. \A y \in {1, n} : y <= n
    BY <1>2
  <2> QED
    BY <1>2, <2>1, MaxIs
<1> QED
  BY <1>1, <1>2

-----------------------------------------------------------------------------
\* Parts of sequences: one element more, one less, and what is in them.
LEMMA SliceAndNext ==
  ASSUME NEW B, NEW s \in Seq(B), NEW n \in 0 .. Len(s) - 1, NEW m \in 1 .. n + 1
  PROVE  Append(SubSeq(s, m, n), s[n + 1]) = SubSeq(s, m, n + 1)
<1>1. /\ n + 1 \in 1 .. Len(s) /\ m \in 1 .. Len(s) /\ n + 1 \in m .. Len(s) /\ (n + 1) - 1 = n
      /\ \A k \in m .. n : s[k] \in B
      /\ s[n + 1] \in B /\ m \in Int /\ n \in Int
  OBVIOUS
<1>2. SubSeq(s, m, n + 1) = SubSeq(s, m, n) \o <<s[n + 1]>>
  BY <1>1, SubSeqRecursiveSecond
<1>3. SubSeq(s, m, n) \in Seq(B)
  BY <1>1, SubSeqProperties
<1> QED
  BY <1>1, <1>2, <1>3, AppendIsConcat

LEMMA SliceValues ==
  ASSUME NEW B, NEW s \in Seq(B), NEW m \in 1 .. Len(s) + 1, NEW n \in m - 1 .. Len(s), NEW v
  PROVE  v \in ToSet(SubSeq(s, m, n)) <=> \E k \in m .. n : v = s[k]
<1>1. PICK t : t = SubSeq(s, m, n)
  BY Zenon
<1>2. DOMAIN t = 1 .. n - m + 1 /\ \A k \in 1 .. n - m + 1 : t[k] = s[m + k - 1]
  BY <1>1
<1>3. ToSet(t) = {t[j] : j \in 1 .. n - m + 1}
  BY <1>2 DEF ToSet
<1>4. ASSUME NEW j \in 1 .. n - m + 1
      PROVE  \E k \in m .. n : t[j] = s[k]
  <2>1. t[j] = s[m + j - 1] /\ m + j - 1 \in m .. n
    BY <1>2
  <2> QED
    BY <2>1
<1>5. ASSUME NEW k \in m .. n
      PROVE  \E j \in 1 .. n - m + 1 : s[k] = t[j]
  <2>1. k - m + 1 \in 1 .. n - m + 1 /\ m + (k - m + 1) - 1 = k
    OBVIOUS
  <2>2. s[k] = t[k - m + 1]
    BY <2>1, <1>2
  <2> QED
    BY <2>1, <2>2
<1>6. v \in ToSet(t) <=> \E j \in 1 .. n - m + 1 : v = t[j]
  BY <1>3
<1>7. v \in ToSet(t) <=> \E k \in m .. n : v = s[k]
  BY <1>4, <1>5, <1>6, Zenon
<1> QED
  BY <1>1, <1>7

-----------------------------------------------------------------------------
\* The values of a sequence,
LEMMA SetOfAppend ==
  ASSUME NEW B, NEW s \in Seq(B), NEW v \in B
  PROVE  /\ Append(s, v) \in Seq(B) /\ Len(Append(s, v)) = Len(s) + 1
         /\ \A k \in 1 .. Len(s) : Append(s, v)[k] = s[k]
         /\ Append(s, v)[Len(s) + 1] = v
         /\ ToSet(Append(s, v)) = ToSet(s) \cup {v}
<1>1. PICK t \in Seq(B) : t = Append(s, v)
  BY AppendProperties, Zenon
<1>2. /\ Len(t) = Len(s) + 1 /\ Len(s) \in Nat
      /\ \A k \in 1 .. Len(s) : t[k] = s[k]
      /\ t[Len(s) + 1] = v
  BY <1>1
<1>3. DOMAIN t = 1 .. Len(s) + 1 /\ DOMAIN s = 1 .. Len(s)
  BY <1>2
<1>4. \A u : (\E k \in DOMAIN t : u = t[k]) <=> (u = v \/ \E k \in DOMAIN s : u = s[k])
  <2>1. \A k : k \in 1 .. Len(s) + 1 <=> k \in 1 .. Len(s) \/ k = Len(s) + 1
    BY <1>2
  <2> QED
    BY <1>2, <1>3, <2>1
<1>5. ToSet(t) = ToSet(s) \cup {v}
  BY <1>4, Zenon DEF ToSet
<1> QED
  BY <1>1, <1>2, <1>5

LEMMA SetOfConcat ==
  ASSUME NEW B, NEW s \in Seq(B), NEW t \in Seq(B)
  PROVE  /\ s \o t \in Seq(B) /\ Len(s \o t) = Len(s) + Len(t)
         /\ \A k \in 1 .. Len(s) : (s \o t)[k] = s[k]
         /\ \A k \in 1 .. Len(t) : (s \o t)[Len(s) + k] = t[k]
         /\ ToSet(s \o t) = ToSet(s) \cup ToSet(t)
<1>1. PICK r \in Seq(B) : r = s \o t
  BY ConcatProperties, Zenon
<1>2. Len(s) \in Nat /\ Len(t) \in Nat /\ Len(r) = Len(s) + Len(t)
  BY <1>1
<1>3. \A k \in 1 .. Len(s) : r[k] = s[k]
  BY <1>1
<1>4. \A k \in 1 .. Len(t) : r[Len(s) + k] = t[k]
  BY <1>1
<1>5. \A k \in 1 .. Len(r) : k \in 1 .. Len(s) \/ k - Len(s) \in 1 .. Len(t)
  BY <1>2
<1>6. \A k \in 1 .. Len(r) : k \notin 1 .. Len(s) => r[k] = t[k - Len(s)]
  <2> TAKE k \in 1 .. Len(r)
  <2> HAVE k \notin 1 .. Len(s)
  <2>1. k - Len(s) \in 1 .. Len(t) /\ Len(s) + (k - Len(s)) = k
    BY <1>2, <1>5
  <2> QED
    BY <2>1, <1>4
<1>7. DOMAIN r = 1 .. Len(r) /\ DOMAIN s = 1 .. Len(s) /\ DOMAIN t = 1 .. Len(t)
  OBVIOUS
<1>8. \A u : (\E k \in DOMAIN r : u = r[k]) <=> (\E k \in DOMAIN s : u = s[k]) \/ (\E k \in DOMAIN t : u = t[k])
  <2> TAKE u
  <2>1. ASSUME NEW k \in DOMAIN s, u = s[k]
        PROVE  \E m \in DOMAIN r : u = r[m]
    <3>1. k \in 1 .. Len(r)
      BY <1>2, <1>7
    <3> QED
      BY <2>1, <3>1, <1>3, <1>7
  <2>2. ASSUME NEW k \in DOMAIN t, u = t[k]
        PROVE  \E m \in DOMAIN r : u = r[m]
    <3>1. Len(s) + k \in 1 .. Len(r)
      BY <1>2, <1>7
    <3> QED
      BY <2>2, <3>1, <1>4, <1>7
  <2>3. ASSUME NEW k \in DOMAIN r, u = r[k]
        PROVE  (\E m \in DOMAIN s : u = s[m]) \/ (\E m \in DOMAIN t : u = t[m])
    BY <2>3, <1>3, <1>5, <1>6, <1>7, Zenon
  <2> QED
    BY <2>1, <2>2, <2>3
<1>9. ToSet(r) = ToSet(s) \cup ToSet(t)
  BY <1>8, Zenon DEF ToSet
<1> QED
  BY <1>1, <1>2, <1>3, <1>4, <1>9

\* of one that is not empty: its first or last, and the others.
LEMMA SetOfEnds ==
  ASSUME NEW B, NEW s \in Seq(B), s # << >>
  PROVE  /\ Last(s) \in B /\ Front(s) \in Seq(B) /\ ToSet(s) = ToSet(Front(s)) \cup {Last(s)}
         /\ Head(s) \in B /\ Tail(s) \in Seq(B) /\ ToSet(s) = {Head(s)} \cup ToSet(Tail(s))
<1>1. PICK n \in Nat : Len(s) = n + 1
  <2>1. Len(s) \in Nat /\ Len(s) # 0
    OBVIOUS
  <2>2. Len(s) - 1 \in Nat /\ Len(s) = (Len(s) - 1) + 1
    BY <2>1
  <2> QED
    BY <2>2, Zenon
<1>2. DOMAIN s = 1 .. n + 1 /\ \A k \in 1 .. n + 1 : s[k] \in B
  BY <1>1
<1>3. /\ Last(s) = s[n + 1] /\ Front(s) \in Seq(B) /\ DOMAIN Front(s) = 1 .. n
      /\ \A k \in 1 .. n : Front(s)[k] = s[k]
  <2>1. Front(s) = SubSeq(s, 1, n)
    BY <1>1 DEF Front
  <2>2. Last(s) = s[n + 1]
    BY <1>1 DEF Last
  <2>3. SubSeq(s, 1, n) = [k \in 1 .. n |-> s[k]]
    BY <1>1
  <2>4. SubSeq(s, 1, n) \in Seq(B)
    <3>1. 1 \in Int /\ n \in Int /\ \A k \in 1 .. n : s[k] \in B
      BY <1>2
    <3> QED
      BY <3>1, SubSeqProperties
  <2> QED
    BY <2>1, <2>2, <2>3, <2>4
<1>4. /\ Head(s) = s[1] /\ Tail(s) \in Seq(B) /\ DOMAIN Tail(s) = 1 .. n
      /\ \A k \in 1 .. n : Tail(s)[k] = s[k + 1]
  <2>1. Head(s) = s[1] /\ Tail(s) \in Seq(B)
    OBVIOUS
  <2>2. Len(Tail(s)) = n /\ \A k \in 1 .. n : Tail(s)[k] = s[k + 1]
    BY <1>1
  <2> QED
    BY <2>1, <2>2
<1>5. \A u : (\E k \in 1 .. n + 1 : u = s[k]) <=> (u = s[n + 1] \/ \E k \in 1 .. n : u = s[k])
  <2>1. \A k : k \in 1 .. n + 1 <=> k \in 1 .. n \/ k = n + 1
    OBVIOUS
  <2> QED
    BY <2>1
<1>6. \A u : (\E k \in 1 .. n + 1 : u = s[k]) <=> (u = s[1] \/ \E k \in 1 .. n : u = s[k + 1])
  <2>1. \A k : k \in 1 .. n + 1 <=> k = 1 \/ (k - 1 \in 1 .. n /\ (k - 1) + 1 = k)
    OBVIOUS
  <2>2. \A k \in 1 .. n : k + 1 \in 1 .. n + 1
    OBVIOUS
  <2> QED
    BY <2>1, <2>2
<1>7. ToSet(s) = ToSet(Front(s)) \cup {Last(s)}
  BY <1>2, <1>3, <1>5 DEF ToSet
<1>8. ToSet(s) = {Head(s)} \cup ToSet(Tail(s))
  <2>1. \A u : u \in ToSet(Tail(s)) <=> \E k \in 1 .. n : u = Tail(s)[k]
    BY <1>4, Zenon DEF ToSet
  <2>2. \A u : u \in ToSet(Tail(s)) <=> \E k \in 1 .. n : u = s[k + 1]
    BY <2>1, <1>4
  <2>3. \A u : u \in ToSet(s) <=> \E k \in 1 .. n + 1 : u = s[k]
    BY <1>2 DEF ToSet
  <2> QED
    BY <2>2, <2>3, <1>4, <1>6
<1>9. 1 \in 1 .. n + 1 /\ n + 1 \in 1 .. n + 1
  OBVIOUS
<1> QED
  BY <1>2, <1>3, <1>4, <1>7, <1>8, <1>9

\* The ones in s, one after the other, each once.
LEMMA InOrderIs ==
  ASSUME NEW n \in Nat, NEW s, s \subseteq 0 .. n - 1
  PROVE  InOrder(s, n) \in Seq(0 .. n - 1) /\ ToSet(InOrder(s, n)) = s /\ IsInjective(InOrder(s, n))
<1> DEFINE S == Seq(Nat)
           Step(f) == [k \in 0 .. n |->
                        IF k = 0 THEN << >>
                        ELSE IF k - 1 \in s THEN Append(f[k - 1], k - 1) ELSE f[k - 1]]
           h == [p \in Nat \X S |-> IF p[1] \in s THEN Append(p[2], p[1]) ELSE p[2]]
           F == CHOOSE f : f = Step(f)
<1>1. \A k \in Nat, t \in S : h[<<k, t>>] = IF k \in s THEN Append(t, k) ELSE t
  OBVIOUS
<1>2. \A k \in Nat, t \in S : h[<<k, t>>] \in S
  BY <1>1, AppendProperties, Zenon
<1> HIDE DEF h
<1>3. << >> \in S
  BY EmptySeq
<1>4. PICK g : Follows(S, << >>, h, n, g)
  <2>1. PICK empty \in S : empty = << >>
    BY <1>3, Zenon
  <2> HIDE DEF S
  <2>2. \E g : Follows(S, empty, h, n, g)
    BY <1>2, Approximations
  <2> QED
    BY <2>1, <2>2
<1>5. /\ g \in [0 .. n -> S] /\ g[0] = << >>
      /\ \A k \in 0 .. n - 1 : g[k + 1] = IF k \in s THEN Append(g[k], k) ELSE g[k]
  <2>1. g \in [0 .. n -> S] /\ g[0] = << >> /\ \A k \in 0 .. n - 1 : g[k + 1] = h[<<k, g[k]>>]
    BY <1>4, Zenon DEF Follows
  <2>2. \A k \in 0 .. n - 1 : k \in Nat /\ k \in 0 .. n /\ g[k] \in S
    BY <2>1
  <2> HIDE DEF S
  <2> QED
    BY <1>1, <2>1, <2>2, Zenon
<1>6. g = Step(g)
  <2>1. \A k \in 0 .. n : g[k] = IF k = 0 THEN << >>
                                 ELSE IF k - 1 \in s THEN Append(g[k - 1], k - 1) ELSE g[k - 1]
    <3> TAKE k \in 0 .. n
    <3>1. CASE k > 0
      <4>1. k - 1 \in 0 .. n - 1 /\ (k - 1) + 1 = k
        BY <3>1
      <4>2. g[(k - 1) + 1] = IF k - 1 \in s THEN Append(g[k - 1], k - 1) ELSE g[k - 1]
        BY <4>1, <1>5, Zenon
      <4> QED
        BY <3>1, <4>1, <4>2
    <3>2. CASE k = 0
      BY <1>5, <3>2
    <3> QED
      BY <3>1, <3>2
  <2> HIDE DEF S
  <2> QED
    BY <1>5, <2>1
<1>7. F = Step(F)
  <2> HIDE DEF Step
  <2> QED
    BY <1>6
<1>8. InOrder(s, n) = F[n]
  BY DEF InOrder
<1> HIDE DEF F
<1>9. /\ F[0] = << >>
      /\ \A k \in 0 .. n - 1 : F[k + 1] = IF k \in s THEN Append(F[k], k) ELSE F[k]
  <2>1. \A k \in 0 .. n - 1 : k + 1 \in 0 .. n /\ (k + 1) - 1 = k /\ k + 1 # 0
    OBVIOUS
  <2>2. \A k \in 0 .. n : F[k] = IF k = 0 THEN << >>
                                 ELSE IF k - 1 \in s THEN Append(F[k - 1], k - 1) ELSE F[k - 1]
    BY <1>7, Zenon
  <2>3. 0 \in 0 .. n
    OBVIOUS
  <2>4. ASSUME NEW k \in 0 .. n - 1
        PROVE  F[k + 1] = IF k \in s THEN Append(F[k], k) ELSE F[k]
    <3>1. F[k + 1] = IF (k + 1) - 1 \in s THEN Append(F[(k + 1) - 1], (k + 1) - 1) ELSE F[(k + 1) - 1]
      BY <2>1, <2>2
    <3> QED
      BY <2>1, <3>1
  <2> QED
    BY <2>2, <2>3, <2>4
<1> DEFINE Good == {k \in Nat : k <= n => /\ F[k] \in Seq(0 .. n - 1)
                                          /\ ToSet(F[k]) = s \cap (0 .. k - 1)
                                          /\ IsInjective(F[k])}
<1>10. 0 \in Good
  <2>1. F[0] \in Seq(0 .. n - 1)
    BY <1>9, EmptySeq
  <2>2. ToSet(F[0]) = {}
    BY <1>9 DEF ToSet
  <2>3. IsInjective(F[0])
    BY <1>9 DEF IsInjective
  <2>4. s \cap (0 .. 0 - 1) = {}
    OBVIOUS
  <2> QED
    BY <2>1, <2>2, <2>3, <2>4
<1>11. ASSUME NEW k \in Nat, k \in Good
       PROVE  k + 1 \in Good
  <2> SUFFICES ASSUME k + 1 <= n
               PROVE  /\ F[k + 1] \in Seq(0 .. n - 1)
                      /\ ToSet(F[k + 1]) = s \cap (0 .. k)
                      /\ IsInjective(F[k + 1])
    <3>1. (k + 1) - 1 = k
      OBVIOUS
    <3> QED
      BY <3>1
  <2>1. k \in 0 .. n - 1 /\ k <= n
    OBVIOUS
  <2>2. PICK t \in Seq(0 .. n - 1) : t = F[k] /\ ToSet(t) = s \cap (0 .. k - 1) /\ IsInjective(t)
    BY <1>11, <2>1
  <2>3. 0 .. k = (0 .. k - 1) \cup {k}
    OBVIOUS
  <2>4. CASE k \in s
    <3>1. F[k + 1] = Append(t, k)
      BY <1>9, <2>1, <2>2, <2>4, Zenon
    <3>2. PICK u : u = Append(t, k)
      BY Zenon
    <3>3. /\ u \in Seq(0 .. n - 1) /\ Len(u) = Len(t) + 1 /\ \A m \in 1 .. Len(t) : u[m] = t[m]
          /\ u[Len(t) + 1] = k /\ ToSet(u) = ToSet(t) \cup {k}
      BY <2>1, <3>2, SetOfAppend
    <3>4. ToSet(u) = s \cap (0 .. k)
      BY <2>2, <2>3, <2>4, <3>3
    <3>5. \A m \in 1 .. Len(t) : t[m] # k
      <4>1. \A m \in 1 .. Len(t) : t[m] \in ToSet(t)
        BY DEF ToSet
      <4> QED
        BY <4>1, <2>2
    <3>6. IsInjective(u)
      <4>1. DOMAIN u = 1 .. Len(t) + 1 /\ DOMAIN t = 1 .. Len(t)
        BY <3>3
      <4>2. \A m : m \in 1 .. Len(t) + 1 <=> m \in 1 .. Len(t) \/ m = Len(t) + 1
        <5>1. Len(t) \in Nat
          OBVIOUS
        <5> QED
          BY <5>1
      <4>3. \A a, b \in 1 .. Len(t) : t[a] = t[b] => a = b
        BY <4>1, <2>2, Zenon DEF IsInjective
      <4>4. \A a, b \in 1 .. Len(t) + 1 : u[a] = u[b] => a = b
        BY <4>2, <4>3, <3>3, <3>5, Zenon
      <4> QED
        BY <4>1, <4>4 DEF IsInjective
    <3> QED
      BY <3>1, <3>2, <3>3, <3>4, <3>6
  <2>5. CASE k \notin s
    <3>1. F[k + 1] = t
      BY <1>9, <2>1, <2>2, <2>5
    <3> QED
      BY <2>2, <2>3, <2>5, <3>1
  <2> QED
    BY <2>4, <2>5
<1> HIDE DEF Good
<1>12. n \in Good
  BY <1>10, <1>11, Induction
<1>13. s \cap (0 .. n - 1) = s
  BY Zenon
<1>14. F[n] \in Seq(0 .. n - 1) /\ ToSet(F[n]) = s \cap (0 .. n - 1) /\ IsInjective(F[n])
  <2>1. n <= n
    OBVIOUS
  <2> QED
    BY <1>12, <2>1 DEF Good
<1> QED
  BY <1>8, <1>13, <1>14

\* Two sequences without repetitions and without a common value.
LEMMA InjectiveConcat ==
  ASSUME NEW B, NEW s \in Seq(B), NEW t \in Seq(B), IsInjective(s), IsInjective(t),
         ToSet(s) \cap ToSet(t) = {}
  PROVE  IsInjective(s \o t)
<1>1. PICK r : r = s \o t
  BY Zenon
<1>2. /\ r \in Seq(B) /\ Len(r) = Len(s) + Len(t) /\ Len(s) \in Nat /\ Len(t) \in Nat
      /\ \A k \in 1 .. Len(s) : r[k] = s[k]
      /\ \A k \in 1 .. Len(t) : r[Len(s) + k] = t[k]
  BY <1>1, SetOfConcat
<1>3. DOMAIN r = 1 .. Len(r) /\ DOMAIN s = 1 .. Len(s) /\ DOMAIN t = 1 .. Len(t)
  BY <1>2
<1>4. \A k \in 1 .. Len(s), m \in 1 .. Len(t) : s[k] # t[m]
  BY <1>3, Zenon DEF ToSet
<1>5. \A k \in 1 .. Len(r) : k \notin 1 .. Len(s) => k - Len(s) \in 1 .. Len(t) /\ r[k] = t[k - Len(s)]
  <2> TAKE k \in 1 .. Len(r)
  <2> HAVE k \notin 1 .. Len(s)
  <2>1. k - Len(s) \in 1 .. Len(t) /\ Len(s) + (k - Len(s)) = k
    BY <1>2
  <2> QED
    BY <2>1, <1>2
<1>6. ASSUME NEW a \in 1 .. Len(r), NEW b \in 1 .. Len(r), r[a] = r[b]
      PROVE  a = b
  <2>1. CASE a \in 1 .. Len(s) /\ b \in 1 .. Len(s)
    BY <2>1, <1>2, <1>3, <1>6, Zenon DEF IsInjective
  <2>2. CASE a \notin 1 .. Len(s) /\ b \notin 1 .. Len(s)
    <3>1. a - Len(s) = b - Len(s)
      BY <2>2, <1>3, <1>5, <1>6, Zenon DEF IsInjective
    <3> QED
      BY <3>1, <1>2
  <2>3. CASE a \in 1 .. Len(s) /\ b \notin 1 .. Len(s)
    BY <2>3, <1>2, <1>4, <1>5, <1>6
  <2>4. CASE a \notin 1 .. Len(s) /\ b \in 1 .. Len(s)
    BY <2>4, <1>2, <1>4, <1>5, <1>6
  <2> QED
    BY <2>1, <2>2, <2>3, <2>4
<1>7. IsInjective(r)
  BY <1>3, <1>6 DEF IsInjective
<1> QED
  BY <1>1, <1>7

-----------------------------------------------------------------------------
\* Intervals are finite; a set with one element more has at most one more.
LEMMA IntervalFinite == \A m, n \in Int : IsFiniteSet(m .. n)
BY FS_Interval

LEMMA CountWith ==
  ASSUME NEW S, NEW k \in Nat, IsFiniteSet(S), Cardinality(S) <= k, NEW v
  PROVE  IsFiniteSet(S \cup {v}) /\ Cardinality(S \cup {v}) <= k + 1
<1>1. Cardinality(S) \in Nat
  BY FS_CardinalityType
<1>2. /\ IsFiniteSet(S \cup {v})
      /\ Cardinality(S \cup {v}) = IF v \in S THEN Cardinality(S) ELSE Cardinality(S) + 1
  BY FS_AddElement
<1> QED
  BY <1>1, <1>2

\* Disjoint sets are counted one after the other,
LEMMA CountBoth ==
  ASSUME NEW S, IsFiniteSet(S), NEW T, IsFiniteSet(T), S \cap T = {}
  PROVE  IsFiniteSet(S \cup T) /\ Cardinality(S \cup T) = Cardinality(S) + Cardinality(T)
<1>1. IsFiniteSet(S \cup T) /\ Cardinality(S \cup T) = Cardinality(S) + Cardinality(T) - Cardinality(S \cap T)
  BY FS_Union
<1>2. Cardinality(S \cap T) = 0 /\ Cardinality(S) \in Nat /\ Cardinality(T) \in Nat
  BY FS_EmptySet, FS_CardinalityType, Zenon
<1> QED
  BY <1>1, <1>2

\* sets whose elements correspond are as large,
LEMMA SameCount ==
  ASSUME NEW S, IsFiniteSet(S), NEW T, NEW f \in [S -> T],
         \A a, b \in S : f[a] = f[b] => a = b, \A t \in T : \E s \in S : f[s] = t
  PROVE  IsFiniteSet(T) /\ Cardinality(T) = Cardinality(S)
<1>1. f \in Bijection(S, T)
  BY DEF Bijection, Injection, Surjection, IsInjective
<1> QED
  BY <1>1, FS_Bijection DEF ExistsBijection

\* and of four numbers each counts or does not.
LEMMA CountFour ==
  ASSUME NEW S, S \subseteq 1 .. 4
  PROVE  Cardinality(S) = BoolToInt(1 \in S) + BoolToInt(2 \in S) + BoolToInt(3 \in S) + BoolToInt(4 \in S)
<1> DEFINE T(n) == S \cap (1 .. n)
<1>1. \A n \in 0 .. 3 : Cardinality(T(n + 1)) = Cardinality(T(n)) + BoolToInt(n + 1 \in S)
  <2> TAKE n \in 0 .. 3
  <2>1. T(n + 1) \subseteq 1 .. n + 1 /\ T(n + 1) \cap (1 .. n) = T(n) /\ n \in Nat
    OBVIOUS
  <2>2. n + 1 \in T(n + 1) <=> n + 1 \in S
    OBVIOUS
  <2>3. Cardinality(T(n + 1)) = Cardinality(T(n)) + BoolToInt(n + 1 \in T(n + 1))
    <3> HIDE DEF T
    <3> QED
      BY <2>1, CountNext
  <2>4. BoolToInt(n + 1 \in T(n + 1)) = BoolToInt(n + 1 \in S)
    BY <2>2 DEF BoolToInt
  <2> QED
    BY <2>3, <2>4
<1>2. T(0) = {} /\ T(4) = S
  <2>1. 1 .. 0 = {}
    OBVIOUS
  <2>2. S \cap (1 .. 4) = S
    BY Zenon
  <2> QED
    BY <2>1, <2>2
<1>3. Cardinality(T(0)) = 0
  BY <1>2, FS_EmptySet
<1>4. BoolToInt(1 \in S) \in {0, 1} /\ BoolToInt(2 \in S) \in {0, 1}
      /\ BoolToInt(3 \in S) \in {0, 1} /\ BoolToInt(4 \in S) \in {0, 1}
  BY DEF BoolToInt
<1> HIDE DEF T
<1>5. /\ Cardinality(T(0 + 1)) = Cardinality(T(0)) + BoolToInt(0 + 1 \in S)
      /\ Cardinality(T(1 + 1)) = Cardinality(T(1)) + BoolToInt(1 + 1 \in S)
      /\ Cardinality(T(2 + 1)) = Cardinality(T(2)) + BoolToInt(2 + 1 \in S)
      /\ Cardinality(T(3 + 1)) = Cardinality(T(3)) + BoolToInt(3 + 1 \in S)
  BY <1>1
<1>6. 0 + 1 = 1 /\ 1 + 1 = 2 /\ 2 + 1 = 3 /\ 3 + 1 = 4
  OBVIOUS
<1>7. /\ Cardinality(T(1)) = Cardinality(T(0)) + BoolToInt(1 \in S)
      /\ Cardinality(T(2)) = Cardinality(T(1)) + BoolToInt(2 \in S)
      /\ Cardinality(T(3)) = Cardinality(T(2)) + BoolToInt(3 \in S)
      /\ Cardinality(T(4)) = Cardinality(T(3)) + BoolToInt(4 \in S)
  BY <1>5, <1>6
<1> QED
  BY <1>2, <1>3, <1>4, <1>7

-----------------------------------------------------------------------------
\* Sorting.  How many values of a sequence are less than v: RankOf.
Less(v, s) == {k \in DOMAIN s : s[k] < v}

LEMMA RankIs ==
  ASSUME NEW s \in Seq(Int), NEW v
  PROVE  /\ RankOf(v, s) = Cardinality(Less(v, s)) /\ Less(v, s) \subseteq 1 .. Len(s)
         /\ IsFiniteSet(Less(v, s)) /\ RankOf(v, s) \in 0 .. Len(s)
<1>1. RankOf(v, s) = Cardinality(Less(v, s)) /\ Less(v, s) \subseteq 1 .. Len(s) /\ Len(s) \in Nat
  BY DEF RankOf, Less
<1>2. IsFiniteSet(Less(v, s)) /\ Cardinality(Less(v, s)) \in 0 .. Len(s)
  BY <1>1, CountSome
<1> QED
  BY <1>1, <1>2

\* The values of two sequences,
LEMMA RankOfConcat ==
  ASSUME NEW s \in Seq(Int), NEW t \in Seq(Int), NEW v
  PROVE  RankOf(v, s \o t) = RankOf(v, s) + RankOf(v, t)
<1> DEFINE n == Len(s)
           S == Less(v, s)  T == Less(v, t)
           R == {k \in n + 1 .. n + Len(t) : t[k - n] < v}
           f == [k \in T |-> n + k]
<1>1. n \in Nat /\ Len(t) \in Nat /\ DOMAIN s = 1 .. n /\ DOMAIN t = 1 .. Len(t)
  OBVIOUS
<1>2. PICK r \in Seq(Int) : r = s \o t
  BY ConcatProperties, Zenon
<1>3. /\ DOMAIN r = 1 .. n + Len(t) /\ \A k \in 1 .. n : r[k] = s[k]
      /\ \A k \in n + 1 .. n + Len(t) : r[k] = t[k - n]
  <2>1. Len(r) = n + Len(t)
    BY <1>2
  <2>2. DOMAIN r = 1 .. n + Len(t)
    BY <2>1
  <2>3. \A k \in 1 .. n : r[k] = s[k]
    BY <1>2
  <2>4. \A k \in 1 .. Len(t) : r[n + k] = t[k]
    BY <1>2
  <2>5. ASSUME NEW k \in n + 1 .. n + Len(t)
        PROVE  r[k] = t[k - n]
    <3>1. k - n \in 1 .. Len(t) /\ n + (k - n) = k
      BY <1>1
    <3> QED
      BY <3>1, <2>4
  <2> QED
    BY <2>2, <2>3, <2>5
<1>4. IsFiniteSet(S) /\ IsFiniteSet(T)
  BY RankIs
<1>5. Less(v, r) = S \cup R /\ S \cap R = {}
  <2>1. \A k : k \in 1 .. n + Len(t) <=> k \in 1 .. n \/ k \in n + 1 .. n + Len(t)
    BY <1>1
  <2>2. \A k : ~ (k \in 1 .. n /\ k \in n + 1 .. n + Len(t))
    BY <1>1
  <2> HIDE DEF n
  <2> QED
    BY <2>1, <2>2, <1>1, <1>3, Zenon DEF Less
<1>6. IsFiniteSet(R) /\ Cardinality(R) = Cardinality(T)
  <2>1. ASSUME NEW k \in T
        PROVE  n + k \in R
    <3>1. k \in 1 .. Len(t) /\ t[k] < v
      BY <1>1 DEF Less
    <3>2. n + k \in n + 1 .. n + Len(t) /\ (n + k) - n = k
      BY <1>1, <3>1
    <3> QED
      BY <3>1, <3>2
  <2>2. f \in [T -> R]
    BY <2>1
  <2>3. \A a, b \in T : f[a] = f[b] => a = b
    <3>1. \A a \in T : a \in Int
      BY <1>1 DEF Less
    <3> QED
      BY <3>1, <1>1
  <2>4. \A k \in R : \E m \in T : f[m] = k
    <3> TAKE k \in R
    <3>1. k - n \in 1 .. Len(t) /\ t[k - n] < v /\ n + (k - n) = k
      BY <1>1
    <3>2. k - n \in T
      BY <1>1, <3>1 DEF Less
    <3> QED
      BY <3>1, <3>2
  <2> HIDE DEF T, R, f
  <2> QED
    BY <1>4, <2>2, <2>3, <2>4, SameCount
<1>7. Cardinality(Less(v, r)) = Cardinality(S) + Cardinality(T)
  <2> HIDE DEF S, R, T
  <2> QED
    BY <1>4, <1>5, <1>6, CountBoth
<1> QED
  BY <1>2, <1>7, RankIs, Zenon

\* and of one value.
LEMMA RankOfOne ==
  ASSUME NEW u \in Int, NEW v
  PROVE  <<u>> \in Seq(Int) /\ Len(<<u>>) = 1 /\ RankOf(v, <<u>>) = BoolToInt(u < v)
<1>1. PICK s \in Seq(Int) : s = <<u>>
  <2>1. \A y \in Int : <<y>> \in Seq(Int)
    OBVIOUS
  <2> QED
    BY <2>1, Zenon
<1>2. Len(s) = 1 /\ DOMAIN s = {1} /\ s[1] = u
  BY <1>1
<1>3. CASE u < v
  <2>1. Less(v, s) = {1}
    BY <1>2, <1>3 DEF Less
  <2>2. Cardinality(Less(v, s)) = 1
    BY <2>1, FS_Singleton, Zenon
  <2> QED
    BY <1>1, <1>2, <1>3, <2>2, RankIs, Zenon DEF BoolToInt
<1>4. CASE ~ (u < v)
  <2>1. Less(v, s) = {}
    BY <1>2, <1>4 DEF Less
  <2>2. Cardinality(Less(v, s)) = 0
    BY <2>1, FS_EmptySet
  <2> QED
    BY <1>1, <1>2, <1>4, <2>2, RankIs DEF BoolToInt
<1> QED
  BY <1>3, <1>4

\* In a sorted sequence the lesser values come first.
LEMMA RankOfSorted ==
  ASSUME NEW s \in Seq(Int), Sorted(s), NEW v \in Int
  PROVE  \A k \in 1 .. Len(s) : s[k] < v <=> k <= RankOf(v, s)
<1> DEFINE L == Less(v, s)
<1>1. L \subseteq 1 .. Len(s) /\ Len(s) \in Nat /\ RankOf(v, s) = Cardinality(L)
  BY RankIs
<1>2. \A k \in 1 .. Len(s) : k \in L <=> s[k] < v
  BY DEF Less
<1>3. \A j, k \in 1 .. Len(s) : j < k /\ k \in L => j \in L
  <2>1. \A j, k \in 1 .. Len(s) : j < k => s[j] <= s[k]
    BY DEF Sorted
  <2>2. \A k \in 1 .. Len(s) : s[k] \in Int
    OBVIOUS
  <2> QED
    BY <2>1, <2>2, <1>2
<1> HIDE DEF L
<1>4. CASE L = {}
  <2>1. Cardinality(L) = 0
    BY <1>4, FS_EmptySet
  <2> QED
    BY <1>1, <1>2, <1>4, <2>1
<1>5. CASE L # {}
  <2>1. PICK m \in L : \A k \in L : k <= m
    <3>1. L \subseteq 0 .. Len(s)
      BY <1>1
    <3> QED
      BY <1>1, <1>5, <3>1, Greatest, Zenon
  <2>2. L = 1 .. m /\ m \in Nat
    <3>1. m \in 1 .. Len(s)
      BY <1>1, <2>1
    <3>2. \A k \in L : k \in 1 .. m
      BY <1>1, <2>1, <3>1
    <3>3. \A k \in 1 .. m : k \in 1 .. Len(s) /\ (k < m \/ k = m)
      BY <1>1, <3>1
    <3>4. \A k \in 1 .. m : k \in L
      BY <1>3, <2>1, <3>1, <3>3
    <3>5. L = 1 .. m
      BY <3>2, <3>4, Zenon
    <3> QED
      BY <3>1, <3>5
  <2>3. Cardinality(L) = m
    BY <2>2, CountTo
  <2> QED
    BY <1>1, <1>2, <2>2, <2>3
<1> QED
  BY <1>4, <1>5

\* Sorted sequences with the same values are the same,
LEMMA SortedSame ==
  ASSUME NEW s \in Seq(Int), NEW t \in Seq(Int), Sorted(s), Sorted(t), Len(s) = Len(t),
         \A v \in Int : RankOf(v, s) = RankOf(v, t)
  PROVE  s = t
<1>1. ASSUME NEW k \in 1 .. Len(s)
      PROVE  s[k] = t[k]
  <2>1. PICK a \in Int : a = s[k]
    OBVIOUS
  <2>2. PICK b \in Int : b = t[k]
    OBVIOUS
  <2>3. \A v \in Int : s[k] < v <=> k <= RankOf(v, s)
    BY RankOfSorted
  <2>4. \A v \in Int : t[k] < v <=> k <= RankOf(v, t)
    BY RankOfSorted
  <2>5. \A v \in Int : a < v <=> b < v
    BY <2>1, <2>2, <2>3, <2>4, Zenon
  <2>6. (a < a <=> b < a) /\ (a < b <=> b < b)
    BY <2>5, Zenon
  <2> QED
    BY <2>1, <2>2, <2>6
<1>2. /\ s = [k \in 1 .. Len(s) |-> s[k]]
      /\ t = [k \in 1 .. Len(s) |-> t[k]]
  OBVIOUS
<1> QED
  BY <1>1, <1>2, Zenon

\* and one behind the other are sorted when the values of the first are not greater.
LEMMA SortedConcat ==
  ASSUME NEW s \in Seq(Int), NEW t \in Seq(Int), Sorted(s), Sorted(t),
         \A a \in ToSet(s), b \in ToSet(t) : a <= b
  PROVE  Sorted(s \o t)
<1>1. PICK r \in Seq(Int) : r = s \o t
  BY ConcatProperties, Zenon
<1>2. PICK n \in Nat : n = Len(s)
  OBVIOUS
<1>3. /\ Len(r) = n + Len(t) /\ Len(t) \in Nat
      /\ \A k \in 1 .. n : r[k] = s[k]
      /\ \A k \in 1 .. Len(t) : r[n + k] = t[k]
  BY <1>1, <1>2
<1>4. DOMAIN r = 1 .. n + Len(t) /\ DOMAIN s = 1 .. n /\ DOMAIN t = 1 .. Len(t)
  BY <1>2, <1>3
<1>5. /\ \A j, k \in 1 .. n : j < k => s[j] <= s[k]
      /\ \A j, k \in 1 .. Len(t) : j < k => t[j] <= t[k]
      /\ \A j \in 1 .. n, k \in 1 .. Len(t) : s[j] <= t[k]
  BY <1>4, Zenon DEF Sorted, ToSet
<1>6. ASSUME NEW j \in 1 .. n + Len(t), NEW k \in 1 .. n + Len(t), j < k
      PROVE  r[j] <= r[k]
  <2>1. CASE k \in 1 .. n
    <3>1. j \in 1 .. n
      BY <1>6, <2>1
    <3> QED
      BY <2>1, <3>1, <1>3, <1>5, <1>6
  <2>2. CASE k \notin 1 .. n /\ j \in 1 .. n
    <3>1. PICK m \in 1 .. Len(t) : k = n + m
      <4>1. k - n \in 1 .. Len(t) /\ k = n + (k - n)
        BY <1>3, <2>2
      <4> QED
        BY <4>1
    <3> QED
      BY <2>2, <3>1, <1>3, <1>5
  <2>3. CASE k \notin 1 .. n /\ j \notin 1 .. n
    <3>1. PICK m \in 1 .. Len(t) : k = n + m
      <4>1. k - n \in 1 .. Len(t) /\ k = n + (k - n)
        BY <1>3, <2>3
      <4> QED
        BY <4>1
    <3>2. PICK l \in 1 .. Len(t) : j = n + l
      <4>1. j - n \in 1 .. Len(t) /\ j = n + (j - n)
        BY <1>3, <2>3, SMTT(30)
      <4> QED
        BY <4>1
    <3>3. l < m
      BY <3>1, <3>2, <1>6
    <3> QED
      BY <3>1, <3>2, <3>3, <1>3, <1>5
  <2> QED
    BY <2>1, <2>2, <2>3
<1> QED
  BY <1>1, <1>4, <1>6, Zenon DEF Sorted

\* A part of a sorted sequence is sorted.
LEMMA SortedPart ==
  ASSUME NEW s \in Seq(Int), Sorted(s), NEW m \in 1 .. Len(s) + 1, NEW n \in m - 1 .. Len(s)
  PROVE  SubSeq(s, m, n) \in Seq(Int) /\ Len(SubSeq(s, m, n)) = n - m + 1 /\ Sorted(SubSeq(s, m, n))
<1>1. /\ m \in Int /\ n \in Int /\ Len(s) \in Nat /\ m <= Len(s) + 1 /\ m - 1 <= n /\ n <= Len(s) /\ 1 <= m
      /\ \A k \in m .. n : s[k] \in Int
  OBVIOUS
<1>2. PICK t : t = SubSeq(s, m, n)
  BY Zenon
<1>3. /\ t \in Seq(Int) /\ Len(t) = IF m <= n THEN n - m + 1 ELSE 0
      /\ \A k \in 1 .. n - m + 1 : t[k] = s[m + k - 1]
  BY <1>1, <1>2, SubSeqProperties
<1>4. Len(t) = n - m + 1 /\ DOMAIN t = 1 .. n - m + 1
  <2>1. Len(t) = n - m + 1
    BY <1>1, <1>3
  <2> QED
    BY <2>1, <1>3
<1>5. \A j, k \in 1 .. Len(s) : j < k => s[j] <= s[k]
  BY DEF Sorted
<1>6. ASSUME NEW j \in 1 .. n - m + 1, NEW k \in 1 .. n - m + 1, j < k
      PROVE  t[j] <= t[k]
  <2>1. m + j - 1 \in 1 .. Len(s) /\ m + k - 1 \in 1 .. Len(s) /\ m + j - 1 < m + k - 1
    BY <1>1, <1>6
  <2> QED
    BY <2>1, <1>3, <1>5, Zenon
<1> QED
  BY <1>2, <1>3, <1>4, <1>6, Zenon DEF Sorted

-----------------------------------------------------------------------------
\* A value put behind the ones that are not greater: the sequence stays one, as it
\* were sorted,
LEMMA InsertedIs ==
  ASSUME NEW s \in Seq(Int), NEW v \in Int
  PROVE  /\ Inserted(v, s) \in Seq(Int) /\ Len(Inserted(v, s)) = Len(s) + 1
         /\ \A u : RankOf(u, Inserted(v, s)) = RankOf(u, s) + BoolToInt(v < u)
         /\ Sorted(s) => Sorted(Inserted(v, s))
<1> DEFINE c == Cardinality({m \in DOMAIN s : s[m] <= v})
<1>1. c = RankOf(v + 1, s)
  <2>1. \A m \in DOMAIN s : s[m] \in Int
    OBVIOUS
  <2>2. {m \in DOMAIN s : s[m] <= v} = Less(v + 1, s)
    BY <2>1 DEF Less
  <2> QED
    BY <2>2, RankIs, Zenon
<1>2. c \in 0 .. Len(s) /\ Len(s) \in Nat
  BY <1>1, RankIs
<1> HIDE DEF c
<1>3. Inserted(v, s) = SubSeq(s, 1, c) \o <<v>> \o SubSeq(s, c + 1, Len(s))
  <2>1. (c + 1) - 1 = c
    BY <1>2
  <2> QED
    BY <2>1, Zenon DEF Inserted, InsertAt, c
<1>4. PICK a : a = SubSeq(s, 1, c)
  BY Zenon
<1>5. PICK b : b = SubSeq(s, c + 1, Len(s))
  BY Zenon
<1>6. /\ a \in Seq(Int) /\ Len(a) = c /\ b \in Seq(Int) /\ Len(b) = Len(s) - c
      /\ \A k \in 1 .. c : a[k] = s[k]
      /\ \A k \in 1 .. Len(s) - c : b[k] = s[c + k]
  <2>1. \A k \in 1 .. c : s[k] \in Int
    BY <1>2
  <2>2. \A k \in c + 1 .. Len(s) : s[k] \in Int
    BY <1>2
  <2>3. c \in Int /\ c + 1 \in Int /\ Len(s) \in Int /\ 1 \in Int
    BY <1>2
  <2>4. /\ a \in Seq(Int) /\ Len(a) = IF 1 <= c THEN c - 1 + 1 ELSE 0
        /\ \A k \in 1 .. c - 1 + 1 : a[k] = s[1 + k - 1]
    BY <2>1, <2>3, <1>4, SubSeqProperties
  <2>5. /\ b \in Seq(Int) /\ Len(b) = IF c + 1 <= Len(s) THEN Len(s) - (c + 1) + 1 ELSE 0
        /\ \A k \in 1 .. Len(s) - (c + 1) + 1 : b[k] = s[c + 1 + k - 1]
    BY <2>2, <2>3, <1>5, SubSeqProperties
  <2>6. /\ (IF 1 <= c THEN c - 1 + 1 ELSE 0) = c /\ c - 1 + 1 = c /\ \A k \in 1 .. c : 1 + k - 1 = k
        /\ (IF c + 1 <= Len(s) THEN Len(s) - (c + 1) + 1 ELSE 0) = Len(s) - c
        /\ Len(s) - (c + 1) + 1 = Len(s) - c /\ \A k \in 1 .. Len(s) - c : c + 1 + k - 1 = c + k
    BY <1>2
  <2> QED
    BY <2>4, <2>5, <2>6, Zenon
<1>7. s = a \o b
  <2>1. 1 \in 1 .. Len(s) + 1 /\ c \in 1 - 1 .. Len(s) /\ Len(s) \in c .. Len(s)
    BY <1>2
  <2>2. SubSeq(s, 1, c) \o SubSeq(s, c + 1, Len(s)) = SubSeq(s, 1, Len(s))
    BY <2>1, ConcatAdjacentSubSeq, Zenon
  <2> QED
    BY <2>2, <1>4, <1>5, SubSeqFull, Zenon
<1>8. PICK one : one = <<v>>
  BY Zenon
<1>9. one \in Seq(Int) /\ Len(one) = 1 /\ \A u : RankOf(u, one) = BoolToInt(v < u)
  BY <1>8, RankOfOne
<1>10. Inserted(v, s) = (a \o one) \o b
  BY <1>3, <1>4, <1>5, <1>8
<1>11. PICK d : d = a \o one
  BY Zenon
<1>12. d \in Seq(Int) /\ Len(d) = c + 1 /\ ToSet(d) = ToSet(a) \cup ToSet(one)
  <2>1. /\ a \o one \in Seq(Int) /\ Len(a \o one) = Len(a) + Len(one)
        /\ ToSet(a \o one) = ToSet(a) \cup ToSet(one)
    <3>1. \A p, q \in Seq(Int) : /\ p \o q \in Seq(Int) /\ Len(p \o q) = Len(p) + Len(q)
                               /\ ToSet(p \o q) = ToSet(p) \cup ToSet(q)
      BY SetOfConcat
    <3> QED
      BY <3>1, <1>6, <1>9, Zenon
  <2> QED
    BY <2>1, <1>6, <1>9, <1>11
<1>13. Inserted(v, s) \in Seq(Int) /\ Len(Inserted(v, s)) = Len(s) + 1
  <2>1. d \o b \in Seq(Int) /\ Len(d \o b) = Len(d) + Len(b)
    BY <1>6, <1>12, SetOfConcat, ZenonT(60)
  <2>2. (c + 1) + (Len(s) - c) = Len(s) + 1
    BY <1>2
  <2> QED
    BY <2>1, <2>2, <1>6, <1>10, <1>11, <1>12
<1>14. ASSUME NEW u
       PROVE  RankOf(u, Inserted(v, s)) = RankOf(u, s) + BoolToInt(v < u)
  <2>1. RankOf(u, d) = RankOf(u, a) + RankOf(u, one)
    BY <1>6, <1>9, <1>11, RankOfConcat
  <2>2. RankOf(u, d \o b) = RankOf(u, d) + RankOf(u, b)
    BY <1>6, <1>12, RankOfConcat
  <2>3. RankOf(u, a \o b) = RankOf(u, a) + RankOf(u, b)
    BY <1>6, RankOfConcat
  <2>4. RankOf(u, a) \in Int /\ RankOf(u, b) \in Int /\ BoolToInt(v < u) \in Int
    <3>1. RankOf(u, a) \in 0 .. Len(a) /\ RankOf(u, b) \in 0 .. Len(b)
      BY <1>6, RankIs
    <3> QED
      BY <3>1 DEF BoolToInt
  <2>5. RankOf(u, d \o b) = RankOf(u, a \o b) + BoolToInt(v < u)
    BY <2>1, <2>2, <2>3, <2>4, <1>9
  <2> QED
    BY <2>5, <1>7, <1>10, <1>11
<1>15. ASSUME Sorted(s)
       PROVE  Sorted(Inserted(v, s))
  <2>1. \A k \in 1 .. Len(s) : s[k] < v + 1 <=> k <= c
    BY <1>1, <1>15, RankOfSorted
  <2>2. \A k \in 1 .. Len(s) : s[k] \in Int
    OBVIOUS
  <2>3. Sorted(a)
    <3>1. 1 \in 1 .. Len(s) + 1 /\ c \in 1 - 1 .. Len(s)
      BY <1>2
    <3> QED
      BY <3>1, <1>4, <1>15, SortedPart
  <2>4. Sorted(b)
    <3>1. c + 1 \in 1 .. Len(s) + 1 /\ Len(s) \in (c + 1) - 1 .. Len(s)
      BY <1>2
    <3> QED
      BY <3>1, <1>5, <1>15, SortedPart
  <2>5. Sorted(one) /\ ToSet(one) = {v}
    BY <1>8 DEF Sorted, ToSet
  <2>6. \A y \in ToSet(a) : y <= v
    <3> TAKE y \in ToSet(a)
    <3>1. PICK k \in 1 .. c : y = a[k]
      BY <1>6 DEF ToSet
    <3>2. k \in 1 .. Len(s) /\ k <= c /\ y = s[k]
      BY <3>1, <1>2, <1>6
    <3> QED
      BY <3>2, <2>1, <2>2
  <2>7. \A y \in ToSet(b) : v < y /\ y \in Int
    <3> TAKE y \in ToSet(b)
    <3>1. PICK k \in 1 .. Len(s) - c : y = b[k]
      BY <1>6 DEF ToSet
    <3>2. c + k \in 1 .. Len(s) /\ ~ (c + k <= c)
      BY <1>2
    <3>3. y = s[c + k]
      BY <3>1, <1>6, Zenon
    <3> QED
      BY <3>2, <3>3, <2>1, <2>2
  <2>8. Sorted(d)
    <3>1. \A p \in ToSet(a), q \in ToSet(one) : p <= q
      BY <2>5, <2>6
    <3> QED
      BY <3>1, <2>3, <2>5, <1>6, <1>9, <1>11, SortedConcat
  <2>9. \A p \in ToSet(d), q \in ToSet(b) : p <= q
    <3>1. \A p \in ToSet(a) : p \in Int
      BY <1>6 DEF ToSet
    <3> QED
      BY <3>1, <2>5, <2>6, <2>7, <1>12
  <2>10. Sorted(d \o b)
    BY <2>4, <2>8, <2>9, <1>6, <1>12, SortedConcat, Zenon
  <2> QED
    BY <2>10, <1>10, <1>11
<1> QED
  BY <1>13, <1>14, <1>15

-----------------------------------------------------------------------------
\* sorted(s) puts one value after the other to its place.
LEMMA InsertionSortSteps ==
  ASSUME NEW s \in Seq(Int)
  PROVE  \E G : /\ G[0] = << >> /\ InsertionSort(s) = G[Len(s)]
                /\ \A k \in 0 .. Len(s) - 1 : G[k + 1] = Inserted(s[k + 1], G[k])
<1> DEFINE n == Len(s)
           S == Seq(Int)
           Step(f) == [k \in 0 .. n |-> IF k = 0 THEN << >> ELSE Inserted(s[k], f[k - 1])]
           h == [p \in Nat \X S |-> IF p[1] < n THEN Inserted(s[p[1] + 1], p[2]) ELSE p[2]]
           F == CHOOSE f : f = Step(f)
<1>1. n \in Nat /\ \A k \in 1 .. n : s[k] \in Int
  OBVIOUS
<1>2. \A k \in Nat, t \in S : h[<<k, t>>] = IF k < n THEN Inserted(s[k + 1], t) ELSE t
  BY Zenon
<1> HIDE DEF h
<1>3. \A k \in Nat, t \in S : h[<<k, t>>] \in S
  <2> TAKE k \in Nat, t \in S
  <2>1. CASE k < n
    <3>1. k + 1 \in 1 .. n
      BY <1>1, <2>1
    <3>2. s[k + 1] \in Int
      BY <1>1, <3>1
    <3>3. Inserted(s[k + 1], t) \in S
      BY <3>2, InsertedIs, Zenon
    <3> HIDE DEF S
    <3> QED
      BY <1>2, <2>1, <3>3
  <2>2. CASE ~ (k < n)
    <3> HIDE DEF S
    <3> QED
      BY <1>2, <2>2
  <2> QED
    BY <2>1, <2>2
<1>4. << >> \in S
  BY EmptySeq
<1>5. PICK g : Follows(S, << >>, h, n, g)
  <2>1. PICK empty \in S : empty = << >>
    BY <1>4, Zenon
  <2> HIDE DEF S, n
  <2>2. \E g : Follows(S, empty, h, n, g)
    BY <1>1, <1>3, Approximations, Zenon
  <2> QED
    BY <2>1, <2>2
<1>6. /\ g \in [0 .. n -> S] /\ g[0] = << >>
      /\ \A k \in 0 .. n - 1 : g[k + 1] = Inserted(s[k + 1], g[k])
  <2>1. g \in [0 .. n -> S] /\ g[0] = << >> /\ \A k \in 0 .. n - 1 : g[k + 1] = h[<<k, g[k]>>]
    BY <1>5 DEF Follows
  <2> HIDE DEF S, n
  <2>2. \A k \in 0 .. n - 1 : k \in Nat /\ k \in 0 .. n /\ g[k] \in S /\ k < n
    <3>1. \A k \in 0 .. n - 1 : k \in Nat /\ k \in 0 .. n /\ k < n
      BY <1>1
    <3> QED
      BY <2>1, <3>1
  <2> QED
    BY <1>2, <2>1, <2>2, Zenon
<1>7. g = Step(g)
  <2>1. \A k \in 0 .. n : g[k] = IF k = 0 THEN << >> ELSE Inserted(s[k], g[k - 1])
    <3> TAKE k \in 0 .. n
    <3>1. CASE k > 0
      <4>1. k - 1 \in 0 .. n - 1 /\ (k - 1) + 1 = k
        BY <1>1, <3>1
      <4>2. g[(k - 1) + 1] = Inserted(s[(k - 1) + 1], g[k - 1])
        BY <4>1, <1>6
      <4> QED
        BY <3>1, <4>1, <4>2
    <3>2. CASE k = 0
      BY <1>6, <3>2
    <3> QED
      BY <1>1, <3>1, <3>2
  <2> HIDE DEF S, n
  <2> QED
    BY <1>6, <2>1
<1>8. F = Step(F)
  <2> HIDE DEF Step
  <2> QED
    BY <1>7
<1>9. InsertionSort(s) = F[n]
  BY DEF InsertionSort
<1> HIDE DEF F
<1>10. \A k \in 0 .. n : F[k] = IF k = 0 THEN << >> ELSE Inserted(s[k], F[k - 1])
  BY <1>8, Zenon
<1> HIDE DEF n
<1>11. F[0] = << >>
  <2>1. 0 \in 0 .. n
    BY <1>1
  <2> QED
    BY <2>1, <1>10
<1>12. ASSUME NEW k \in 0 .. n - 1
       PROVE  F[k + 1] = Inserted(s[k + 1], F[k])
  <2>1. k + 1 \in 0 .. n /\ (k + 1) - 1 = k /\ k + 1 # 0
    BY <1>1
  <2>2. F[k + 1] = Inserted(s[k + 1], F[(k + 1) - 1])
    BY <2>1, <1>10
  <2> QED
    BY <2>1, <2>2
<1> QED
  BY <1>9, <1>11, <1>12 DEF n

\* The result is sorted and has the values of s.
LEMMA InsertionSortIs ==
  ASSUME NEW s \in Seq(Int)
  PROVE  /\ InsertionSort(s) \in Seq(Int) /\ Len(InsertionSort(s)) = Len(s)
         /\ Sorted(InsertionSort(s))
         /\ \A v : RankOf(v, InsertionSort(s)) = RankOf(v, s)
<1>1. PICK n \in Nat : n = Len(s)
  OBVIOUS
<1>2. PICK G : /\ G[0] = << >> /\ InsertionSort(s) = G[n]
               /\ \A k \in 0 .. n - 1 : G[k + 1] = Inserted(s[k + 1], G[k])
  BY <1>1, InsertionSortSteps
<1> DEFINE Good == {k \in Nat : k <= n => /\ G[k] \in Seq(Int) /\ Len(G[k]) = k /\ Sorted(G[k])
                                          /\ \A v : RankOf(v, G[k]) = RankOf(v, SubSeq(s, 1, k))}
<1>3. 0 \in Good
  <2>1. PICK empty \in Seq(Int) : empty = << >>
    BY EmptySeq, Zenon
  <2>2. Len(empty) = 0 /\ Sorted(empty)
    BY <2>1 DEF Sorted
  <2>3. SubSeq(s, 1, 0) = empty
    BY <2>1, SubSeqEmpty
  <2> QED
    BY <2>1, <2>2, <2>3, <1>2, Zenon
<1>4. ASSUME NEW k \in Nat, k \in Good
      PROVE  k + 1 \in Good
  <2> SUFFICES ASSUME k + 1 <= n
               PROVE  /\ G[k + 1] \in Seq(Int) /\ Len(G[k + 1]) = k + 1 /\ Sorted(G[k + 1])
                      /\ \A v : RankOf(v, G[k + 1]) = RankOf(v, SubSeq(s, 1, k + 1))
    OBVIOUS
  <2>1. k \in 0 .. n - 1 /\ k <= n /\ k + 1 \in 1 .. n
    BY <1>1
  <2>2. PICK t \in Seq(Int) : /\ t = G[k] /\ Len(t) = k /\ Sorted(t)
                              /\ \A v : RankOf(v, t) = RankOf(v, SubSeq(s, 1, k))
    BY <1>4, <2>1
  <2>3. PICK u \in Int : u = s[k + 1]
    BY <1>1, <2>1
  <2>4. G[k + 1] = Inserted(u, t)
    BY <1>2, <2>1, <2>2, <2>3
  <2>5. /\ Inserted(u, t) \in Seq(Int) /\ Len(Inserted(u, t)) = k + 1 /\ Sorted(Inserted(u, t))
        /\ \A v : RankOf(v, Inserted(u, t)) = RankOf(v, t) + BoolToInt(u < v)
    BY <2>2, InsertedIs, Zenon
  <2>6. PICK p \in Seq(Int) : p = SubSeq(s, 1, k)
    <3>1. \A m \in 1 .. k : s[m] \in Int
      BY <1>1, <2>1
    <3>2. 1 \in Int /\ k \in Int
      OBVIOUS
    <3>3. SubSeq(s, 1, k) \in Seq(Int)
      BY <3>1, <3>2, SubSeqProperties
    <3> QED
      BY <3>3, Zenon
  <2>7. PICK one \in Seq(Int) : one = <<u>> /\ \A v : RankOf(v, one) = BoolToInt(u < v)
    BY RankOfOne, Zenon
  <2>8. SubSeq(s, 1, k + 1) = p \o one
    <3>1. 1 \in 1 .. Len(s) /\ k + 1 \in 1 .. Len(s) /\ (k + 1) - 1 = k
      BY <1>1, <2>1
    <3>2. SubSeq(s, 1, k + 1) = SubSeq(s, 1, (k + 1) - 1) \o <<s[k + 1]>>
      BY <3>1, SubSeqRecursiveSecond, Zenon
    <3> QED
      BY <3>1, <3>2, <2>3, <2>6, <2>7
  <2>9. \A v : RankOf(v, p \o one) = RankOf(v, p) + RankOf(v, one)
    BY RankOfConcat
  <2>10. \A v : RankOf(v, Inserted(u, t)) = RankOf(v, SubSeq(s, 1, k + 1))
    BY <2>2, <2>5, <2>6, <2>7, <2>8, <2>9, Zenon
  <2> QED
    BY <2>4, <2>5, <2>10
<1> HIDE DEF Good
<1>5. n \in Good
  <2>1. \A k \in Nat : k \in Good
    BY <1>3, <1>4, Induction, Zenon
  <2> QED
    BY <2>1
<1>6. /\ G[n] \in Seq(Int) /\ Len(G[n]) = n /\ Sorted(G[n])
      /\ \A v : RankOf(v, G[n]) = RankOf(v, SubSeq(s, 1, n))
  BY <1>5 DEF Good
<1>7. SubSeq(s, 1, n) = s
  BY <1>1, SubSeqFull
<1> QED
  BY <1>1, <1>2, <1>6, <1>7, Zenon

\* Sequences with the same values are sorted to the same,
LEMMA SortSame ==
  ASSUME NEW s \in Seq(Int), NEW t \in Seq(Int), Len(s) = Len(t),
         \A v \in Int : RankOf(v, s) = RankOf(v, t)
  PROVE  InsertionSort(s) = InsertionSort(t)
<1>1. PICK a \in Seq(Int) : /\ a = InsertionSort(s) /\ Len(a) = Len(s) /\ Sorted(a)
                            /\ \A v : RankOf(v, a) = RankOf(v, s)
  BY InsertionSortIs
<1>2. PICK b \in Seq(Int) : /\ b = InsertionSort(t) /\ Len(b) = Len(t) /\ Sorted(b)
                            /\ \A v : RankOf(v, b) = RankOf(v, t)
  BY InsertionSortIs
<1>3. a = b
  BY <1>1, <1>2, SortedSame
<1> QED
  BY <1>1, <1>2, <1>3

\* and one that is sorted to itself.
LEMMA SortOfSorted ==
  ASSUME NEW s \in Seq(Int), Sorted(s)
  PROVE  InsertionSort(s) = s
<1>1. PICK a \in Seq(Int) : /\ a = InsertionSort(s) /\ Len(a) = Len(s) /\ Sorted(a)
                            /\ \A v : RankOf(v, a) = RankOf(v, s)
  BY InsertionSortIs
<1>2. a = s
  BY <1>1, SortedSame
<1> QED
  BY <1>1, <1>2

-----------------------------------------------------------------------------
\* graph_reach_4: what is visited, and what of it waits.
GraphReachInv ==
  /\ x \in (SUBSET ((0 .. 3) \X (0 .. 3))) \X (0 .. 3) \X (0 .. 3)
  /\ locals \in [visited : SUBSET (0 .. 3), stack : Seq(0 .. 3)]
  /\ ReachInv
GraphReachAnswer == result = BoolToInt(Reachable(x[1], x[2], x[3])) /\ result \in 0 .. 1

LEMMA GraphReachCase ==
  task = "graph_reach_4" =>
    /\ Kept <=> Running /\ GraphReachInv
    /\ Answer <=> GraphReachAnswer
<1>1. ASSUME task = "graph_reach_4"
      PROVE  Kept <=> Running /\ GraphReachInv
  BY <1>1 DEF Kept, TypeOK, RandomWords, LocalsOf, LoopInv, TASK_REGISTRY, Running, GraphReachInv
<1>2. ASSUME task = "graph_reach_4"
      PROVE  Answer <=> GraphReachAnswer
  <2>1. TASK_REGISTRY[task].out_bits = 1
    BY <1>2 DEF TASK_REGISTRY, GRAPH_REACH_4
  <2> QED
    BY <1>2, <2>1, PowersOfTwo DEF Answer, Described, Fits, Digits, GraphReachAnswer
<1> QED
  BY <1>1, <1>2

LEMMA GraphReachInit ==
  ASSUME task = "graph_reach_4", x \in RandomWords(task), locals = Locals(task, x)
  PROVE  GraphReachInv
<1>1. /\ x \in (SUBSET ((0 .. 3) \X (0 .. 3))) \X (0 .. 3) \X (0 .. 3)
      /\ locals = [visited |-> {x[2]}, stack |-> <<x[2]>>]
  BY DEF RandomWords, Locals
<1>2. x[2] \in 0 .. 3 /\ <<x[2]>> \in Seq(0 .. 3)
  BY <1>1
<1>3. locals.visited = {x[2]} /\ locals.stack = <<x[2]>> /\ ToSet(<<x[2]>>) = {x[2]}
  BY <1>1 DEF ToSet
<1>4. ReachInv
  BY <1>3 DEF ReachInv, Reachable
<1>5. locals \in [visited : SUBSET (0 .. 3), stack : Seq(0 .. 3)]
  <2>1. PICK one \in Seq(0 .. 3) : one = <<x[2]>>
    BY <1>2, Zenon
  <2>2. locals = [visited |-> {x[2]}, stack |-> one] /\ {x[2]} \subseteq 0 .. 3
    BY <1>1, <1>2, <2>1
  <2> QED
    BY <2>2
<1> QED
  BY <1>1, <1>4, <1>5 DEF GraphReachInv

LEMMA GraphReachStep ==
  ASSUME GraphReachInv, GraphReach4
  PROVE  GraphReachInv' /\ (pc' = "returned" => GraphReachAnswer')
<1> DEFINE edges == x[1]  src == x[2]  tgt == x[3]
           visited == locals.visited  stack == locals.stack
<1>1. /\ x' = x /\ pc = "loop"
      /\ x \in (SUBSET ((0 .. 3) \X (0 .. 3))) \X (0 .. 3) \X (0 .. 3)
      /\ edges \subseteq (0 .. 3) \X (0 .. 3) /\ src \in 0 .. 3 /\ tgt \in 0 .. 3
      /\ visited \subseteq 0 .. 3 /\ stack \in Seq(0 .. 3)
  BY DEF GraphReachInv, GraphReach4, Continue, Return, In
<1>2. /\ src \in visited /\ ToSet(stack) \subseteq visited
      /\ \A v \in visited : Reachable(edges, src, v)
      /\ \A e \in edges : e[1] \in visited \ ToSet(stack) => e[2] \in visited
  BY DEF GraphReachInv, ReachInv
<1>3. \A e \in edges : e[1] \in 0 .. 3 /\ e[2] \in 0 .. 3 /\ e = <<e[1], e[2]>>
  BY <1>1
<1>4. CASE stack = << >>
  <2>1. locals' = locals /\ result' = BoolToInt(tgt \in visited)
    BY <1>4 DEF GraphReach4, Return
  <2>2. ToSet(stack) = {}
    BY <1>4 DEF ToSet
  <2>3. tgt \in visited <=> Reachable(edges, src, tgt)
    <3>1. ASSUME Reachable(edges, src, tgt)
          PROVE  tgt \in visited
      <4>1. visited \in SUBSET (0 .. 3) /\ src \in visited
        BY <1>1, <1>2
      <4>2. \A e \in edges : e[1] \in visited => e[2] \in visited
        BY <2>2, <1>2
      <4> QED
        BY <4>1, <4>2, <3>1 DEF Reachable
    <3> QED
      BY <3>1, <1>2
  <2>4. GraphReachAnswer'
    <3>1. BoolToInt(tgt \in visited) \in 0 .. 1
      BY DEF BoolToInt
    <3>2. BoolToInt(tgt \in visited) = BoolToInt(Reachable(edges, src, tgt))
      BY <2>3 DEF BoolToInt
    <3>3. result' = BoolToInt(Reachable(x'[1], x'[2], x'[3]))
      BY <2>1, <3>2, <1>1
    <3> QED
      BY <2>1, <3>1, <3>3 DEF GraphReachAnswer
  <2>5. GraphReachInv'
    BY <2>1, <1>1 DEF GraphReachInv, ReachInv
  <2> QED
    BY <2>4, <2>5
<1>5. CASE stack # << >>
  <2> DEFINE u == Last(stack)  new == New(u)  rest == Front(stack)  pushed == InOrder(new, 4)
  <2>1. locals' = [visited |-> visited \cup new, stack |-> rest \o pushed] /\ pc' = pc
    BY <1>5 DEF GraphReach4, Continue
  <2>2. u \in 0 .. 3 /\ rest \in Seq(0 .. 3) /\ ToSet(stack) = ToSet(rest) \cup {u}
    BY <1>1, <1>5, SetOfEnds
  <2>3. new \subseteq 0 .. 3 /\ \A v : v \in new <=> v \in 0 .. 3 \ visited /\ <<u, v>> \in edges
    BY DEF New
  <2>4. pushed \in Seq(0 .. 3) /\ ToSet(pushed) = new
    <3>1. PICK n \in Nat : n = 4
      OBVIOUS
    <3>2. n - 1 = 3 /\ new \subseteq 0 .. n - 1
      BY <2>3, <3>1
    <3> HIDE DEF new
    <3>3. InOrder(new, n) \in Seq(0 .. n - 1) /\ ToSet(InOrder(new, n)) = new
      BY <3>2, InOrderIs, Zenon
    <3> QED
      BY <3>1, <3>2, <3>3
  <2> HIDE DEF u, new, rest, pushed
  <2>5. rest \o pushed \in Seq(0 .. 3) /\ ToSet(rest \o pushed) = ToSet(rest) \cup new
    BY <2>2, <2>4, SetOfConcat
  <2>6. u \in visited
    BY <2>2, <1>2
  <2>7. \A v \in new : Reachable(edges, src, v)
    <3> TAKE v \in new
    <3>1. <<u, v>> \in edges /\ Reachable(edges, src, u)
      BY <2>3, <2>6, <1>2
    <3> SUFFICES ASSUME NEW closed \in SUBSET (0 .. 3), src \in closed,
                        \A e \in edges : e[1] \in closed => e[2] \in closed
                 PROVE  v \in closed
      BY DEF Reachable
    <3>2. u \in closed
      BY <3>1 DEF Reachable
    <3>3. <<u, v>>[1] \in closed => <<u, v>>[2] \in closed
      BY <3>1
    <3> QED
      BY <3>2, <3>3
  <2>8. ASSUME NEW e \in edges, e[1] \in (visited \cup new) \ ToSet(rest \o pushed)
        PROVE  e[2] \in visited \cup new
    <3>1. e[1] \in visited /\ e[1] \notin ToSet(rest)
      BY <2>5, <2>8
    <3>2. CASE e[1] = u
      <4>1. <<u, e[2]>> \in edges /\ e[2] \in 0 .. 3
        BY <3>2, <1>3
      <4> QED
        BY <4>1, <2>3
    <3>3. CASE e[1] # u
      BY <3>1, <3>3, <2>2, <1>2
    <3> QED
      BY <3>2, <3>3
  <2>9. locals'.visited = visited \cup new /\ locals'.stack = rest \o pushed
    BY <2>1
  <2>10. visited \cup new \subseteq 0 .. 3
    BY <2>3, <1>1, Zenon
  <2>11. locals' \in [visited : SUBSET (0 .. 3), stack : Seq(0 .. 3)]
    BY <2>1, <2>5, <2>10
  <2>12. ToSet(rest \o pushed) \subseteq visited \cup new
    BY <2>2, <2>5, <1>2
  <2>13. ReachInv'
    BY <2>7, <2>8, <2>9, <2>12, <1>1, <1>2 DEF ReachInv
  <2> QED
    BY <2>1, <2>11, <2>13, <1>1 DEF GraphReachInv
<1> QED
  BY <1>4, <1>5

-----------------------------------------------------------------------------
\* graph_triangle_5: the triangles are counted by their least node.
TriangleInv ==
  /\ x \in Undirected(5) /\ locals \in [i : 0 .. 5, count : 0 .. 10]
  /\ locals.count = Cardinality({c \in Triangles(x) : Min(c) < i})
TriangleAnswer == result = Cardinality(Triangles(x)) /\ result \in 0 .. 15

LEMMA TriangleCase ==
  task = "graph_triangle_5" =>
    /\ Kept <=> Running /\ TriangleInv
    /\ Answer <=> TriangleAnswer
<1>1. ASSUME task = "graph_triangle_5"
      PROVE  Kept <=> Running /\ TriangleInv
  BY <1>1 DEF Kept, TypeOK, RandomWords, LocalsOf, LoopInv, TASK_REGISTRY, Running, TriangleInv
<1>2. ASSUME task = "graph_triangle_5"
      PROVE  Answer <=> TriangleAnswer
  <2>1. TASK_REGISTRY[task].out_bits = 4
    BY <1>2 DEF TASK_REGISTRY, GRAPH_TRIANGLE_5
  <2> QED
    BY <1>2, <2>1, PowersOfTwo DEF Answer, Described, Fits, Digits, TriangleAnswer
<1> QED
  BY <1>1, <1>2

\* The triangles whose least node is before n, and the pairs that make one with n.
TrianglesBefore(edges, n) == {c \in Triangles(edges) : Min(c) < n}
Completing(edges, n) ==
  {e \in (n + 1 .. 4) \X (0 .. 4) : e[1] < e[2] /\ {<<n, e[1]>>, e, <<n, e[2]>>} \subseteq edges}

LEMMA NodesFinite == \A n \in 0 .. 5 : IsFiniteSet(n .. 4)
<1> TAKE n \in 0 .. 5
<1>1. PICK m \in Int : m = 4
  OBVIOUS
<1>2. IsFiniteSet(n .. m)
  BY IntervalFinite
<1> QED
  BY <1>1, <1>2

\* Three nodes in ascending order: as many, and the least.
LEMMA ThreeNodes ==
  ASSUME NEW a \in 0 .. 4, NEW b \in 0 .. 4, NEW c \in 0 .. 4, a < b, b < c
  PROVE  {a, b, c} \in kSubset(3, 0 .. 4) /\ Min({a, b, c}) = a
<1>1. IsFiniteSet({a}) /\ Cardinality({a}) = 1
  BY FS_Singleton, Zenon
<1>2. IsFiniteSet({a} \cup {b}) /\ Cardinality({a} \cup {b}) = 2
  <2>1. b \notin {a}
    OBVIOUS
  <2>2. IsFiniteSet({a} \cup {b}) /\ Cardinality({a} \cup {b}) = Cardinality({a}) + 1
    BY <1>1, <2>1, FS_AddElement
  <2> QED
    BY <1>1, <2>2
<1>3. Cardinality(({a} \cup {b}) \cup {c}) = 3
  <2>1. c \notin {a} \cup {b}
    OBVIOUS
  <2>2. Cardinality(({a} \cup {b}) \cup {c}) = Cardinality({a} \cup {b}) + 1
    BY <1>2, <2>1, FS_AddElement
  <2> QED
    BY <1>2, <2>2
<1>4. ({a} \cup {b}) \cup {c} = {a, b, c}
  OBVIOUS
<1>5. Min({a, b, c}) = a
  <2>1. {a, b, c} \subseteq Int /\ a \in {a, b, c} /\ \A y \in {a, b, c} : a <= y
    OBVIOUS
  <2> QED
    BY <2>1, MinIs
<1> QED
  BY <1>3, <1>4, <1>5 DEF kSubset

\* and three nodes have an ascending order.
LEMMA NodesOfThree ==
  ASSUME NEW s \in kSubset(3, 0 .. 4)
  PROVE  \E a, b, c \in 0 .. 4 : a < b /\ b < c /\ s = {a, b, c} /\ Min(s) = a
<1>1. s \subseteq 0 .. 4 /\ Cardinality(s) = 3
  BY DEF kSubset
<1>2. IsFiniteSet(s) /\ s # {}
  <2>1. IsFiniteSet(0 .. 4)
    BY NodesFinite
  <2>2. IsFiniteSet(s)
    BY <1>1, <2>1, FS_Subset, Zenon
  <2> QED
    BY <1>1, <2>2, FS_EmptySet
<1>3. PICK a \in s : Min(s) = a /\ \A y \in s : a <= y
  <2>1. s \subseteq Nat
    BY <1>1
  <2> QED
    BY <1>2, <2>1, Least, Zenon
<1>4. PICK t : t = s \ {a}
  BY Zenon
<1>5. IsFiniteSet(t) /\ Cardinality(t) = 2 /\ t # {}
  <2>1. IsFiniteSet(t) /\ Cardinality(t) = 2
    BY <1>1, <1>2, <1>3, <1>4, FS_RemoveElement
  <2> QED
    BY <2>1, FS_EmptySet
<1>6. PICK b \in t : \A y \in t : b <= y
  <2>1. t \subseteq Nat
    BY <1>1, <1>4
  <2> QED
    BY <1>5, <2>1, Least, Zenon
<1>7. PICK r : r = t \ {b}
  BY Zenon
<1>8. IsFiniteSet(r) /\ Cardinality(r) = 1
  BY <1>5, <1>6, <1>7, FS_RemoveElement
<1>9. PICK c : r = {c}
  BY <1>8, FS_Singleton, Zenon
<1>10. a \in 0 .. 4 /\ b \in 0 .. 4 /\ c \in 0 .. 4
  BY <1>1, <1>3, <1>4, <1>6, <1>7, <1>9
<1>11. a # b /\ b # c /\ b \in s /\ c \in t
  BY <1>4, <1>6, <1>7, <1>9
<1>12. a < b /\ b < c
  BY <1>3, <1>6, <1>10, <1>11
<1>13. s = {a, b, c}
  BY <1>3, <1>4, <1>6, <1>7, <1>9
<1> QED
  BY <1>3, <1>10, <1>12, <1>13

LEMMA TrianglesFinite ==
  ASSUME NEW edges, NEW T, T \subseteq Triangles(edges)
  PROVE  IsFiniteSet(T)
<1>1. IsFiniteSet(0 .. 4)
  BY NodesFinite
<1>2. IsFiniteSet(SUBSET (0 .. 4))
  BY <1>1, FS_SUBSET
<1>3. T \subseteq SUBSET (0 .. 4)
  BY DEF Triangles, kSubset
<1> QED
  BY <1>2, <1>3, FS_Subset, Zenon

\* A pair that makes a triangle with n is a triangle whose least node is n.
LEMMA TrianglesNext ==
  ASSUME NEW edges, NEW n \in 0 .. 4
  PROVE  Cardinality(TrianglesBefore(edges, n + 1))
           = Cardinality(TrianglesBefore(edges, n)) + Cardinality(Completing(edges, n))
<1> DEFINE S == TrianglesBefore(edges, n)  P == Completing(edges, n)
           R == {c \in Triangles(edges) : Min(c) = n}
           f == [e \in P |-> {n, e[1], e[2]}]
<1>1. \A c \in Triangles(edges) : c \in kSubset(3, 0 .. 4) /\ Min(c) \in 0 .. 4
  <2> TAKE c \in Triangles(edges)
  <2>1. c \in kSubset(3, 0 .. 4)
    BY DEF Triangles
  <2> QED
    BY <2>1, NodesOfThree
<1>2. IsFiniteSet(P)
  <2>1. IsFiniteSet(n + 1 .. 4) /\ IsFiniteSet(0 .. 4)
    <3>1. n + 1 \in 0 .. 5 /\ 0 \in 0 .. 5
      OBVIOUS
    <3> QED
      BY <3>1, NodesFinite, Zenon
  <2>2. IsFiniteSet((n + 1 .. 4) \X (0 .. 4))
    BY <2>1, FS_Product
  <2>3. P \subseteq (n + 1 .. 4) \X (0 .. 4)
    BY DEF Completing
  <2> QED
    BY <2>2, <2>3, FS_Subset
<1>3. ASSUME NEW e \in P
      PROVE  /\ e = <<e[1], e[2]>> /\ e[1] \in 0 .. 4 /\ e[2] \in 0 .. 4 /\ n < e[1] /\ e[1] < e[2]
             /\ <<n, e[1]>> \in edges /\ <<e[1], e[2]>> \in edges /\ <<n, e[2]>> \in edges
  <2>1. e \in (n + 1 .. 4) \X (0 .. 4) /\ e[1] < e[2] /\ {<<n, e[1]>>, e, <<n, e[2]>>} \subseteq edges
    BY DEF Completing
  <2>2. e = <<e[1], e[2]>> /\ e[1] \in n + 1 .. 4 /\ e[2] \in 0 .. 4
    BY <2>1
  <2> QED
    BY <2>1, <2>2
<1>4. ASSUME NEW e \in P
      PROVE  {n, e[1], e[2]} \in R
  <2>1. PICK a, b \in 0 .. 4 : a = e[1] /\ b = e[2]
    BY <1>3, Zenon
  <2>2. n < a /\ a < b /\ <<n, a>> \in edges /\ <<a, b>> \in edges /\ <<n, b>> \in edges
    BY <1>3, <2>1
  <2>3. {n, a, b} \in kSubset(3, 0 .. 4) /\ Min({n, a, b}) = n
    BY <2>2, ThreeNodes, Zenon
  <2>4. \A u, v \in {n, a, b} : u < v => <<u, v>> \in edges
    BY <2>2
  <2> QED
    BY <2>1, <2>3, <2>4 DEF Triangles
<1>5. ASSUME NEW d \in P, NEW e \in P, {n, d[1], d[2]} = {n, e[1], e[2]}
      PROVE  d = e
  <2>1. PICK a, b \in 0 .. 4 : a = d[1] /\ b = d[2] /\ d = <<a, b>>
    BY <1>3, Zenon
  <2>2. PICK p, q \in 0 .. 4 : p = e[1] /\ q = e[2] /\ e = <<p, q>>
    BY <1>3, Zenon
  <2>3. n < a /\ a < b /\ n < p /\ p < q
    BY <1>3, <2>1, <2>2, Zenon
  <2>4. a \in {n, p, q} /\ b \in {n, p, q} /\ p \in {n, a, b} /\ q \in {n, a, b}
    BY <1>5, <2>1, <2>2
  <2>5. a = p /\ b = q
    BY <2>3, <2>4
  <2> QED
    BY <2>1, <2>2, <2>5
<1>6. ASSUME NEW c \in R
      PROVE  \E e \in P : {n, e[1], e[2]} = c
  <2>1. c \in kSubset(3, 0 .. 4) /\ (\A u, v \in c : u < v => <<u, v>> \in edges) /\ Min(c) = n
    BY DEF Triangles
  <2>2. PICK a, b \in 0 .. 4 : n < a /\ a < b /\ c = {n, a, b}
    BY <2>1, NodesOfThree
  <2>3. <<n, a>> \in edges /\ <<a, b>> \in edges /\ <<n, b>> \in edges
    BY <2>1, <2>2
  <2>4. PICK e : e = <<a, b>>
    BY Zenon
  <2>5. e[1] = a /\ e[2] = b /\ e \in (n + 1 .. 4) \X (0 .. 4)
    BY <2>2, <2>4
  <2>6. {<<n, e[1]>>, e, <<n, e[2]>>} \subseteq edges
    BY <2>3, <2>4, <2>5
  <2>7. e \in P
    BY <2>2, <2>5, <2>6 DEF Completing
  <2> QED
    BY <2>2, <2>5, <2>7
<1>7. IsFiniteSet(R) /\ Cardinality(R) = Cardinality(P)
  <2>1. f \in [P -> R]
    BY <1>4
  <2>2. \A d, e \in P : f[d] = f[e] => d = e
    BY <1>5
  <2>3. \A c \in R : \E e \in P : f[e] = c
    BY <1>6
  <2> HIDE DEF f, P, R
  <2> QED
    BY <1>2, <2>1, <2>2, <2>3, SameCount
<1>8. TrianglesBefore(edges, n + 1) = S \cup R /\ S \cap R = {} /\ IsFiniteSet(S)
  <2>1. \A c \in Triangles(edges) : Min(c) < n + 1 <=> Min(c) < n \/ Min(c) = n
    BY <1>1
  <2>2. \A c \in Triangles(edges) : ~ (Min(c) < n /\ Min(c) = n)
    BY <1>1
  <2>3. S \subseteq Triangles(edges)
    BY DEF TrianglesBefore
  <2>4. IsFiniteSet(S)
    BY <2>3, TrianglesFinite
  <2> QED
    BY <2>1, <2>2, <2>4 DEF TrianglesBefore
<1> HIDE DEF S, R, P
<1> QED
  BY <1>7, <1>8, CountBoth DEF S, P

\* No more pairs than nodes allow.
LEMMA CompletingBound ==
  ASSUME NEW edges
  PROVE  /\ Cardinality(Completing(edges, 0)) \in 0 .. 6
         /\ Cardinality(Completing(edges, 1)) \in 0 .. 3
         /\ Cardinality(Completing(edges, 2)) \in 0 .. 1
         /\ Cardinality(Completing(edges, 3)) = 0
         /\ Cardinality(Completing(edges, 4)) = 0
<1> DEFINE A == {<<3, 4>>}
           B == A \cup {<<2, 3>>} \cup {<<2, 4>>}
           C == B \cup {<<1, 2>>} \cup {<<1, 3>>} \cup {<<1, 4>>}
<1>1. IsFiniteSet(A) /\ Cardinality(A) <= 1
  <2>1. \A v : IsFiniteSet({v}) /\ Cardinality({v}) = 1
    BY FS_Singleton, Zenon
  <2>2. IsFiniteSet(A) /\ Cardinality(A) = 1
    BY <2>1, Zenon
  <2> QED
    BY <2>2
<1>2. IsFiniteSet(B) /\ Cardinality(B) <= 3
  <2>1. IsFiniteSet(A \cup {<<2, 3>>}) /\ Cardinality(A \cup {<<2, 3>>}) <= 1 + 1
    BY <1>1, CountWith, Zenon
  <2>2. PICK D : D = A \cup {<<2, 3>>}
    BY Zenon
  <2>3. IsFiniteSet(D \cup {<<2, 4>>}) /\ Cardinality(D \cup {<<2, 4>>}) <= 2 + 1
    <3>1. Cardinality(D) <= 2 /\ IsFiniteSet(D)
      BY <2>1, <2>2
    <3> QED
      BY <3>1, CountWith, Zenon
  <2> QED
    BY <2>2, <2>3
<1> HIDE DEF B
<1>3. IsFiniteSet(C) /\ Cardinality(C) <= 6
  <2>1. IsFiniteSet(B \cup {<<1, 2>>}) /\ Cardinality(B \cup {<<1, 2>>}) <= 3 + 1
    BY <1>2, CountWith, Zenon
  <2>2. PICK D : D = B \cup {<<1, 2>>}
    BY Zenon
  <2>3. IsFiniteSet(D \cup {<<1, 3>>}) /\ Cardinality(D \cup {<<1, 3>>}) <= 4 + 1
    <3>1. Cardinality(D) <= 4 /\ IsFiniteSet(D)
      BY <2>1, <2>2
    <3> QED
      BY <3>1, CountWith, Zenon
  <2>4. PICK E : E = D \cup {<<1, 3>>}
    BY Zenon
  <2>5. Cardinality(E) <= 5 /\ IsFiniteSet(E)
    BY <2>3, <2>4
  <2>6. IsFiniteSet(E \cup {<<1, 4>>}) /\ Cardinality(E \cup {<<1, 4>>}) <= 5 + 1
    BY <2>5, CountWith, Zenon
  <2> QED
    BY <2>2, <2>4, <2>6
<1>4. ASSUME NEW n \in 0 .. 4, NEW e \in Completing(edges, n)
      PROVE  e = <<e[1], e[2]>> /\ n < e[1] /\ e[1] < e[2] /\ e[1] \in 1 .. 4 /\ e[2] \in 1 .. 4
  <2>1. e \in (n + 1 .. 4) \X (0 .. 4) /\ e[1] < e[2]
    BY <1>4 DEF Completing
  <2> QED
    BY <2>1
<1>5. \A e \in Completing(edges, 0) : e \in C
  <2> TAKE e \in Completing(edges, 0)
  <2>1. <<e[1], e[2]>> \in {<<1, 2>>, <<1, 3>>, <<1, 4>>, <<2, 3>>, <<2, 4>>, <<3, 4>>}
    BY <1>4
  <2> QED
    BY <2>1, <1>4 DEF B
<1>6. \A e \in Completing(edges, 1) : e \in B
  <2> TAKE e \in Completing(edges, 1)
  <2>1. <<e[1], e[2]>> \in {<<2, 3>>, <<2, 4>>, <<3, 4>>}
    BY <1>4
  <2> QED
    BY <2>1, <1>4 DEF B
<1>7. \A e \in Completing(edges, 2) : e \in A
  <2> TAKE e \in Completing(edges, 2)
  <2>1. e[1] = 3 /\ e[2] = 4
    BY <1>4
  <2> QED
    BY <2>1, <1>4
<1>8. Completing(edges, 3) = {} /\ Completing(edges, 4) = {}
  <2>1. \A e \in Completing(edges, 3) : FALSE
    BY <1>4
  <2>2. \A e \in Completing(edges, 4) : FALSE
    BY <1>4
  <2> QED
    BY <2>1, <2>2
<1> HIDE DEF A, C
<1>9. /\ Cardinality(Completing(edges, 0)) \in Nat /\ Cardinality(Completing(edges, 0)) <= Cardinality(C)
      /\ Cardinality(Completing(edges, 1)) \in Nat /\ Cardinality(Completing(edges, 1)) <= Cardinality(B)
      /\ Cardinality(Completing(edges, 2)) \in Nat /\ Cardinality(Completing(edges, 2)) <= Cardinality(A)
      /\ Cardinality(A) \in Nat /\ Cardinality(B) \in Nat /\ Cardinality(C) \in Nat
  BY <1>1, <1>2, <1>3, <1>5, <1>6, <1>7, FS_Subset, FS_CardinalityType
<1> QED
  BY <1>1, <1>2, <1>3, <1>8, <1>9, FS_EmptySet

LEMMA TrianglesBeforeAre ==
  ASSUME NEW edges
  PROVE  /\ \A n \in 0 .. 5 : Cardinality(TrianglesBefore(edges, n)) \in 0 .. 10
         /\ TrianglesBefore(edges, 0) = {} /\ TrianglesBefore(edges, 5) = Triangles(edges)
<1> DEFINE T(n) == Cardinality(TrianglesBefore(edges, n))
           P(n) == Cardinality(Completing(edges, n))
<1>1. \A c \in Triangles(edges) : Min(c) \in 0 .. 4
  <2> TAKE c \in Triangles(edges)
  <2>1. c \in kSubset(3, 0 .. 4)
    BY DEF Triangles
  <2> QED
    BY <2>1, NodesOfThree
<1>2. TrianglesBefore(edges, 0) = {} /\ TrianglesBefore(edges, 5) = Triangles(edges)
  <2>1. \A c \in Triangles(edges) : ~ (Min(c) < 0) /\ Min(c) < 5
    BY <1>1
  <2> QED
    BY <2>1 DEF TrianglesBefore
<1>3. T(0) = 0
  BY <1>2, FS_EmptySet
<1>4. T(0 + 1) = T(0) + P(0) /\ T(1 + 1) = T(1) + P(1) /\ T(2 + 1) = T(2) + P(2)
      /\ T(3 + 1) = T(3) + P(3) /\ T(4 + 1) = T(4) + P(4)
  BY TrianglesNext
<1>5. P(0) \in 0 .. 6 /\ P(1) \in 0 .. 3 /\ P(2) \in 0 .. 1 /\ P(3) = 0 /\ P(4) = 0
  BY CompletingBound
<1>6. 0 + 1 = 1 /\ 1 + 1 = 2 /\ 2 + 1 = 3 /\ 3 + 1 = 4 /\ 4 + 1 = 5
  OBVIOUS
<1> HIDE DEF T, P
<1>7. T(1) = T(0) + P(0) /\ T(2) = T(1) + P(1) /\ T(3) = T(2) + P(2) /\ T(4) = T(3) + P(3)
      /\ T(5) = T(4) + P(4)
  BY <1>4, <1>6
<1>8. T(1) \in 0 .. 6 /\ T(2) \in 0 .. 9 /\ T(3) \in 0 .. 10 /\ T(4) \in 0 .. 10 /\ T(5) \in 0 .. 10
  BY <1>3, <1>5, <1>7
<1>9. \A n \in 0 .. 5 : T(n) \in 0 .. 10
  <2>1. \A n \in 0 .. 5 : n = 0 \/ n = 1 \/ n = 2 \/ n = 3 \/ n = 4 \/ n = 5
    OBVIOUS
  <2> QED
    BY <2>1, <1>3, <1>8
<1> QED
  BY <1>2, <1>9 DEF T

-----------------------------------------------------------------------------
LEMMA TriangleInit ==
  ASSUME task = "graph_triangle_5", x \in RandomWords(task), locals = Locals(task, x)
  PROVE  TriangleInv
<1>1. x \in Undirected(5) /\ locals = [i |-> 0, count |-> 0]
  BY DEF RandomWords, Locals
<1>2. Cardinality(TrianglesBefore(x, 0)) = 0
  BY TrianglesBeforeAre, FS_EmptySet, Zenon
<1> QED
  BY <1>1, <1>2 DEF TriangleInv, TrianglesBefore, i

LEMMA TriangleStep ==
  ASSUME TriangleInv, GraphTriangle5
  PROVE  TriangleInv' /\ (pc' = "returned" => TriangleAnswer')
<1> USE DEF i
<1>1. /\ x' = x /\ i \in 0 .. 5 /\ x \in Undirected(5) /\ locals.count \in 0 .. 10
      /\ locals = [i |-> i, count |-> locals.count] /\ pc = "loop"
  BY DEF TriangleInv, GraphTriangle5, Continue, Return, In
<1>2. locals.count = Cardinality(TrianglesBefore(x, i))
  BY DEF TriangleInv, TrianglesBefore
<1>3. ASSUME locals' \in [i : 0 .. 5, count : 0 .. 10], locals'.count = Cardinality(TrianglesBefore(x, locals'.i))
      PROVE  TriangleInv'
  BY <1>1, <1>3 DEF TriangleInv, TrianglesBefore
<1>4. CASE i = 5
  <2>1. locals' = locals /\ result' = locals.count
    BY <1>4 DEF GraphTriangle5, Return
  <2>2. Cardinality(TrianglesBefore(x, 5)) = Cardinality(Triangles(x))
    BY TrianglesBeforeAre
  <2>3. result' = Cardinality(Triangles(x')) /\ result' \in 0 .. 15
    BY <2>1, <2>2, <1>1, <1>2, <1>4
  <2>4. TriangleInv'
    BY <2>1, <1>1, <1>2, <1>3
  <2> QED
    BY <2>3, <2>4 DEF TriangleAnswer
<1>5. CASE i \in 0 .. 4
  <2>1. locals' = [i |-> i + 1, count |-> locals.count + Cardinality(Completing(x, i))] /\ pc' = pc
    <3>1. locals' = [Next_i EXCEPT !.count = @ + Cardinality(Completing(x, i))] /\ pc' = pc
      BY <1>5 DEF GraphTriangle5, Continue, Completing
    <3>2. Next_i = [i |-> i + 1, count |-> locals.count]
      BY <1>1 DEF Next_i
    <3> QED
      BY <3>1, <3>2
  <2>2. Cardinality(TrianglesBefore(x, i + 1)) = Cardinality(TrianglesBefore(x, i)) + Cardinality(Completing(x, i))
    BY <1>5, TrianglesNext
  <2>3. Cardinality(TrianglesBefore(x, i + 1)) \in 0 .. 10 /\ i + 1 \in 0 .. 5
    <3>1. i + 1 \in 0 .. 5
      BY <1>5
    <3> QED
      BY <3>1, TrianglesBeforeAre
  <2>4. locals'.i = i + 1 /\ locals'.count = Cardinality(TrianglesBefore(x, i + 1))
    BY <2>1, <2>2, <1>2
  <2>5. locals' \in [i : 0 .. 5, count : 0 .. 10]
    <3>1. PICK n \in 0 .. 10 : n = locals'.count
      BY <2>3, <2>4
    <3>2. locals' = [i |-> i + 1, count |-> n]
      BY <3>1, <2>1
    <3> QED
      BY <3>2, <2>3
  <2> QED
    BY <2>1, <2>4, <2>5, <1>1, <1>3
<1> QED
  BY <1>1, <1>4, <1>5

-----------------------------------------------------------------------------
\* graph_bipartite_6: the colours so far are those of a division, if one exists.
BipartiteInv ==
  /\ x \in Undirected(6)
  /\ locals \in [color : [0 .. 5 -> {-1, 0, 1}], queue : Seq(0 .. 5)]
  /\ ColourInv
BipartiteAnswer == result = BoolToInt(Bipartite(x)) /\ result \in 0 .. 1

LEMMA BipartiteCase ==
  task = "graph_bipartite_6" =>
    /\ Kept <=> Running /\ BipartiteInv
    /\ Answer <=> BipartiteAnswer
<1>1. ASSUME task = "graph_bipartite_6"
      PROVE  Kept <=> Running /\ BipartiteInv
  BY <1>1 DEF Kept, TypeOK, RandomWords, LocalsOf, LoopInv, TASK_REGISTRY, Running, BipartiteInv
<1>2. ASSUME task = "graph_bipartite_6"
      PROVE  Answer <=> BipartiteAnswer
  <2>1. TASK_REGISTRY[task].out_bits = 1
    BY <1>2 DEF TASK_REGISTRY, GRAPH_BIPARTITE_6
  <2> QED
    BY <1>2, <2>1, PowersOfTwo DEF Answer, Described, Fits, Digits, BipartiteAnswer
<1> QED
  BY <1>1, <1>2

LEMMA EdgesOfSix ==
  ASSUME x \in Undirected(6)
  PROVE  /\ \A e \in x : e = <<e[1], e[2]>> /\ e[1] \in 0 .. 5 /\ e[2] \in 0 .. 5
         /\ \A v \in 0 .. 5 : /\ Neighbours(v) \subseteq 0 .. 5
                              /\ \A u : u \in Neighbours(v) => <<u, v>> \in x \/ <<v, u>> \in x
         /\ \A e \in x : e[2] \in Neighbours(e[1]) /\ e[1] \in Neighbours(e[2])
<1>1. \A e \in x : e \in (0 .. 6 - 1) \X (0 .. 6 - 1)
  BY DEF Undirected
<1>2. \A e \in x : e = <<e[1], e[2]>> /\ e[1] \in 0 .. 5 /\ e[2] \in 0 .. 5
  BY <1>1
<1>3. \A e \in x : e[2] \in Neighbours(e[1]) /\ e[1] \in Neighbours(e[2])
  BY <1>2 DEF Neighbours
<1>4. \A v \in 0 .. 5 : /\ Neighbours(v) \subseteq 0 .. 5
                        /\ \A u : u \in Neighbours(v) => <<u, v>> \in x \/ <<v, u>> \in x
  BY DEF Neighbours
<1> QED
  BY <1>2, <1>3, <1>4

LEMMA BipartiteInit ==
  ASSUME task = "graph_bipartite_6", x \in RandomWords(task), locals = Locals(task, x)
  PROVE  BipartiteInv
<1>1. x \in Undirected(6) /\ locals = [color |-> [v \in 0 .. 5 |-> -1], queue |-> << >>]
  BY DEF RandomWords, Locals
<1>2. locals.queue = << >> /\ \A v \in 0 .. 5 : locals.color[v] = -1
  BY <1>1
<1>3. locals \in [color : [0 .. 5 -> {-1, 0, 1}], queue : Seq(0 .. 5)]
  <2>1. << >> \in Seq(0 .. 5)
    BY EmptySeq
  <2>2. PICK empty \in Seq(0 .. 5) : empty = << >>
    BY <2>1, Zenon
  <2>3. locals = [color |-> [v \in 0 .. 5 |-> -1], queue |-> empty]
    BY <1>1, <2>2
  <2> QED
    BY <2>3
<1>4. ToSet(locals.queue) = {} /\ IsInjective(locals.queue)
  BY <1>2 DEF ToSet, IsInjective
<1>5. {v \in 0 .. 5 : locals.color[v] # -1} = {}
  BY <1>2
<1>6. ColourInv
  BY <1>4, <1>5 DEF ColourInv, Bipartite
<1> QED
  BY <1>1, <1>3, <1>6 DEF BipartiteInv

LEMMA BipartiteStep ==
  ASSUME BipartiteInv, GraphBipartite6
  PROVE  BipartiteInv' /\ (pc' = "returned" => BipartiteAnswer')
<1> DEFINE color == locals.color  queue == locals.queue
           coloured == {v \in 0 .. 5 : color[v] # -1}
           uncoloured == {v \in 0 .. 5 : color[v] = -1}
<1>1. /\ x' = x /\ pc = "loop" /\ x \in Undirected(6)
      /\ color \in [0 .. 5 -> {-1, 0, 1}] /\ queue \in Seq(0 .. 5)
  BY DEF BipartiteInv, GraphBipartite6, Continue, Return, In
<1>2. /\ ToSet(queue) \subseteq coloured /\ IsInjective(queue)
      /\ \A v \in coloured \ ToSet(queue) : \A u \in Neighbours(v) : color[u] = 1 - color[v]
      /\ Bipartite(x) => \E left \in SUBSET (0 .. 5) :
           TwoColours(left, x) /\ \A v \in coloured : (v \in left) = (color[v] = 1)
  BY DEF BipartiteInv, ColourInv
<1>3. /\ \A e \in x : e = <<e[1], e[2]>> /\ e[1] \in 0 .. 5 /\ e[2] \in 0 .. 5
      /\ \A v \in 0 .. 5 : /\ Neighbours(v) \subseteq 0 .. 5
                           /\ \A u : u \in Neighbours(v) => <<u, v>> \in x \/ <<v, u>> \in x
      /\ \A e \in x : e[2] \in Neighbours(e[1]) /\ e[1] \in Neighbours(e[2])
  BY <1>1, EdgesOfSix
<1>4. \A v : Neighbours(v)' = Neighbours(v)
  BY <1>1 DEF Neighbours
<1>5. \A v \in coloured : v \in 0 .. 5 /\ color[v] \in {0, 1}
  BY <1>1
<1>6. ASSUME NEW c \in [0 .. 5 -> {-1, 0, 1}], NEW q \in Seq(0 .. 5), NEW known,
             \A v : v \in known <=> v \in 0 .. 5 /\ c[v] # -1,
             locals' = [color |-> c, queue |-> q],
             ToSet(q) \subseteq known, IsInjective(q),
             \A v \in known \ ToSet(q) : \A u \in Neighbours(v) : c[u] = 1 - c[v],
             Bipartite(x) => \E left \in SUBSET (0 .. 5) :
               TwoColours(left, x) /\ \A v \in known : (v \in left) = (c[v] = 1)
      PROVE  BipartiteInv'
  <2>1. locals'.color = c /\ locals'.queue = q /\ {v \in 0 .. 5 : c[v] # -1} = known
    BY <1>6
  <2>2. ColourInv'
    BY <2>1, <1>1, <1>4, <1>6, Zenon DEF ColourInv
  <2>3. locals' \in [color : [0 .. 5 -> {-1, 0, 1}], queue : Seq(0 .. 5)]
    BY <1>6
  <2> QED
    BY <2>2, <2>3, <1>1 DEF BipartiteInv
<1>7. ASSUME locals' = locals
      PROVE  BipartiteInv'
  BY <1>1, <1>4, <1>7, Zenon DEF BipartiteInv, ColourInv
<1>8. BoolToInt(TRUE) = 1 /\ BoolToInt(FALSE) = 0
  BY DEF BoolToInt
<1>9. CASE queue # << >>
  <2> DEFINE u == Head(queue)  rest == Tail(queue)  new == Neighbours(u) \cap uncoloured
             pushed == InOrder(new, 6)
  <2>1. /\ u \in 0 .. 5 /\ rest \in Seq(0 .. 5) /\ ToSet(queue) = {u} \cup ToSet(rest)
        /\ u \in coloured
    BY <1>1, <1>2, <1>9, SetOfEnds
  <2>2. CASE \E v \in Neighbours(u) : color[v] = color[u]
    <3>1. locals' = locals /\ result' = 0
      BY <1>9, <2>2 DEF GraphBipartite6, Return
    <3>2. ~Bipartite(x)
      <4> SUFFICES ASSUME Bipartite(x)
                   PROVE  FALSE
        OBVIOUS
      <4>1. PICK left \in SUBSET (0 .. 5) :
              TwoColours(left, x) /\ \A v \in coloured : (v \in left) = (color[v] = 1)
        BY <1>2
      <4>2. PICK v \in Neighbours(u) : color[v] = color[u]
        BY <2>2
      <4>3. v \in coloured /\ (<<u, v>> \in x \/ <<v, u>> \in x)
        BY <2>1, <4>2, <1>3
      <4>4. (u \in left) = (v \in left)
        BY <2>1, <4>1, <4>2, <4>3, Zenon
      <4>5. (<<u, v>>[1] \in left) # (<<u, v>>[2] \in left) \/ (<<v, u>>[1] \in left) # (<<v, u>>[2] \in left)
        BY <4>1, <4>3 DEF TwoColours
      <4> HIDE DEF u
      <4> QED
        BY <4>4, <4>5
    <3>3. result' = BoolToInt(Bipartite(x'))
      BY <3>1, <3>2, <1>1 DEF BoolToInt
    <3>4. BipartiteAnswer'
      BY <3>1, <3>3 DEF BipartiteAnswer
    <3> QED
      BY <3>1, <3>4, <1>7
  <2>3. CASE \A v \in Neighbours(u) : color[v] # color[u]
    <3> DEFINE c == [v \in 0 .. 5 |-> IF v \in new THEN 1 - color[u] ELSE color[v]]
    <3>1. locals' = [color |-> c, queue |-> rest \o pushed] /\ pc' = pc
      BY <1>9, <2>3, Zenon DEF GraphBipartite6, Continue
    <3>2. new \subseteq 0 .. 5 /\ (\A v \in new : v \in Neighbours(u) /\ color[v] = -1 /\ v \notin coloured) /\ u \notin new
      BY <2>1
    <3>3. pushed \in Seq(0 .. 5) /\ ToSet(pushed) = new /\ IsInjective(pushed)
      <4>1. PICK n \in Nat : n = 6
        OBVIOUS
      <4>2. n - 1 = 5 /\ new \subseteq 0 .. n - 1
        BY <3>2, <4>1
      <4> HIDE DEF new
      <4>3. InOrder(new, n) \in Seq(0 .. n - 1) /\ ToSet(InOrder(new, n)) = new /\ IsInjective(InOrder(new, n))
        BY <4>2, InOrderIs, Zenon
      <4> QED
        BY <4>1, <4>2, <4>3
    <3>4. c \in [0 .. 5 -> {-1, 0, 1}] /\ c[u] = color[u] /\ \A v \in coloured : c[v] = color[v]
      BY <2>1, <3>2, <1>1, <1>5
    <3>5. \A v \in new : c[v] = 1 - color[u]
      BY <3>2
    <3>6. \A v : v \in coloured \cup new <=> v \in 0 .. 5 /\ c[v] # -1
      <4>1. color[u] \in {0, 1}
        BY <2>1, <1>5
      <4> QED
        BY <4>1, <3>2
    <3>7. IsInjective(rest) /\ ToSet(rest) \cap new = {}
      <4>1. IsInjective(rest)
        <5>1. Len(queue) \in Nat /\ Len(rest) = Len(queue) - 1 /\ \A k \in 1 .. Len(rest) : rest[k] = queue[k + 1]
          BY <1>1, <1>9
        <5>2. DOMAIN rest = 1 .. Len(rest) /\ DOMAIN queue = 1 .. Len(queue)
          BY <2>1, <1>1
        <5>3. \A k \in 1 .. Len(rest) : k + 1 \in 1 .. Len(queue)
          BY <5>1
        <5> HIDE DEF rest, queue
        <5>4. \A a, b \in 1 .. Len(queue) : queue[a] = queue[b] => a = b
          BY <5>2, <1>2 DEF IsInjective
        <5>5. \A a, b \in 1 .. Len(rest) : rest[a] = rest[b] => a = b
          <6> TAKE a, b \in 1 .. Len(rest)
          <6> HAVE rest[a] = rest[b]
          <6>1. a + 1 = b + 1
            BY <5>1, <5>3, <5>4
          <6> QED
            BY <6>1
        <5> QED
          BY <5>2, <5>5 DEF IsInjective
      <4>2. ToSet(rest) \subseteq coloured
        BY <2>1, <1>2
      <4> HIDE DEF new, rest, coloured
      <4> QED
        BY <4>1, <4>2, <3>2, Zenon
    <3> HIDE DEF c, new, rest, pushed, u, coloured, queue
    <3>8. /\ rest \o pushed \in Seq(0 .. 5) /\ ToSet(rest \o pushed) = ToSet(rest) \cup new
      BY <2>1, <3>3, SetOfConcat
    <3>9. IsInjective(rest \o pushed)
      BY <2>1, <3>3, <3>7, InjectiveConcat
    <3>10. ASSUME NEW v \in (coloured \cup new) \ ToSet(rest \o pushed), NEW w \in Neighbours(v)
           PROVE  c[w] = 1 - c[v]
      <4>1. v \in coloured /\ v \notin ToSet(rest)
        BY <3>8, <3>10
      <4>2. CASE v = u
        <5>1. CASE w \in new
          BY <5>1, <4>2, <3>4, <3>5
        <5>2. CASE w \notin new
          <6>1. w \in 0 .. 5 /\ color[w] # -1
            BY <5>2, <4>2, <3>10, <2>1, <1>3 DEF new
          <6>2. w \in coloured
            BY <6>1 DEF coloured
          <6>3. color[w] \in {0, 1} /\ color[u] \in {0, 1} /\ color[w] # color[u] /\ c[w] = color[w]
            BY <6>2, <4>2, <3>4, <3>10, <2>1, <2>3, <1>5
          <6> QED
            BY <6>3, <4>2, <3>4
        <5> QED
          BY <5>1, <5>2
      <4>3. CASE v # u
        <5>1. v \in coloured \ ToSet(queue)
          BY <4>1, <4>3, <2>1
        <5>2. color[w] = 1 - color[v] /\ color[v] \in {0, 1} /\ w \in 0 .. 5
          BY <5>1, <1>2, <1>3, <1>5
        <5>3. w \in coloured
          BY <5>2 DEF coloured
        <5> QED
          BY <4>1, <5>2, <5>3, <3>4
      <4> QED
        BY <4>2, <4>3
    <3>11. ASSUME NEW left \in SUBSET (0 .. 5), TwoColours(left, x),
                  \A v \in coloured : (v \in left) = (color[v] = 1)
           PROVE  \A v \in coloured \cup new : (v \in left) = (c[v] = 1)
      <4> TAKE v \in coloured \cup new
      <4>1. CASE v \in coloured
        BY <4>1, <3>4, <3>11
      <4>2. CASE v \in new
        <5>1. <<u, v>> \in x \/ <<v, u>> \in x
          BY <4>2, <3>2, <2>1, <1>3
        <5>2. (<<u, v>>[1] \in left) # (<<u, v>>[2] \in left) \/ (<<v, u>>[1] \in left) # (<<v, u>>[2] \in left)
          BY <5>1, <3>11 DEF TwoColours
        <5>3. (u \in left) # (v \in left)
          BY <5>2
        <5>4. (u \in left) = (color[u] = 1) /\ color[u] \in {0, 1} /\ c[v] = 1 - color[u]
          BY <4>2, <3>5, <3>11, <2>1, <1>5
        <5> QED
          BY <5>3, <5>4
      <4> QED
        BY <4>1, <4>2
    <3>12. ToSet(rest \o pushed) \subseteq coloured \cup new
      BY <3>8, <2>1, <1>2
    <3>13. Bipartite(x) => \E left \in SUBSET (0 .. 5) :
             TwoColours(left, x) /\ \A v \in coloured \cup new : (v \in left) = (c[v] = 1)
      BY <3>11, <1>2
    <3>14. BipartiteInv'
      BY <3>1, <3>4, <3>6, <3>8, <3>9, <3>10, <3>12, <3>13, <1>6, Zenon
    <3> QED
      BY <3>1, <3>14, <1>1
  <2> QED
    BY <2>2, <2>3
<1>10. CASE queue = << >>
  <2>1. ToSet(queue) = {}
    BY <1>10 DEF ToSet
  <2>2. ASSUME NEW v \in coloured, NEW w \in Neighbours(v)
        PROVE  color[w] = 1 - color[v] /\ w \in coloured
    <3>1. color[w] = 1 - color[v] /\ color[v] \in {0, 1} /\ w \in 0 .. 5
      BY <2>1, <1>2, <1>3, <1>5
    <3> QED
      BY <3>1
  <2>3. CASE uncoloured # {}
    <3> DEFINE start == Min(uncoloured)
               c == [color EXCEPT ![start] = 0]
    <3>1. locals' = [color |-> c, queue |-> <<start>>] /\ pc' = pc
      BY <1>10, <2>3 DEF GraphBipartite6, Continue
    <3>2. start \in uncoloured
      <4>1. uncoloured \subseteq Nat
        OBVIOUS
      <4> HIDE DEF uncoloured
      <4> QED
        BY <4>1, <2>3, Least, Zenon
    <3>3. start \in 0 .. 5 /\ start \notin coloured
      BY <3>2
    <3> HIDE DEF start
    <3>4. c \in [0 .. 5 -> {-1, 0, 1}] /\ c[start] = 0 /\ \A v \in coloured : c[v] = color[v]
      BY <3>3, <1>1, <1>5, Zenon
    <3>5. \A v : v \in coloured \cup {start} <=> v \in 0 .. 5 /\ c[v] # -1
      BY <3>3, <1>1
    <3>6. PICK q \in Seq(0 .. 5) : q = <<start>>
      <4>1. \A v \in 0 .. 5 : <<v>> \in Seq(0 .. 5)
        OBVIOUS
      <4> QED
        BY <4>1, <3>3, Zenon
    <3>7. ToSet(q) = {start} /\ IsInjective(q)
      BY <3>6 DEF ToSet, IsInjective
    <3> HIDE DEF c, coloured
    <3>8. ASSUME NEW v \in (coloured \cup {start}) \ ToSet(q), NEW w \in Neighbours(v)
          PROVE  c[w] = 1 - c[v]
      <4>1. v \in coloured
        BY <3>7, <3>8
      <4> QED
        BY <4>1, <3>4, <3>8, <2>2
    <3>9. ASSUME NEW left \in SUBSET (0 .. 5), TwoColours(left, x),
                 \A v \in coloured : (v \in left) = (color[v] = 1)
          PROVE  \E side \in SUBSET (0 .. 5) :
                   TwoColours(side, x) /\ \A v \in coloured \cup {start} : (v \in side) = (c[v] = 1)
      <4>1. CASE start \notin left
        <5>1. \A v \in coloured \cup {start} : (v \in left) = (c[v] = 1)
          BY <4>1, <3>4, <3>9
        <5> QED
          BY <5>1, <3>9
      <4>2. CASE start \in left
        <5> DEFINE side == {v \in 0 .. 5 : IF v \in coloured THEN v \in left ELSE v \notin left}
        <5>1. ASSUME NEW e \in x
              PROVE  (e[1] \in side) # (e[2] \in side)
          <6>1. (e[1] \in left) # (e[2] \in left)
            BY <3>9 DEF TwoColours
          <6>2. e[1] \in coloured <=> e[2] \in coloured
            BY <2>2, <1>3
          <6>3. e[1] \in 0 .. 5 /\ e[2] \in 0 .. 5
            BY <1>3
          <6> QED
            BY <6>1, <6>2, <6>3
        <5>2. \A v \in coloured \cup {start} : (v \in side) = (c[v] = 1)
          <6>1. ASSUME NEW v \in coloured
                PROVE  (v \in side) = (c[v] = 1)
            <7>1. v \in 0 .. 5
              BY <1>5
            <7>2. v \in side <=> v \in left
              BY <7>1
            <7>3. c[v] = color[v] /\ (v \in left) = (color[v] = 1)
              BY <3>4, <3>9
            <7> HIDE DEF side
            <7> QED
              BY <7>2, <7>3
          <6>2. (start \in side) = (c[start] = 1)
            <7>1. start \notin side
              BY <4>2, <3>3
            <7>2. c[start] # 1
              BY <3>4
            <7> HIDE DEF side
            <7> QED
              BY <7>1, <7>2
          <6> QED
            BY <6>1, <6>2
        <5>3. side \in SUBSET (0 .. 5)
          OBVIOUS
        <5> HIDE DEF side
        <5>4. TwoColours(side, x)
          BY <5>1 DEF TwoColours
        <5> QED
          BY <5>2, <5>3, <5>4
      <4> QED
        BY <4>1, <4>2
    <3>10. Bipartite(x) => \E left \in SUBSET (0 .. 5) :
             TwoColours(left, x) /\ \A v \in coloured \cup {start} : (v \in left) = (c[v] = 1)
      BY <3>9, <1>2
    <3>11. locals' = [color |-> c, queue |-> q] /\ ToSet(q) \subseteq coloured \cup {start}
      BY <3>1, <3>6, <3>7
    <3>12. BipartiteInv'
      BY <3>4, <3>5, <3>7, <3>8, <3>10, <3>11, <1>6, Zenon
    <3> QED
      BY <3>1, <3>12, <1>1
  <2>4. CASE uncoloured = {}
    <3>1. locals' = locals /\ result' = 1
      BY <1>10, <2>4 DEF GraphBipartite6, Return
    <3>2. \A v \in 0 .. 5 : v \in coloured
      BY <2>4
    <3> DEFINE left == {v \in 0 .. 5 : color[v] = 1}
    <3>3. ASSUME NEW e \in x
          PROVE  (e[1] \in left) # (e[2] \in left)
      <4>1. e[1] \in 0 .. 5 /\ e[2] \in 0 .. 5 /\ e[2] \in Neighbours(e[1])
        BY <1>3
      <4>2. color[e[2]] = 1 - color[e[1]] /\ color[e[1]] \in {0, 1}
        BY <4>1, <3>2, <2>2, <1>5
      <4> QED
        BY <4>1, <4>2
    <3>4. Bipartite(x)
      BY <3>3, Zenon DEF Bipartite, TwoColours
    <3>5. result' = BoolToInt(Bipartite(x'))
      BY <3>1, <3>4, <1>1, <1>8, Zenon
    <3>6. BipartiteAnswer'
      BY <3>1, <3>5 DEF BipartiteAnswer
    <3> QED
      BY <3>1, <3>6, <1>7
  <2> QED
    BY <2>3, <2>4
<1> QED
  BY <1>9, <1>10

BinsearchInv ==
  x \in Ascending(8) \X Nibble /\ locals \in [i : 0 .. 8] /\ \A k \in 1 .. i : x[1][k] # x[2]
BinsearchAnswer == result = HalvingSearch(x[1], x[2]) /\ result \in 0 .. 15

LEMMA BinsearchCase ==
  task = "binsearch_8x4" =>
    /\ Kept <=> Running /\ BinsearchInv
    /\ Answer <=> BinsearchAnswer
<1>1. ASSUME task = "binsearch_8x4"
      PROVE  Kept <=> Running /\ BinsearchInv
  BY <1>1 DEF Kept, TypeOK, RandomWords, LocalsOf, LoopInv, TASK_REGISTRY, Running, BinsearchInv
<1>2. ASSUME task = "binsearch_8x4"
      PROVE  Answer <=> BinsearchAnswer
  <2>1. TASK_REGISTRY[task].out_bits = 4
    BY <1>2 DEF TASK_REGISTRY, BINSEARCH_8X4
  <2> QED
    BY <1>2, <2>1, PowersOfTwo DEF Answer, Described, Fits, Digits, BinsearchAnswer
<1> QED
  BY <1>1, <1>2

LEMMA BinsearchInit ==
  ASSUME task = "binsearch_8x4", x \in RandomWords(task), locals = Locals(task, x)
  PROVE  BinsearchInv
<1>1. x \in Ascending(8) \X Nibble
  BY DEF RandomWords
<1>2. locals = [i |-> 0]
  BY DEF Locals
<1> QED BY <1>1, <1>2 DEF BinsearchInv, i

\* In a sorted array the values below v are the ones before its first v.
LEMMA FirstInSorted ==
  ASSUME NEW arr \in Ascending(8), NEW v \in Nibble, NEW n \in 0 .. 7, arr[n + 1] = v,
         \A k \in 1 .. n : arr[k] # v
  PROVE  Cardinality({k \in DOMAIN arr : arr[k] < v}) = n
<1>1. arr \in [1 .. 8 -> 0 .. 15] /\ \A k, m \in 1 .. 8 : k < m => arr[k] <= arr[m]
  BY DEF Ascending, Sorted, Nibble
<1>2. {k \in DOMAIN arr : arr[k] < v} = 1 .. n
  <2>1. ASSUME NEW k \in 1 .. n PROVE k \in 1 .. 8 /\ arr[k] < v
    <3>1. k \in 1 .. 8 /\ n + 1 \in 1 .. 8 /\ k < n + 1
      OBVIOUS
    <3>2. arr[k] <= arr[n + 1] /\ arr[k] \in 0 .. 15
      BY <3>1, <1>1
    <3>3. arr[k] # v
      OBVIOUS
    <3> QED BY <3>1, <3>2, <3>3, <1>1
  <2>2. ASSUME NEW k \in 1 .. 8, arr[k] < v PROVE k \in 1 .. n
    <3>1. CASE k > n
      <4>1. k = n + 1 \/ n + 1 < k
        BY <3>1
      <4>2. n + 1 \in 1 .. 8 /\ (n + 1 < k => arr[n + 1] <= arr[k])
        BY <1>1
      <4> QED BY <4>1, <4>2, <2>2, <1>1
    <3> QED BY <3>1
  <2> QED BY <2>1, <2>2, <1>1
<1>3. Cardinality(1 .. n) = n
  BY CountTo
<1> QED BY <1>2, <1>3, Zenon

LEMMA BinsearchStep ==
  ASSUME BinsearchInv, Binsearch8x4
  PROVE  BinsearchInv' /\ (pc' = "returned" => BinsearchAnswer')
<1> USE DEF i
<1>1. /\ task' = task /\ x' = x /\ i \in 0 .. 8
      /\ x[1] \in Ascending(8) /\ x[2] \in Nibble /\ locals = [i |-> i]
  BY DEF BinsearchInv, Binsearch8x4, Continue, Return, Next_i
<1>2. x[1] \in [1 .. 8 -> 0 .. 15] /\ DOMAIN x[1] = 1 .. 8
  BY <1>1 DEF Ascending, Nibble
<1>3. CASE i = 8
  <2>1. locals' = locals /\ result' = 8
    BY <1>3 DEF Binsearch8x4, Return
  <2>2. \A k \in 1 .. 8 : x[1][k] # x[2]
    BY <1>3 DEF BinsearchInv
  <2>3. HalvingSearch(x[1], x[2]) = 8
    <3> DEFINE below == Cardinality({k \in DOMAIN x[1] : x[1][k] < x[2]})
    <3>1. below \in 0 .. 8
      <4>1. {k \in DOMAIN x[1] : x[1][k] < x[2]} \subseteq 1 .. 8
        BY <1>2
      <4> QED
        BY <4>1, CountSome
    <3>2. ~(below < 8 /\ x[1][below + 1] = x[2])
      <4> HIDE DEF below
      <4> QED BY <2>2, <3>1
    <3> QED BY <3>2 DEF HalvingSearch
  <2> QED BY <2>1, <2>3, <1>1 DEF BinsearchAnswer, BinsearchInv
<1>4. CASE i < 8 /\ x[1][i + 1] = x[2]
  <2>1. locals' = locals /\ result' = i
    BY <1>4 DEF Binsearch8x4, Return
  <2>2. Cardinality({k \in DOMAIN x[1] : x[1][k] < x[2]}) = i
    BY <1>1, <1>4, FirstInSorted DEF BinsearchInv
  <2>3. HalvingSearch(x[1], x[2]) = i
    BY <2>2, <1>4 DEF HalvingSearch
  <2> QED BY <2>1, <2>3, <1>1 DEF BinsearchAnswer, BinsearchInv
<1>5. CASE i < 8 /\ x[1][i + 1] # x[2]
  <2>1. locals' = [i |-> i + 1] /\ pc' = pc
    BY <1>1, <1>5 DEF Binsearch8x4, Continue, Next_i
  <2>2. pc' # "returned"
    BY <2>1 DEF Binsearch8x4, In
  <2> QED BY <2>1, <2>2, <1>1, <1>5 DEF BinsearchInv
<1> QED BY <1>1, <1>3, <1>4, <1>5

-----------------------------------------------------------------------------
\* kth_smallest_4x8: no loop of its own.
KthInv == x \in [1 .. 4 -> Byte] \X (0 .. 3) /\ locals \in [i : {0}]
KthAnswer ==
  /\ result = CHOOSE v \in ToSet(x[1]) : RankOf(v, x[1]) <= x[2] /\ x[2] < RankOf(v + 1, x[1])
  /\ result \in 0 .. 255

LEMMA KthCase ==
  task = "kth_smallest_4x8" =>
    /\ Kept <=> Running /\ KthInv
    /\ Answer <=> KthAnswer
<1>1. ASSUME task = "kth_smallest_4x8"
      PROVE  Kept <=> Running /\ KthInv
  BY <1>1 DEF Kept, TypeOK, RandomWords, LocalsOf, LoopInv, TASK_REGISTRY, Running, KthInv
<1>2. ASSUME task = "kth_smallest_4x8"
      PROVE  Answer <=> KthAnswer
  <2>1. TASK_REGISTRY[task].out_bits = 8
    BY <1>2 DEF TASK_REGISTRY, KTH_SMALLEST_4X8
  <2> QED
    BY <1>2, <2>1, PowersOfTwo DEF Answer, Described, Fits, Digits, KthAnswer
<1> QED
  BY <1>1, <1>2

\* The value at a place of the sorted sequence is one of the values, and the only
\* one with that rank.
LEMMA KthIs ==
  ASSUME NEW s \in Seq(Int), NEW k \in 0 .. Len(s) - 1
  PROVE  /\ InsertionSort(s)[k + 1] \in ToSet(s)
         /\ \A v \in Int : RankOf(v, s) <= k /\ k < RankOf(v + 1, s) <=> v = InsertionSort(s)[k + 1]
<1>1. PICK a \in Seq(Int) : /\ a = InsertionSort(s) /\ Len(a) = Len(s) /\ Sorted(a)
                            /\ \A v : RankOf(v, a) = RankOf(v, s)
  BY InsertionSortIs
<1>2. k + 1 \in 1 .. Len(a) /\ k \in Int
  BY <1>1
<1>3. PICK u \in Int : u = a[k + 1]
  BY <1>1, <1>2
<1>4. \A v \in Int : RankOf(v, s) \in Int
  BY RankIs
<1>5. \A v \in Int : u < v <=> k + 1 <= RankOf(v, s)
  <2>1. \A v \in Int : a[k + 1] < v <=> k + 1 <= RankOf(v, a)
    BY <1>1, <1>2, RankOfSorted
  <2> QED
    BY <2>1, <1>1, <1>3, Zenon
<1>6. ASSUME NEW v \in Int
      PROVE  RankOf(v, s) <= k /\ k < RankOf(v + 1, s) <=> v = u
  <2>1. PICK w \in Int : w = v + 1
    OBVIOUS
  <2>2. RankOf(v, s) <= k <=> ~ (u < v)
    <3>1. PICK r \in Int : r = RankOf(v, s)
      BY <1>4
    <3>2. u < v <=> k + 1 <= r
      BY <1>5, <3>1
    <3> QED
      BY <1>2, <3>1, <3>2
  <2>3. k < RankOf(w, s) <=> u < w
    <3>1. PICK r \in Int : r = RankOf(w, s)
      BY <1>4
    <3>2. u < w <=> k + 1 <= r
      BY <1>5, <3>1
    <3> QED
      BY <1>2, <3>1, <3>2
  <2> QED
    BY <2>1, <2>2, <2>3
<1>7. u \in ToSet(s)
  <2>1. RankOf(u, s) # RankOf(u + 1, s)
    <3>1. RankOf(u, s) <= k /\ k < RankOf(u + 1, s)
      BY <1>6
    <3>2. PICK q \in Int : q = RankOf(u, s)
      BY <1>4
    <3>3. u + 1 \in Int
      OBVIOUS
    <3>4. PICK r \in Int : r = RankOf(u + 1, s)
      BY <1>4, <3>3
    <3> QED
      BY <3>1, <3>2, <3>4, <1>2
  <2>2. Less(u, s) # Less(u + 1, s)
    BY <2>1, RankIs
  <2>3. PICK m \in DOMAIN s : ~ (s[m] < u <=> s[m] < u + 1)
    BY <2>2 DEF Less
  <2>4. s[m] \in Int
    OBVIOUS
  <2>5. s[m] = u
    BY <2>3, <2>4
  <2> QED
    BY <2>5 DEF ToSet
<1> QED
  BY <1>1, <1>3, <1>6, <1>7

LEMMA KthInit ==
  ASSUME task = "kth_smallest_4x8", x \in RandomWords(task), locals = Locals(task, x)
  PROVE  KthInv
BY SMTT(30) DEF RandomWords, Locals, KthInv

LEMMA KthStep ==
  ASSUME KthInv, KthSmallest4x8
  PROVE  KthInv' /\ (pc' = "returned" => KthAnswer')
<1>1. /\ x' = x /\ locals' = locals /\ x[1] \in [1 .. 4 -> Byte] /\ x[2] \in 0 .. 3
      /\ result' = InsertionSort(x[1])[x[2] + 1]
  BY DEF KthInv, KthSmallest4x8, Return
<1>2. PICK s \in Seq(Int) : s = x[1] /\ Len(s) = 4 /\ ToSet(s) \subseteq Byte
  <2>1. PICK n \in Nat : n = 4
    OBVIOUS
  <2>2. PICK t : t = x[1]
    OBVIOUS
  <2>3. t \in [1 .. n -> Byte]
    BY <1>1, <2>1, <2>2
  <2>4. t \in [1 .. n -> Int]
    BY <2>3, ByteIsInt
  <2>5. t \in Seq(Int) /\ Len(t) = n
    BY <2>4
  <2>6. ToSet(t) \subseteq Byte
    BY <2>3 DEF ToSet
  <2> QED
    BY <2>1, <2>2, <2>5, <2>6
<1>3. PICK k \in 0 .. Len(s) - 1 : k = x[2]
  BY <1>1, <1>2
<1>4. PICK u : u = InsertionSort(s)[k + 1]
  OBVIOUS
<1>5. u \in ToSet(s) /\ \A v \in Int : RankOf(v, s) <= k /\ k < RankOf(v + 1, s) <=> v = u
  BY <1>4, KthIs, Zenon
<1>6. u \in 0 .. 255 /\ \A v \in ToSet(s) : v \in Int
  BY <1>2, <1>5, ByteIsInt
<1>7. u = CHOOSE v \in ToSet(s) : RankOf(v, s) <= k /\ k < RankOf(v + 1, s)
  <2>1. \A v \in ToSet(s) : RankOf(v, s) <= k /\ k < RankOf(v + 1, s) <=> v = u
    BY <1>5, <1>6
  <2> QED
    BY <2>1, <1>5
<1>8. result' = u
  BY <1>1, <1>2, <1>3, <1>4
<1>9. KthInv'
  BY <1>1 DEF KthInv
<1> QED
  BY <1>1, <1>2, <1>3, <1>6, <1>7, <1>8, <1>9, Zenon DEF KthAnswer

-----------------------------------------------------------------------------
\* The first of the greatest values.

\* Where it is: nothing is greater, and everything before it is less.
LEMMA FirstMaxIs ==
  ASSUME NEW n \in Nat, n > 0, NEW a \in [1 .. n -> Byte]
  PROVE  \A p : p = FirstMax(a)
                  <=> /\ p \in 0 .. n - 1
                      /\ \A m \in 1 .. n : a[m] <= a[p + 1]
                      /\ \A m \in 1 .. p : a[m] < a[p + 1]
<1> DEFINE Maxima == {k \in 0 .. n - 1 : \A m \in 1 .. n : a[m] <= a[k + 1]}
<1>1. ASSUME NEW m \in 1 .. n
      PROVE  a[m] \in 0 .. 255 /\ a[m] \in Int
  <2>1. a[m] \in Byte
    OBVIOUS
  <2> QED
    BY <2>1, ByteIsInt
<1>2. Maxima # {}
  <2> DEFINE vals == {a[m] : m \in 1 .. n}
  <2>1. vals \subseteq 0 .. 255 /\ vals # {}
    <3>1. 1 \in 1 .. n /\ a[1] \in vals
      OBVIOUS
    <3>2. ASSUME NEW y \in vals
          PROVE  y \in 0 .. 255
      <4>1. PICK m \in 1 .. n : y = a[m]
        OBVIOUS
      <4> QED
        BY <4>1, <1>1, Zenon
    <3> HIDE DEF vals
    <3> QED
      BY <3>1, <3>2, Zenon
  <2>2. Max(vals) \in vals /\ \A y \in vals : y <= Max(vals)
    <3>1. PICK top \in Nat : top = 255
      OBVIOUS
    <3> HIDE DEF vals
    <3> QED
      BY <2>1, <3>1, Greatest, Zenon
  <2>3. PICK m \in 1 .. n : a[m] = Max(vals)
    BY <2>2, Zenon
  <2>4. m - 1 \in 0 .. n - 1 /\ (m - 1) + 1 = m
    OBVIOUS
  <2>5. \A k \in 1 .. n : a[k] <= a[m]
    BY <2>2, <2>3
  <2> QED
    BY <2>4, <2>5, Zenon
<1>3. FirstMax(a) = Min(Maxima)
  <2>1. DOMAIN a = 1 .. n /\ Len(a) = n
    OBVIOUS
  <2> QED
    BY <2>1 DEF FirstMax, FirstOf
<1>4. FirstMax(a) \in Maxima /\ \A y \in Maxima : FirstMax(a) <= y
  <2>1. Maxima \subseteq Nat
    OBVIOUS
  <2> HIDE DEF Maxima
  <2> QED
    BY <1>2, <1>3, <2>1, Least, Zenon
<1>5. ASSUME NEW p \in 0 .. n - 1, \A m \in 1 .. n : a[m] <= a[p + 1]
      PROVE  p = FirstMax(a) <=> \A m \in 1 .. p : a[m] < a[p + 1]
  <2>1. PICK q \in 0 .. n - 1 : q = FirstMax(a)
    BY <1>4
  <2>2. /\ q + 1 \in 1 .. n /\ p + 1 \in 1 .. n /\ q <= p
        /\ a[q + 1] <= a[p + 1] /\ a[p + 1] <= a[q + 1]
    BY <1>4, <1>5, <2>1
  <2> HIDE DEF Maxima
  <2>3. a[q + 1] = a[p + 1] /\ a[p + 1] \in Int
    BY <1>1, <2>2
  <2>4. ASSUME p = q, NEW m \in 1 .. p
        PROVE  a[m] < a[p + 1]
    <3>1. m \in 1 .. n /\ m - 1 \in 0 .. n - 1 /\ (m - 1) + 1 = m /\ m - 1 < p
      OBVIOUS
    <3>2. m - 1 \notin Maxima
      BY <1>4, <2>1, <2>4, <3>1
    <3>3. PICK k \in 1 .. n : ~(a[k] <= a[m])
      BY <3>1, <3>2 DEF Maxima
    <3>4. a[k] <= a[p + 1] /\ a[k] \in Int /\ a[m] \in Int
      BY <1>1, <1>5, <3>1
    <3> QED
      BY <3>3, <3>4, <2>3
  <2>5. ASSUME p # q
        PROVE  \E m \in 1 .. p : ~(a[m] < a[p + 1])
    <3>1. q + 1 \in 1 .. p
      BY <2>2, <2>5
    <3>2. ~(a[q + 1] < a[p + 1])
      BY <2>3
    <3> QED
      BY <3>1, <3>2
  <2> QED
    BY <2>1, <2>4, <2>5
<1> QED
  BY <1>4, <1>5, Zenon

\* The same for the beginnings of a sequence.
LEMMA FirstMaxOfPrefix ==
  ASSUME NEW w \in Nat, NEW a \in [1 .. w -> Byte], NEW n \in 1 .. w
  PROVE  \A p : p = FirstMax(SubSeq(a, 1, n))
                  <=> /\ p \in 0 .. n - 1
                      /\ \A m \in 1 .. n : a[m] <= a[p + 1]
                      /\ \A m \in 1 .. p : a[m] < a[p + 1]
<1> DEFINE s == SubSeq(a, 1, n)
<1>1. n \in Nat /\ n > 0 /\ n \in 0 .. w
  OBVIOUS
<1>2. s \in [1 .. n -> Byte] /\ \A k \in 1 .. n : s[k] = a[k]
  <2> HIDE DEF s
  <2> QED
    BY <1>1, FirstBits DEF s
<1> HIDE DEF s
<1>3. \A p : p = FirstMax(s)
                <=> /\ p \in 0 .. n - 1
                    /\ \A m \in 1 .. n : s[m] <= s[p + 1]
                    /\ \A m \in 1 .. p : s[m] < s[p + 1]
  BY <1>1, <1>2, FirstMaxIs, Zenon
<1>4. ASSUME NEW p \in 0 .. n - 1
      PROVE  /\ (\A m \in 1 .. n : s[m] <= s[p + 1]) <=> \A m \in 1 .. n : a[m] <= a[p + 1]
             /\ (\A m \in 1 .. p : s[m] < s[p + 1]) <=> \A m \in 1 .. p : a[m] < a[p + 1]
  <2>1. p + 1 \in 1 .. n /\ \A m \in 1 .. p : m \in 1 .. n
    BY <1>1
  <2> QED
    BY <2>1, <1>2
<1> QED
  BY <1>3, <1>4, Zenon DEF s

\* Of one value it is that one;
LEMMA FirstMaxOfOne ==
  ASSUME NEW w \in Nat, w > 0, NEW a \in [1 .. w -> Byte]
  PROVE  FirstMax(SubSeq(a, 1, 1)) = 0
<1>1. a[1] \in Int
  <2>1. a[1] \in Byte
    OBVIOUS
  <2> QED
    BY <2>1, ByteIsInt
<1>2. 1 \in 1 .. w /\ \A m \in 1 .. 1 : a[m] <= a[0 + 1]
  BY <1>1
<1> QED
  BY <1>2, FirstMaxOfPrefix

\* one more value is it if it is greater;
LEMMA FirstMaxOfMore ==
  ASSUME NEW w \in Nat, NEW a \in [1 .. w -> Byte], NEW n \in 1 .. w - 1,
         NEW p, p = FirstMax(SubSeq(a, 1, n))
  PROVE  /\ p \in 0 .. n - 1
         /\ a[n + 1] > a[p + 1] => FirstMax(SubSeq(a, 1, n + 1)) = n
         /\ ~(a[n + 1] > a[p + 1]) => FirstMax(SubSeq(a, 1, n + 1)) = p
<1>1. \A m \in 1 .. w : a[m] \in Int
  <2>1. \A m \in 1 .. w : a[m] \in Byte
    OBVIOUS
  <2> QED
    BY <2>1, ByteIsInt
<1>2. /\ p \in 0 .. n - 1
      /\ \A m \in 1 .. n : a[m] <= a[p + 1]
      /\ \A m \in 1 .. p : a[m] < a[p + 1]
  <2>1. n \in 1 .. w
    OBVIOUS
  <2> QED
    BY <2>1, FirstMaxOfPrefix, ZenonT(60)
<1>3. n + 1 \in 1 .. w /\ \A m \in 1 .. n + 1 : m \in 1 .. n \/ m = n + 1
  OBVIOUS
<1>4. a[n + 1] \in Int /\ a[p + 1] \in Int /\ \A m \in 1 .. n : a[m] \in Int
  BY <1>1, <1>2
<1>5. CASE a[n + 1] > a[p + 1]
  <2>1. \A m \in 1 .. n : a[m] < a[n + 1]
    BY <1>2, <1>4, <1>5
  <2>2. \A m \in 1 .. n + 1 : a[m] <= a[n + 1]
    BY <2>1, <1>3, <1>4
  <2>3. n \in 0 .. (n + 1) - 1
    OBVIOUS
  <2>4. n = FirstMax(SubSeq(a, 1, n + 1))
    BY <1>3, <2>1, <2>2, <2>3, FirstMaxOfPrefix, Zenon
  <2> QED
    BY <1>2, <1>5, <2>4
<1>6. CASE ~(a[n + 1] > a[p + 1])
  <2>1. \A m \in 1 .. n + 1 : a[m] <= a[p + 1]
    BY <1>2, <1>3, <1>4, <1>6
  <2>2. p \in 0 .. (n + 1) - 1
    BY <1>2
  <2> QED
    BY <1>2, <1>3, <1>6, <2>1, <2>2, FirstMaxOfPrefix
<1> QED
  BY <1>5, <1>6

\* and the whole sequence is its longest beginning.
LEMMA FirstMaxOfAll ==
  ASSUME NEW w \in Nat, w > 0, NEW a \in [1 .. w -> Byte]
  PROVE  FirstMax(SubSeq(a, 1, w)) = FirstMax(a) /\ FirstMax(a) \in 0 .. w - 1
<1>1. w \in 1 .. w
  OBVIOUS
<1> QED
  BY <1>1, FirstMaxIs, FirstMaxOfPrefix

-----------------------------------------------------------------------------
\* argmax_8x8: the best of the bytes so far.
ArgmaxInv ==
  /\ x \in [1 .. 8 -> Byte]
  /\ locals \in [i : 0 .. 8, best_val : Byte \cup {-1}, best_idx : 0 .. 7]
  /\ IF i = 0 THEN locals.best_val = -1
     ELSE /\ locals.best_idx = FirstMax(SubSeq(x, 1, i))
          /\ locals.best_val = x[locals.best_idx + 1]
ArgmaxAnswer == result = FirstMax(x) /\ result \in 0 .. 7

LEMMA ArgmaxCase ==
  task = "argmax_8x8" =>
    /\ Kept <=> Running /\ ArgmaxInv
    /\ Answer <=> ArgmaxAnswer
<1>1. ASSUME task = "argmax_8x8"
      PROVE  Kept <=> Running /\ ArgmaxInv
  BY <1>1 DEF Kept, TypeOK, RandomWords, LocalsOf, LoopInv, TASK_REGISTRY, Running, ArgmaxInv
<1>2. ASSUME task = "argmax_8x8"
      PROVE  Answer <=> ArgmaxAnswer
  <2>1. TASK_REGISTRY[task].out_bits = 3
    BY <1>2 DEF TASK_REGISTRY, ARGMAX_8X8
  <2> QED
    BY <1>2, <2>1, PowersOfTwo DEF Answer, Described, Fits, Digits, ArgmaxAnswer
<1> QED
  BY <1>1, <1>2

LEMMA ArgmaxInit ==
  ASSUME task = "argmax_8x8", x \in RandomWords(task), locals = Locals(task, x)
  PROVE  ArgmaxInv
BY DEF RandomWords, Locals, ArgmaxInv, i

LEMMA ArgmaxStep ==
  ASSUME ArgmaxInv, Argmax8x8
  PROVE  ArgmaxInv' /\ (pc' = "returned" => ArgmaxAnswer')
<1> USE DEF i
<1> DEFINE val == locals.best_val  idx == locals.best_idx
<1>1. /\ x' = x /\ x \in [1 .. 8 -> Byte] /\ pc = "loop"
      /\ i \in 0 .. 8 /\ val \in Byte \cup {-1} /\ idx \in 0 .. 7
      /\ locals = [i |-> i, best_val |-> val, best_idx |-> idx]
  BY DEF ArgmaxInv, Argmax8x8, Continue, Return, In
<1>2. IF i = 0 THEN val = -1 ELSE idx = FirstMax(SubSeq(x, 1, i)) /\ val = x[idx + 1]
  BY DEF ArgmaxInv
<1>3. ASSUME NEW n \in 1 .. 8, NEW p \in 0 .. 7, p = FirstMax(SubSeq(x, 1, n)),
             locals' = [i |-> n, best_val |-> x[p + 1], best_idx |-> p]
      PROVE  ArgmaxInv'
  <2>1. n \in 0 .. 8 /\ n # 0 /\ x[p + 1] \in Byte
    BY <1>1
  <2> QED
    BY <1>1, <1>3, <2>1 DEF ArgmaxInv
<1>4. PICK w \in Nat : w = 8
  OBVIOUS
<1>5. w > 0 /\ x \in [1 .. w -> Byte]
  BY <1>1, <1>4
<1>6. CASE i = 8
  <2>1. locals' = locals /\ result' = idx
    BY <1>6 DEF Argmax8x8, Return
  <2>2. idx = FirstMax(x)
    <3>1. FirstMax(SubSeq(x, 1, w)) = FirstMax(x)
      BY <1>5, FirstMaxOfAll
    <3> QED
      BY <3>1, <1>2, <1>4, <1>6
  <2> QED
    BY <2>1, <2>2, <1>1, <1>2, <1>3, <1>6 DEF ArgmaxAnswer
<1>7. CASE i = 0
  <2>1. x[1] > val
    <3>1. x[1] \in Byte
      BY <1>1
    <3> QED
      BY <1>2, <1>7, <3>1, ByteIsInt
  <2>2. locals' = [i |-> 1, best_val |-> x[1], best_idx |-> 0] /\ pc' = pc
    BY <1>1, <1>7, <2>1 DEF Argmax8x8, Continue, Better
  <2>3. FirstMax(SubSeq(x, 1, 1)) = 0
    BY <1>5, FirstMaxOfOne
  <2> QED
    BY <2>2, <2>3, <1>1, <1>3
<1>8. CASE i \in 1 .. 7
  <2> DEFINE best == IF x[i + 1] > val THEN i ELSE idx
  <2>1. locals' = [i |-> i + 1, best_val |-> x[best + 1], best_idx |-> best] /\ pc' = pc
    BY <1>1, <1>2, <1>8 DEF Argmax8x8, Continue, Better, Next_i
  <2>2. best = FirstMax(SubSeq(x, 1, i + 1)) /\ i + 1 \in 1 .. 8 /\ best \in 0 .. 7
    <3>1. i \in 1 .. w - 1
      BY <1>4, <1>8
    <3>2. FirstMax(SubSeq(x, 1, i + 1)) = IF x[i + 1] > x[idx + 1] THEN i ELSE idx
      <4>1. PICK n \in 1 .. w - 1 : n = i
        BY <3>1
      <4>2. PICK p : p = idx
        OBVIOUS
      <4>3. p = FirstMax(SubSeq(x, 1, n))
        BY <1>2, <1>8, <4>1, <4>2
      <4>4. /\ x[n + 1] > x[p + 1] => FirstMax(SubSeq(x, 1, n + 1)) = n
            /\ ~(x[n + 1] > x[p + 1]) => FirstMax(SubSeq(x, 1, n + 1)) = p
        <5> HIDE DEF i, idx, val, best
        <5> QED
          BY <1>5, <4>3, FirstMaxOfMore, Zenon
      <4> QED
        BY <4>1, <4>2, <4>4
    <3> QED
      BY <3>2, <1>1, <1>2, <1>8
  <2> QED
    BY <2>1, <2>2, <1>1, <1>3
<1> QED
  BY <1>1, <1>6, <1>7, <1>8

-----------------------------------------------------------------------------
\* heap_check_7: every node is compared with its parent.
HeapInv ==
  /\ x \in [1 .. 7 -> Nibble] /\ locals \in [i : 0 .. 6]
  /\ \A k \in 0 .. i - 1 : x[k \div 2 + 1] <= x[k + 2]
HeapAnswer == result = BoolToInt(MinHeap(x)) /\ result \in 0 .. 1

LEMMA HeapCase ==
  task = "heap_check_7" =>
    /\ Kept <=> Running /\ HeapInv
    /\ Answer <=> HeapAnswer
<1>1. ASSUME task = "heap_check_7"
      PROVE  Kept <=> Running /\ HeapInv
  BY <1>1 DEF Kept, TypeOK, RandomWords, LocalsOf, LoopInv, TASK_REGISTRY, Running, HeapInv
<1>2. ASSUME task = "heap_check_7"
      PROVE  Answer <=> HeapAnswer
  <2>1. TASK_REGISTRY[task].out_bits = 1
    BY <1>2 DEF TASK_REGISTRY, HEAP_CHECK_7
  <2> QED
    BY <1>2, <2>1, PowersOfTwo DEF Answer, Described, Fits, Digits, HeapAnswer
<1> QED
  BY <1>1, <1>2

LEMMA HeapInit ==
  ASSUME task = "heap_check_7", x \in RandomWords(task), locals = Locals(task, x)
  PROVE  HeapInv
BY DEF RandomWords, Locals, HeapInv, i

\* What the comparisons of nodes with their parents say.
LEMMA HeapOfParents ==
  ASSUME NEW a \in [1 .. 7 -> Nibble]
  PROVE  MinHeap(a) <=> \A k \in 0 .. 5 : a[k \div 2 + 1] <= a[k + 2]
<1>1. /\ 0 \div 2 = 0 /\ 1 \div 2 = 0 /\ 2 \div 2 = 1 /\ 3 \div 2 = 1 /\ 4 \div 2 = 2
      /\ 5 \div 2 = 2
  OBVIOUS
<1>2. (\A k \in 0 .. 5 : a[k \div 2 + 1] <= a[k + 2])
        <=> /\ a[1] <= a[2] /\ a[1] <= a[3] /\ a[2] <= a[4] /\ a[2] <= a[5]
            /\ a[3] <= a[6] /\ a[3] <= a[7]
  <2>1. 0 .. 5 = {0, 1, 2, 3, 4, 5}
    OBVIOUS
  <2> QED
    BY <1>1, <2>1
<1>3. \A k \in 1 .. 7 : a[k] \in Int
  BY DEF Nibble
<1> QED
  BY <1>2, <1>3 DEF MinHeap

LEMMA HeapStep ==
  ASSUME HeapInv, HeapCheck7
  PROVE  HeapInv' /\ (pc' = "returned" => HeapAnswer')
<1> USE DEF i
<1>1. x' = x /\ i \in 0 .. 6 /\ locals = [i |-> i] /\ x \in [1 .. 7 -> Nibble] /\ pc = "loop"
  BY DEF HeapInv, HeapCheck7, Continue, Return, In
<1>2. \A m \in 1 .. 7 : x[m] \in Int
  BY <1>1 DEF Nibble
<1>3. i < 6 => x[i \div 2 + 1] \in Int /\ x[i + 2] \in Int
  <2>1. i < 6 => i \div 2 + 1 \in 1 .. 7 /\ i + 2 \in 1 .. 7
    BY <1>1
  <2> QED
    BY <1>2, <2>1, Zenon
<1>4. CASE i = 6
  <2>1. locals' = locals /\ result' = 1
    BY <1>4 DEF HeapCheck7, Return
  <2>2. MinHeap(x)
    BY <1>1, <1>4, HeapOfParents DEF HeapInv
  <2> QED
    BY <2>1, <2>2, <1>1 DEF HeapAnswer, HeapInv, BoolToInt
<1>5. CASE i < 6 /\ x[i \div 2 + 1] > x[i + 2]
  <2>1. locals' = locals /\ result' = 0
    BY <1>5 DEF HeapCheck7, Return
  <2>2. ~ MinHeap(x)
    <3>1. i \div 2 + 1 \in 1 .. 7 /\ i + 2 \in 1 .. 7 /\ i \in 0 .. 5
      BY <1>1, <1>5
    <3> QED
      BY <1>1, <1>5, <1>3, <3>1, HeapOfParents
  <2> QED
    BY <2>1, <2>2, <1>1 DEF HeapAnswer, HeapInv, BoolToInt
<1>6. CASE i < 6 /\ x[i \div 2 + 1] <= x[i + 2]
  <2>1. locals' = [i |-> i + 1] /\ pc' = pc
    BY <1>1, <1>6, <1>3 DEF HeapCheck7, Continue, Next_i
  <2>2. \A k \in 0 .. i : x[k \div 2 + 1] <= x[k + 2]
    <3>1. \A k \in 0 .. i : k = i \/ k \in 0 .. i - 1
      BY <1>1
    <3> QED
      BY <1>6, <3>1 DEF HeapInv
  <2> QED
    BY <2>1, <2>2, <1>1, <1>6 DEF HeapInv
<1> QED
  BY <1>1, <1>4, <1>5, <1>6, <1>3

-----------------------------------------------------------------------------
\* ll_traverse_4: the pointers are followed.
TraverseInv ==
  /\ x \in [1 .. 4 -> Nibble] \X [1 .. 4 -> 0 .. 3] \X (0 .. 3)
  /\ locals \in [i : 0 .. 3, idx : 0 .. 3]
  /\ locals.idx = Follow(x[2])[i] /\ i <= x[3]
TraverseAnswer == result = x[1][Follow(x[2])[x[3]] + 1] /\ result \in 0 .. 15

LEMMA TraverseCase ==
  task = "ll_traverse_4" =>
    /\ Kept <=> Running /\ TraverseInv
    /\ Answer <=> TraverseAnswer
<1>1. ASSUME task = "ll_traverse_4"
      PROVE  Kept <=> Running /\ TraverseInv
  BY <1>1 DEF Kept, TypeOK, RandomWords, LocalsOf, LoopInv, TASK_REGISTRY, Running, TraverseInv
<1>2. ASSUME task = "ll_traverse_4"
      PROVE  Answer <=> TraverseAnswer
  <2>1. TASK_REGISTRY[task].out_bits = 4
    BY <1>2 DEF TASK_REGISTRY, LL_TRAVERSE_4
  <2> QED
    BY <1>2, <2>1, PowersOfTwo DEF Answer, Described, Fits, Digits, TraverseAnswer
<1> QED
  BY <1>1, <1>2

\* The function that follows them exists.
LEMMA FollowSteps ==
  ASSUME NEW next \in [1 .. 4 -> 0 .. 3]
  PROVE  /\ Follow(next)[0] = 0
         /\ \A n \in Nat : Follow(next)[n + 1] = next[Follow(next)[n] + 1]
<1> DEFINE Step(f) == [n \in Nat |-> IF n = 0 THEN 0 ELSE next[f[n - 1] + 1]]
           h == [p \in Nat \X (0 .. 3) |-> next[p[2] + 1]]
<1>1. \A n \in Nat, s \in 0 .. 3 : h[<<n, s>>] = next[s + 1]
  OBVIOUS
<1>2. \A n \in Nat, s \in 0 .. 3 : h[<<n, s>>] \in 0 .. 3
  OBVIOUS
<1> HIDE DEF h
<1>3. PICK g : Iterates(0 .. 3, 0, h, g)
  <2>1. 0 \in 0 .. 3
    OBVIOUS
  <2> QED
    BY <1>2, <2>1, Recursion, Zenon
<1>4. g \in [Nat -> 0 .. 3] /\ g[0] = 0 /\ \A n \in Nat : g[n + 1] = next[g[n] + 1]
  <2>1. g \in [Nat -> 0 .. 3] /\ g[0] = 0 /\ \A n \in Nat : g[n + 1] = h[<<n, g[n]>>]
    BY <1>3 DEF Iterates
  <2>2. ASSUME NEW n \in Nat
        PROVE  g[n + 1] = next[g[n] + 1]
    <3>1. g[n] \in 0 .. 3 /\ g[n + 1] = h[<<n, g[n]>>]
      BY <2>1
    <3> QED
      BY <1>1, <3>1, Zenon
  <2> QED
    BY <2>1, <2>2
<1>5. g = Step(g)
  <2>1. \A n \in Nat : g[n] = IF n = 0 THEN 0 ELSE next[g[n - 1] + 1]
    <3> TAKE n \in Nat
    <3>1. CASE n > 0
      <4>1. n - 1 \in Nat /\ (n - 1) + 1 = n
        BY <3>1
      <4>2. g[(n - 1) + 1] = next[g[n - 1] + 1]
        BY <1>4, <4>1, SMTT(30)
      <4> QED
        BY <3>1, <4>1, <4>2
    <3> QED
      BY <1>4, <3>1
  <2> QED
    BY <1>4, <2>1
<1> DEFINE F == CHOOSE f : f = Step(f)
<1>6. F = Step(F)
  BY <1>5
<1>7. Follow(next) = F
  BY DEF Follow
<1> HIDE DEF F
<1>8. F[0] = 0
  BY <1>6
<1>9. \A n \in Nat : F[n + 1] = next[F[n] + 1]
  BY <1>6
<1> QED
  BY <1>7, <1>8, <1>9

LEMMA TraverseInit ==
  ASSUME task = "ll_traverse_4", x \in RandomWords(task), locals = Locals(task, x)
  PROVE  TraverseInv
BY FollowSteps DEF RandomWords, Locals, TraverseInv, i

LEMMA TraverseStep ==
  ASSUME TraverseInv, LlTraverse4
  PROVE  TraverseInv' /\ (pc' = "returned" => TraverseAnswer')
<1> USE DEF i
<1>1. /\ x' = x /\ i \in 0 .. 3 /\ locals.idx \in 0 .. 3 /\ pc = "loop"
      /\ locals = [i |-> i, idx |-> locals.idx]
      /\ x[1] \in [1 .. 4 -> Nibble] /\ x[2] \in [1 .. 4 -> 0 .. 3] /\ x[3] \in 0 .. 3
  BY DEF TraverseInv, LlTraverse4, Continue, Return, In
<1>2. locals.idx = Follow(x[2])[i] /\ i <= x[3]
  BY DEF TraverseInv
<1>3. CASE i = x[3]
  <2>1. locals' = locals /\ result' = x[1][locals.idx + 1]
    BY <1>3 DEF LlTraverse4, Return
  <2>2. result' \in 0 .. 15
    BY <1>1, <2>1 DEF Nibble
  <2> QED
    BY <2>1, <2>2, <1>1, <1>2, <1>3 DEF TraverseAnswer, TraverseInv
<1>4. CASE i # x[3]
  <2>1. locals' = [i |-> i + 1, idx |-> x[2][locals.idx + 1]] /\ pc' = pc
    BY <1>1, <1>4, Zenon DEF LlTraverse4, Continue, Next_i
  <2>2. Follow(x[2])[i + 1] = x[2][locals.idx + 1]
    BY <1>1, <1>2, FollowSteps
  <2>3. x[2][locals.idx + 1] \in 0 .. 3 /\ i + 1 <= x[3]
    BY <1>1, <1>2, <1>4
  <2> QED
    BY <2>1, <2>2, <2>3, <1>1 DEF TraverseInv
<1> QED
  BY <1>3, <1>4

-----------------------------------------------------------------------------
\* merge_2x4: what is out is sorted, and less than what remains.
MergeTwoInv ==
  /\ x \in Ascending(4) \X Ascending(4) /\ locals \in [i : 0 .. 4, j : 0 .. 4, out : Seq(Nibble)]
  /\ MergeInv
MergeTwoAnswer ==
  /\ result = InsertionSort(x[1] \o x[2])
  /\ Len(result) * 4 = 32 /\ \A k \in DOMAIN result : result[k] \in 0 .. 2 ^ 4 - 1

LEMMA MergeTwoCase ==
  task = "merge_2x4" =>
    /\ Kept <=> Running /\ MergeTwoInv
    /\ Answer <=> MergeTwoAnswer
<1>1. ASSUME task = "merge_2x4"
      PROVE  Kept <=> Running /\ MergeTwoInv
  BY <1>1 DEF Kept, TypeOK, RandomWords, LocalsOf, LoopInv, TASK_REGISTRY, Running, MergeTwoInv
<1>2. ASSUME task = "merge_2x4"
      PROVE  Answer <=> MergeTwoAnswer
  <2>1. TASK_REGISTRY[task].out_bits = 32
    BY <1>2 DEF TASK_REGISTRY, MERGE_2X4
  <2> QED
    BY <1>2, <2>1, PowersOfTwo DEF Answer, Described, Fits, Digits, MergeTwoAnswer
<1> QED
  BY <1>1, <1>2

LEMMA NibblesAreInts == \A s \in Seq(Nibble) : s \in Seq(Int)
<1> TAKE s \in Seq(Nibble)
<1>1. Len(s) \in Nat /\ s \in [1 .. Len(s) -> Nibble]
  OBVIOUS
<1>2. s \in [1 .. Len(s) -> Int]
  BY <1>1, NibbleIsInt
<1> QED
  BY <1>1, <1>2

LEMMA AscendingIs ==
  ASSUME NEW a \in Ascending(4)
  PROVE  a \in Seq(Nibble) /\ a \in Seq(Int) /\ Len(a) = 4 /\ Sorted(a) /\ SubSeq(a, 1, 4) = a
<1>1. PICK n \in Nat : n = 4
  OBVIOUS
<1>2. a \in [1 .. n -> Nibble] /\ Sorted(a)
  BY <1>1 DEF Ascending
<1>3. a \in Seq(Nibble) /\ Len(a) = n
  BY <1>2
<1>4. SubSeq(a, 1, Len(a)) = a
  BY <1>3, SubSeqFull
<1> QED
  BY <1>1, <1>2, <1>3, <1>4, NibblesAreInts

\* What remains of an array from n on: it shrinks by its least value.
LEMMA RestOf ==
  ASSUME NEW a \in Ascending(4), NEW n \in 0 .. 4
  PROVE  /\ SubSeq(a, n + 1, 4) \in Seq(Nibble) /\ SubSeq(a, n + 1, 4) \in Seq(Int)
         /\ Len(SubSeq(a, n + 1, 4)) = 4 - n /\ Sorted(SubSeq(a, n + 1, 4))
         /\ n = 4 => SubSeq(a, n + 1, 4) = << >>
         /\ n < 4 => /\ a[n + 1] \in Nibble
                     /\ SubSeq(a, n + 1, 4) = <<a[n + 1]>> \o SubSeq(a, n + 2, 4)
                     /\ \A v \in ToSet(SubSeq(a, n + 1, 4)) : a[n + 1] <= v
<1>1. a \in Seq(Int) /\ a \in Seq(Nibble) /\ Len(a) = 4 /\ Sorted(a)
  BY AscendingIs
<1>2. SubSeq(a, n + 1, 4) \in Seq(Nibble)
  <2>1. \A k \in n + 1 .. 4 : a[k] \in Nibble
    <3>1. \A k \in 1 .. Len(a) : a[k] \in Nibble
      BY <1>1, SMTT(30)
    <3>2. \A k \in n + 1 .. 4 : k \in 1 .. 4
      OBVIOUS
    <3> QED
      BY <3>1, <3>2, <1>1
  <2>2. n + 1 \in Int /\ 4 \in Int
    OBVIOUS
  <2> QED
    BY <2>1, <2>2, SubSeqProperties
<1>3. Len(SubSeq(a, n + 1, 4)) = 4 - n /\ Sorted(SubSeq(a, n + 1, 4))
  <2>1. PICK w \in Nat : w = 4
    OBVIOUS
  <2>2. n + 1 \in 1 .. Len(a) + 1 /\ w \in (n + 1) - 1 .. Len(a) /\ w - (n + 1) + 1 = 4 - n
    BY <1>1, <2>1
  <2>3. Len(SubSeq(a, n + 1, w)) = w - (n + 1) + 1 /\ Sorted(SubSeq(a, n + 1, w))
    BY <1>1, <2>2, SortedPart, Zenon
  <2> QED
    BY <2>1, <2>2, <2>3
<1>4. n = 4 => SubSeq(a, n + 1, 4) = << >>
  BY SubSeqEmpty
<1>5. ASSUME n < 4
      PROVE  /\ a[n + 1] \in Nibble
             /\ SubSeq(a, n + 1, 4) = <<a[n + 1]>> \o SubSeq(a, n + 2, 4)
             /\ \A v \in ToSet(SubSeq(a, n + 1, 4)) : a[n + 1] <= v
  <2>1. PICK w \in Nat : w = 4
    OBVIOUS
  <2>2. n + 1 \in 1 .. Len(a) /\ w \in n + 1 .. Len(a) /\ (n + 1) + 1 = n + 2
    BY <1>1, <1>5, <2>1
  <2>3. SubSeq(a, n + 1, w) = <<a[n + 1]>> \o SubSeq(a, (n + 1) + 1, w)
    BY <1>1, <2>2, SubSeqRecursiveFirst
  <2>4. ASSUME NEW v \in ToSet(SubSeq(a, n + 1, w))
        PROVE  a[n + 1] <= v
    <3>1. n + 1 \in 1 .. Len(a) + 1 /\ w \in (n + 1) - 1 .. Len(a)
      BY <1>1, <2>1
    <3>2. PICK k \in n + 1 .. w : v = a[k]
      <4>1. PICK m \in 1 .. Len(a) + 1 : m = n + 1
        BY <3>1
      <4>2. PICK s \in Seq(Int) : s = a
        BY <1>1
      <4>3. m \in 1 .. Len(s) + 1 /\ w \in m - 1 .. Len(s) /\ v \in ToSet(SubSeq(s, m, w))
        BY <2>4, <3>1, <4>1, <4>2
      <4>4. \E k \in m .. w : v = s[k]
        BY <4>3, SliceValues
      <4> QED
        BY <4>1, <4>2, <4>4
    <3>3. k \in 1 .. Len(a) /\ (k = n + 1 \/ n + 1 < k)
      BY <1>1, <2>1
    <3>4. \A l, m \in 1 .. Len(a) : l < m => a[l] <= a[m]
      BY <1>1 DEF Sorted
    <3>5. a[n + 1] \in Int
      <4>1. PICK s \in Seq(Int) : s = a
        BY <1>1
      <4>2. \A m \in 1 .. Len(s) : s[m] \in Int
        OBVIOUS
      <4> QED
        BY <2>2, <4>1, <4>2
    <3> QED
      BY <2>2, <3>2, <3>3, <3>4, <3>5
  <2>5. a[n + 1] \in Nibble
    <3>1. PICK s \in Seq(Nibble) : s = a
      BY <1>1
    <3>2. \A m \in 1 .. Len(s) : s[m] \in Nibble
      OBVIOUS
    <3> QED
      BY <2>2, <3>1, <3>2
  <2> QED
    BY <2>1, <2>2, <2>3, <2>4, <2>5
<1> QED
  BY <1>2, <1>3, <1>4, <1>5, NibblesAreInts, Zenon

LEMMA MergeTwoInit ==
  ASSUME task = "merge_2x4", x \in RandomWords(task), locals = Locals(task, x)
  PROVE  MergeTwoInv
<1> USE DEF i
<1>1. x \in Ascending(4) \X Ascending(4) /\ locals = [i |-> 0, j |-> 0, out |-> << >>]
  BY DEF RandomWords, Locals
<1>2. PICK a \in Ascending(4) : a = x[1]
  BY <1>1
<1>3. PICK b \in Ascending(4) : b = x[2]
  BY <1>1
<1>4. /\ a \in Seq(Int) /\ SubSeq(a, 1, 4) = a /\ b \in Seq(Int) /\ SubSeq(b, 1, 4) = b
  BY AscendingIs
<1>5. PICK empty \in Seq(Nibble) : empty = << >>
  BY EmptySeq, Zenon
<1>6. PICK rest \in Seq(Int) : rest = a \o b
  BY <1>4, ConcatProperties, Zenon
<1>7. empty \o rest = rest
  BY <1>5, <1>6, ConcatEmptySeq
<1>8. Len(empty) = 0 + 0 /\ Sorted(empty) /\ ToSet(empty) = {}
  BY <1>5 DEF Sorted, ToSet
<1>9. /\ locals.i = 0 /\ locals.j = 0 /\ locals.out = empty
      /\ SubSeq(x[1], 0 + 1, 4) \o SubSeq(x[2], 0 + 1, 4) = rest
  <2>1. 0 + 1 = 1
    OBVIOUS
  <2>2. locals.i = 0 /\ locals.j = 0 /\ locals.out = empty
    BY <1>1, <1>5
  <2>3. SubSeq(x[1], 1, 4) = a /\ SubSeq(x[2], 1, 4) = b
    BY <1>2, <1>3, <1>4
  <2> QED
    BY <2>1, <2>2, <2>3, <1>6, Zenon
<1>10. MergeInv
  BY <1>2, <1>3, <1>6, <1>7, <1>8, <1>9, Zenon DEF MergeInv
<1>11. locals \in [i : 0 .. 4, j : 0 .. 4, out : Seq(Nibble)]
  <2>1. locals = [i |-> 0, j |-> 0, out |-> empty] /\ 0 \in 0 .. 4
    BY <1>1, <1>5
  <2> QED
    BY <2>1
<1> QED
  BY <1>1, <1>10, <1>11 DEF MergeTwoInv

-----------------------------------------------------------------------------
\* One value more out: it is the least of what remains, from either array.
LEMMA FirstThenRest ==
  ASSUME NEW v \in Nibble, NEW s \in Seq(Nibble), NEW t \in Seq(Nibble), s = <<v>> \o t
  PROVE  /\ \A r \in ToSet(t) : r \in ToSet(s)
         /\ \A u \in Seq(Nibble) : s \o u = <<v>> \o (t \o u)
<1>1. \A y \in Nibble : <<y>> \in Seq(Nibble)
  OBVIOUS
<1>2. PICK one \in Seq(Nibble) : one = <<v>>
  BY <1>1, Zenon
<1>3. ToSet(one \o t) = ToSet(one) \cup ToSet(t)
  BY SetOfConcat
<1>4. \A u \in Seq(Nibble) : (one \o t) \o u = one \o (t \o u)
  BY ConcatAssociative
<1> QED
  BY <1>2, <1>3, <1>4

\* R remains of rest when v, its least value, is taken from one of the two arrays.
TakenFrom(v, A, B, R, rest) ==
  /\ R = A \o B /\ (rest = <<v>> \o R \/ rest = A \o (<<v>> \o B))
  /\ \A q \in ToSet(R) : v <= q
SortedBelow(out, rest) == Sorted(out) /\ \A p \in ToSet(out), q \in ToSet(rest) : p <= q

LEMMA OneMoreOut ==
  ASSUME NEW out \in Seq(Nibble), NEW A \in Seq(Nibble), NEW B \in Seq(Nibble), NEW v \in Nibble,
         NEW rest \in Seq(Nibble), NEW R \in Seq(Nibble), TakenFrom(v, A, B, R, rest), SortedBelow(out, rest)
  PROVE  /\ Append(out, v) \in Seq(Nibble) /\ Len(Append(out, v)) = Len(out) + 1 /\ Sorted(Append(out, v))
         /\ \A p \in ToSet(Append(out, v)), q \in ToSet(R) : p <= q
         /\ InsertionSort(Append(out, v) \o R) = InsertionSort(out \o rest)
<1> USE DEF TakenFrom, SortedBelow
<1>1. PICK one \in Seq(Nibble) : one = <<v>>
  <2>1. \A y \in Nibble : <<y>> \in Seq(Nibble)
    OBVIOUS
  <2> QED
    BY <2>1, Zenon
<1>2. PICK new \in Seq(Nibble) : new = out \o one /\ new = Append(out, v)
  BY <1>1, AppendIsConcat, ConcatProperties, Zenon
<1>3. /\ ToSet(new) = ToSet(out) \cup ToSet(one) /\ ToSet(one) = {v} /\ Len(new) = Len(out) + 1
      /\ Len(one) = 1 /\ Sorted(one)
  <2>1. ToSet(one) = {v} /\ Len(one) = 1 /\ Sorted(one)
    BY <1>1 DEF ToSet, Sorted
  <2>2. ToSet(out \o one) = ToSet(out) \cup ToSet(one) /\ Len(out \o one) = Len(out) + Len(one)
    BY SetOfConcat
  <2> QED
    BY <2>1, <2>2, <1>2
<1>4. PICK tail \in Seq(Nibble) : tail = one \o B
  BY ConcatProperties, Zenon
<1>5. rest = one \o R \/ rest = A \o tail
  BY <1>1, <1>4, Zenon
<1>6. /\ ToSet(R) = ToSet(A) \cup ToSet(B) /\ Len(R) = Len(A) + Len(B)
      /\ ToSet(tail) = ToSet(one) \cup ToSet(B) /\ Len(tail) = Len(one) + Len(B)
      /\ ToSet(one \o R) = ToSet(one) \cup ToSet(R) /\ Len(one \o R) = Len(one) + Len(R)
      /\ ToSet(A \o tail) = ToSet(A) \cup ToSet(tail) /\ Len(A \o tail) = Len(A) + Len(tail)
  <2>1. \A s, t \in Seq(Nibble) : ToSet(s \o t) = ToSet(s) \cup ToSet(t) /\ Len(s \o t) = Len(s) + Len(t)
    BY SetOfConcat
  <2> QED
    BY <2>1, <1>4, Zenon
<1>7. Len(A) \in Nat /\ Len(B) \in Nat /\ Len(out) \in Nat
  OBVIOUS
<1>8. ToSet(rest) = ToSet(R) \cup {v} /\ Len(rest) = Len(R) + 1
  <2>1. CASE rest = one \o R
    <3>1. Len(R) \in Nat
      OBVIOUS
    <3> QED
      BY <2>1, <3>1, <1>3, <1>6
  <2>2. CASE rest = A \o tail
    <3>1. Len(rest) = Len(A) + (1 + Len(B)) /\ Len(R) = Len(A) + Len(B)
      BY <2>2, <1>3, <1>6
    <3>2. Len(rest) = Len(R) + 1
      BY <3>1, <1>7
    <3>3. ToSet(rest) = ToSet(R) \cup {v}
      BY <2>2, <1>3, <1>6
    <3> QED
      BY <3>2, <3>3
  <2> QED
    BY <2>1, <2>2, <1>5, Zenon
<1>9. /\ out \in Seq(Int) /\ A \in Seq(Int) /\ B \in Seq(Int) /\ rest \in Seq(Int) /\ R \in Seq(Int)
      /\ one \in Seq(Int) /\ new \in Seq(Int) /\ tail \in Seq(Int)
  BY NibblesAreInts
<1>10. Sorted(new)
  <2>1. \A p \in ToSet(out), q \in ToSet(one) : p <= q
    BY <1>3, <1>8
  <2> QED
    BY <2>1, <1>2, <1>3, <1>9, SortedConcat, Zenon
<1>11. \A p \in ToSet(new), q \in ToSet(R) : p <= q
  BY <1>3, <1>8
<1>12. PICK before \in Seq(Int) : before = out \o rest
  BY <1>9, ConcatProperties, Zenon
<1>13. PICK after \in Seq(Int) : after = new \o R
  BY <1>9, ConcatProperties, Zenon
<1>14. Len(before) = Len(after)
  <2>1. Len(before) = Len(out) + Len(rest) /\ Len(after) = Len(new) + Len(R)
    BY <1>9, <1>12, <1>13, ConcatProperties
  <2>2. Len(R) \in Nat
    OBVIOUS
  <2> QED
    BY <2>1, <2>2, <1>3, <1>7, <1>8
<1>15. ASSUME NEW u \in Int
       PROVE  RankOf(u, before) = RankOf(u, after)
  <2>1. /\ RankOf(u, before) = RankOf(u, out) + RankOf(u, rest)
        /\ RankOf(u, after) = RankOf(u, new) + RankOf(u, R)
        /\ RankOf(u, new) = RankOf(u, out) + RankOf(u, one)
        /\ RankOf(u, R) = RankOf(u, A) + RankOf(u, B)
        /\ RankOf(u, tail) = RankOf(u, one) + RankOf(u, B)
        /\ RankOf(u, one \o R) = RankOf(u, one) + RankOf(u, R)
        /\ RankOf(u, A \o tail) = RankOf(u, A) + RankOf(u, tail)
    <3>1. \A s, t \in Seq(Int) : RankOf(u, s \o t) = RankOf(u, s) + RankOf(u, t)
      BY RankOfConcat
    <3> QED
      BY <3>1, <1>2, <1>4, <1>9, <1>12, <1>13, Zenon
  <2>2. RankOf(u, out) \in Int /\ RankOf(u, one) \in Int /\ RankOf(u, A) \in Int /\ RankOf(u, B) \in Int
    <3>1. \A s \in Seq(Int) : RankOf(u, s) \in 0 .. Len(s)
      BY RankIs, Zenon
    <3>2. \A s \in Seq(Int) : RankOf(u, s) \in Int
      BY <3>1
    <3> QED
      BY <3>2, <1>9
  <2>3. RankOf(u, rest) = RankOf(u, one) + RankOf(u, A) + RankOf(u, B)
    <3>1. CASE rest = one \o R
      BY <2>1, <2>2, <3>1
    <3>2. CASE rest = A \o tail
      BY <2>1, <2>2, <3>2
    <3> QED
      BY <3>1, <3>2, <1>5, Zenon
  <2>4. PICK o, e, p, q \in Int : o = RankOf(u, out) /\ e = RankOf(u, one) /\ p = RankOf(u, A) /\ q = RankOf(u, B)
    BY <2>2
  <2>5. RankOf(u, before) = o + (e + p + q) /\ RankOf(u, after) = (o + e) + (p + q)
    BY <2>1, <2>3, <2>4
  <2> QED
    BY <2>5
<1>16. InsertionSort(after) = InsertionSort(before)
  BY <1>14, <1>15, SortSame
<1> QED
  BY <1>2, <1>3, <1>10, <1>11, <1>12, <1>13, <1>16

LEMMA MergeTwoStep ==
  ASSUME MergeTwoInv, Merge2x4
  PROVE  MergeTwoInv' /\ (pc' = "returned" => MergeTwoAnswer')
<1> USE DEF i
<1> DEFINE j == locals.j  out == locals.out
<1>1. PICK a \in Ascending(4) : a = x[1]
  BY DEF MergeTwoInv
<1>2. PICK b \in Ascending(4) : b = x[2]
  BY DEF MergeTwoInv
<1>3. /\ x' = x /\ x \in Ascending(4) \X Ascending(4) /\ pc = "loop"
      /\ i \in 0 .. 4 /\ j \in 0 .. 4 /\ out \in Seq(Nibble)
      /\ locals = [i |-> i, j |-> j, out |-> out]
  BY DEF MergeTwoInv, Merge2x4, Continue, Return, In
<1>4. PICK m \in 0 .. 4 : m = i
  BY <1>3
<1>5. PICK n \in 0 .. 4 : n = j
  BY <1>3
<1>6. PICK o \in Seq(Nibble) : o = out
  BY <1>3
<1> DEFINE A(k) == SubSeq(a, k + 1, 4)
           B(k) == SubSeq(b, k + 1, 4)
<1>7. PICK rest \in Seq(Nibble) : rest = A(m) \o B(n)
  <2>1. A(m) \in Seq(Nibble) /\ B(n) \in Seq(Nibble)
    BY RestOf, Zenon
  <2> HIDE DEF A, B
  <2>2. A(m) \o B(n) \in Seq(Nibble)
    BY <2>1, ConcatProperties
  <2> QED
    BY <2>2, Zenon
<1>8. /\ Len(o) = m + n /\ Sorted(o) /\ \A v \in ToSet(o), r \in ToSet(rest) : v <= r
      /\ InsertionSort(o \o rest) = InsertionSort(a \o b)
  BY <1>1, <1>2, <1>4, <1>5, <1>6, <1>7 DEF MergeTwoInv, MergeInv
\* What has to be shown of the next locals.
<1>9. ASSUME NEW k \in 0 .. 4, NEW l \in 0 .. 4, NEW new \in Seq(Nibble),
             locals' = [i |-> k, j |-> l, out |-> new],
             Len(new) = k + l, Sorted(new),
             \A v \in ToSet(new), r \in ToSet(A(k) \o B(l)) : v <= r,
             InsertionSort(new \o (A(k) \o B(l))) = InsertionSort(a \o b)
      PROVE  MergeTwoInv'
  <2>1. locals'.i = k /\ locals'.j = l /\ locals'.out = new /\ x'[1] = a /\ x'[2] = b
    BY <1>1, <1>2, <1>3, <1>9
  <2>2. MergeInv'
    BY <1>9, <2>1 DEF MergeInv
  <2>3. locals' \in [i : 0 .. 4, j : 0 .. 4, out : Seq(Nibble)]
    BY <1>9
  <2> QED
    BY <2>2, <2>3, <1>3 DEF MergeTwoInv
<1>10. CASE ~ (m < 4 /\ n < 4)
  <2>1. locals' = locals /\ result' = Nibbles(o \o A(m) \o B(n))
    BY <1>1, <1>2, <1>4, <1>5, <1>6, <1>10 DEF Merge2x4, Return
  <2>2. A(m) \in Seq(Nibble) /\ B(n) \in Seq(Nibble) /\ Len(A(m)) = 4 - m /\ Len(B(n)) = 4 - n
        /\ Sorted(A(m)) /\ Sorted(B(n)) /\ (m = 4 => A(m) = << >>) /\ (n = 4 => B(n) = << >>)
    BY RestOf, Zenon
  <2> HIDE DEF A, B
  <2>3. (o \o A(m)) \o B(n) = o \o rest
    BY <2>2, <1>7, ConcatAssociative, SMTT(30)
  <2>4. rest = A(m) \/ rest = B(n)
    <3>1. CASE m = 4
      BY <2>2, <3>1, <1>7, ConcatEmptySeq, Zenon
    <3>2. CASE n = 4
      BY <2>2, <3>2, <1>7, ConcatEmptySeq
    <3> QED
      BY <3>1, <3>2, <1>10
  <2>5. Sorted(rest)
    BY <2>2, <2>4
  <2>6. PICK all \in Seq(Nibble) : all = o \o rest
    BY ConcatProperties, Zenon
  <2>7. o \in Seq(Int) /\ rest \in Seq(Int) /\ all \in Seq(Int)
    BY NibblesAreInts
  <2>8. Sorted(all)
    BY <2>5, <2>6, <2>7, <1>8, SortedConcat
  <2>9. all = InsertionSort(a \o b)
    BY <2>6, <2>7, <2>8, <1>8, SortOfSorted, Zenon
  <2>10. result' = all
    BY <2>1, <2>3, <2>6, NibblesKept, Zenon
  <2>11. Len(all) = 8
    <3>1. Len(all) = Len(o) + Len(rest)
      BY <2>6, SetOfConcat
    <3>2. Len(rest) = Len(A(m)) + Len(B(n))
      BY <2>2, <1>7, SetOfConcat
    <3>3. Len(o) = m + n /\ Len(A(m)) = 4 - m /\ Len(B(n)) = 4 - n
      BY <1>8, <2>2
    <3> QED
      BY <3>1, <3>2, <3>3
  <2>12. Len(all) * 4 = 32 /\ \A k \in DOMAIN all : all[k] \in 0 .. 2 ^ 4 - 1
    <3>1. Len(all) * 4 = 32
      BY ONLY <2>11
    <3> QED
      BY <3>1, NibblesFit
  <2>13. MergeTwoAnswer'
    <3>1. x'[1] = a /\ x'[2] = b
      BY <1>1, <1>2, <1>3
    <3> QED
      BY <3>1, <2>9, <2>10, <2>12 DEF MergeTwoAnswer
  <2>14. MergeTwoInv'
    <3>1. locals' = [i |-> m, j |-> n, out |-> o]
      BY <1>3, <1>4, <1>5, <1>6, <2>1
    <3> QED
      BY <3>1, <1>7, <1>8, <1>9, Zenon
  <2> QED
    BY <2>13, <2>14
<1>11. CASE m < 4 /\ n < 4 /\ a[m + 1] <= b[n + 1]
  <2>1. PICK v \in Nibble : v = a[m + 1]
    BY <1>11, RestOf, Zenon
  <2>2. /\ A(m) = <<v>> \o A(m + 1) /\ A(m + 1) \in Seq(Nibble) /\ B(n) \in Seq(Nibble)
        /\ (\A r \in ToSet(A(m)) : v <= r) /\ A(m) \in Seq(Nibble)
        /\ \A r \in ToSet(B(n)) : b[n + 1] <= r
    <3>1. m + 1 \in 0 .. 4 /\ (m + 1) + 1 = m + 2
      BY <1>11
    <3>2. SubSeq(a, (m + 1) + 1, 4) \in Seq(Nibble)
      BY <3>1, RestOf, Zenon
    <3>3. /\ SubSeq(a, m + 1, 4) = <<v>> \o SubSeq(a, m + 2, 4) /\ \A r \in ToSet(SubSeq(a, m + 1, 4)) : v <= r
          /\ SubSeq(a, m + 1, 4) \in Seq(Nibble)
      BY <1>11, <2>1, RestOf, Zenon
    <3>4. SubSeq(b, n + 1, 4) \in Seq(Nibble) /\ \A r \in ToSet(SubSeq(b, n + 1, 4)) : b[n + 1] <= r
      BY <1>11, RestOf, Zenon
    <3> QED
      BY <3>1, <3>2, <3>3, <3>4
  <2>3. b[n + 1] \in Nibble
    BY <1>11, RestOf, Zenon
  <2>4. locals' = [i |-> m + 1, j |-> n, out |-> Append(o, v)] /\ pc' = pc
    <3>1. locals' = [Next_i EXCEPT !.out = Append(out, a[i + 1])] /\ pc' = pc
      BY <1>1, <1>2, <1>4, <1>5, <1>11 DEF Merge2x4, Continue
    <3>2. Next_i = [i |-> i + 1, j |-> j, out |-> out]
      BY <1>3, SMTT(30) DEF Next_i
    <3> QED
      BY <3>1, <3>2, <2>1, <1>4, <1>5, <1>6, Zenon
  <2> HIDE DEF A, B
  <2>5. PICK R \in Seq(Nibble) : R = A(m + 1) \o B(n)
    BY <2>2, ConcatProperties, Zenon
  <2>6. rest = <<v>> \o R
    <3>1. \A u \in Seq(Nibble) : A(m) \o u = <<v>> \o (A(m + 1) \o u)
      BY <2>2, FirstThenRest, SMTT(30)
    <3> QED
      BY <3>1, <2>2, <2>5, <1>7, Zenon
  <2>7. \A r \in ToSet(R) : v <= r
    <3>1. ToSet(R) = ToSet(A(m + 1)) \cup ToSet(B(n))
      BY <2>2, <2>5, SetOfConcat
    <3>2. \A r \in ToSet(A(m + 1)) : r \in ToSet(A(m))
      BY <2>2, FirstThenRest, Zenon
    <3>3. \A r \in ToSet(B(n)) : r \in Int
      <4>1. \A r \in ToSet(B(n)) : r \in Nibble
        BY <2>2 DEF ToSet
      <4> QED
        BY <4>1, NibbleIsInt
    <3>4. v \in Int /\ b[n + 1] \in Int /\ v <= b[n + 1]
      BY <1>11, <2>1, <2>3, NibbleIsInt
    <3>5. \A r \in ToSet(B(n)) : v <= r
      BY <2>2, <3>3, <3>4
    <3> QED
      BY <3>1, <3>2, <3>5, <2>2, Zenon
  <2>8. /\ Append(o, v) \in Seq(Nibble) /\ Len(Append(o, v)) = Len(o) + 1 /\ Sorted(Append(o, v))
        /\ \A p \in ToSet(Append(o, v)), q \in ToSet(R) : p <= q
        /\ InsertionSort(Append(o, v) \o R) = InsertionSort(o \o rest)
    <3>1. PICK p \in Seq(Nibble) : p = A(m + 1)
      BY <2>2
    <3>2. PICK q \in Seq(Nibble) : q = B(n)
      BY <2>2
    <3>3. R = p \o q /\ (rest = <<v>> \o R \/ rest = p \o (<<v>> \o q))
      BY <3>1, <3>2, <2>5, <2>6
    <3>4. TakenFrom(v, p, q, R, rest) /\ SortedBelow(o, rest)
      BY <3>3, <2>7, <1>8, Zenon DEF TakenFrom, SortedBelow
    <3> QED
      BY <3>4, OneMoreOut
  <2>9. m + 1 \in 0 .. 4 /\ (m + n) + 1 = (m + 1) + n
    BY <1>11
  <2> QED
    BY <2>4, <2>5, <2>8, <2>9, <1>3, <1>8, <1>9, Zenon
<1>12. CASE m < 4 /\ n < 4 /\ ~ (a[m + 1] <= b[n + 1])
  <2>1. PICK v \in Nibble : v = b[n + 1]
    BY <1>12, RestOf, Zenon
  <2>2. /\ B(n) = <<v>> \o B(n + 1) /\ B(n + 1) \in Seq(Nibble) /\ A(m) \in Seq(Nibble)
        /\ (\A r \in ToSet(B(n)) : v <= r) /\ B(n) \in Seq(Nibble)
        /\ \A r \in ToSet(A(m)) : a[m + 1] <= r
    <3>1. n + 1 \in 0 .. 4 /\ (n + 1) + 1 = n + 2
      BY <1>12
    <3>2. SubSeq(b, (n + 1) + 1, 4) \in Seq(Nibble)
      BY <3>1, RestOf, Zenon
    <3>3. /\ SubSeq(b, n + 1, 4) = <<v>> \o SubSeq(b, n + 2, 4) /\ \A r \in ToSet(SubSeq(b, n + 1, 4)) : v <= r
          /\ SubSeq(b, n + 1, 4) \in Seq(Nibble)
      BY <1>12, <2>1, RestOf, Zenon
    <3>4. SubSeq(a, m + 1, 4) \in Seq(Nibble) /\ \A r \in ToSet(SubSeq(a, m + 1, 4)) : a[m + 1] <= r
      BY <1>12, RestOf, Zenon
    <3> QED
      BY <3>1, <3>2, <3>3, <3>4
  <2>3. a[m + 1] \in Nibble
    BY <1>12, RestOf, Zenon
  <2>4. locals' = [i |-> m, j |-> n + 1, out |-> Append(o, v)] /\ pc' = pc
    <3>1. locals' = [locals EXCEPT !.j = j + 1, !.out = Append(out, b[j + 1])] /\ pc' = pc
      BY <1>1, <1>2, <1>4, <1>5, <1>12 DEF Merge2x4, Continue
    <3> QED
      BY <3>1, <2>1, <1>3, <1>4, <1>5, <1>6, Zenon
  <2> HIDE DEF A, B
  <2>5. PICK R \in Seq(Nibble) : R = A(m) \o B(n + 1)
    BY <2>2, ConcatProperties, Zenon
  <2>6. rest = A(m) \o (<<v>> \o B(n + 1))
    BY <2>2, <1>7
  <2>7. \A r \in ToSet(R) : v <= r
    <3>1. ToSet(R) = ToSet(A(m)) \cup ToSet(B(n + 1))
      BY <2>2, <2>5, SetOfConcat
    <3>2. \A r \in ToSet(B(n + 1)) : r \in ToSet(B(n))
      BY <2>2, FirstThenRest, Zenon
    <3>3. \A r \in ToSet(A(m)) : r \in Int
      <4>1. \A r \in ToSet(A(m)) : r \in Nibble
        BY <2>2 DEF ToSet
      <4> QED
        BY <4>1, NibbleIsInt
    <3>4. v \in Int /\ a[m + 1] \in Int /\ v <= a[m + 1]
      <4>1. v \in Int /\ a[m + 1] \in Int
        BY <2>3, NibbleIsInt
      <4> QED
        BY <4>1, <1>12, <2>1
    <3>5. \A r \in ToSet(A(m)) : v <= r
      BY <2>2, <3>3, <3>4
    <3> QED
      BY <3>1, <3>2, <3>5, <2>2, Zenon
  <2>8. /\ Append(o, v) \in Seq(Nibble) /\ Len(Append(o, v)) = Len(o) + 1 /\ Sorted(Append(o, v))
        /\ \A p \in ToSet(Append(o, v)), q \in ToSet(R) : p <= q
        /\ InsertionSort(Append(o, v) \o R) = InsertionSort(o \o rest)
    <3>1. PICK p \in Seq(Nibble) : p = A(m)
      BY <2>2
    <3>2. PICK q \in Seq(Nibble) : q = B(n + 1)
      BY <2>2
    <3>3. R = p \o q /\ (rest = <<v>> \o R \/ rest = p \o (<<v>> \o q))
      BY <3>1, <3>2, <2>5, <2>6
    <3>4. TakenFrom(v, p, q, R, rest) /\ SortedBelow(o, rest)
      BY <3>3, <2>7, <1>8, Zenon DEF TakenFrom, SortedBelow
    <3> QED
      BY <3>4, OneMoreOut
  <2>9. n + 1 \in 0 .. 4 /\ (m + n) + 1 = m + (n + 1)
    BY <1>12
  <2> QED
    BY <2>4, <2>5, <2>8, <2>9, <1>3, <1>8, <1>9, Zenon
<1> QED
  BY <1>10, <1>11, <1>12

-----------------------------------------------------------------------------
\* prime_check_u8: trial division by odd numbers.
PrimeInv ==
  /\ x \in Byte /\ locals \in [i : 3 .. 17]
  /\ i % 2 = 1 /\ (i > 3 => \A d \in 2 .. i - 1 : x % d # 0)
PrimeAnswer ==
  result = BoolToInt(x > 1 /\ \A d \in 2 .. x - 1 : x % d # 0) /\ result \in 0 .. 1

LEMMA PrimeCase ==
  task = "prime_check_u8" =>
    /\ Kept <=> Running /\ PrimeInv
    /\ Answer <=> PrimeAnswer
<1>1. ASSUME task = "prime_check_u8"
      PROVE  Kept <=> Running /\ PrimeInv
  BY <1>1 DEF Kept, TypeOK, RandomWords, LocalsOf, LoopInv, TASK_REGISTRY, Running, PrimeInv
<1>2. ASSUME task = "prime_check_u8"
      PROVE  Answer <=> PrimeAnswer
  <2>1. TASK_REGISTRY[task].out_bits = 1
    BY <1>2 DEF TASK_REGISTRY, PRIME_CHECK_U8
  <2> QED
    BY <1>2, <2>1, PowersOfTwo DEF Answer, Described, Fits, Digits, PrimeAnswer
<1> QED
  BY <1>1, <1>2

LEMMA PrimeInit ==
  ASSUME task = "prime_check_u8", x \in RandomWords(task), locals = Locals(task, x)
  PROVE  PrimeInv
BY DEF RandomWords, Locals, PrimeInv, i

\* A number whose divisors below n are 1 has no others, n * n being greater.
LEMMA SmallDivisors ==
  ASSUME NEW v \in Nat, NEW n \in Nat, n > 1, v < n * n, \A d \in 2 .. n - 1 : v % d # 0
  PROVE  \A d \in 2 .. v - 1 : v % d # 0
<1> SUFFICES ASSUME NEW d \in 2 .. v - 1, v % d = 0
             PROVE  FALSE
  BY Zenon
<1>1. d \in Nat /\ v \in Nat /\ d # 0 /\ v # 0 /\ n <= d
  <2>1. d \in Int /\ 2 <= d /\ d <= v - 1
    OBVIOUS
  <2>2. d \notin 2 .. n - 1
    BY Zenon
  <2> QED
    BY <2>1, <2>2
<1>2. Divides(d, v)
  BY <1>1, DividesAsMod
<1>3. PICK q \in Nat : v = q * d
  BY <1>2 DEF Divides
<1>4. q # 0 /\ q # 1
  BY <1>1, <1>3
<1>5. q < n
  <2>1. ASSUME n <= q
        PROVE  n * n <= q * d
    <3>1. n * n <= q * n /\ q * n <= q * d
      BY <1>1, <2>1
    <3> QED
      BY <3>1, <1>1
  <2> QED
    BY <2>1, <1>3, <1>1
<1>6. Divides(q, v)
  <2>1. v = d * q
    BY <1>3, <1>1
  <2> QED
    BY <2>1, <1>1 DEF Divides
<1>7. v % q = 0 /\ q \in 2 .. n - 1
  BY <1>4, <1>5, <1>6, DividesAsMod
<1> QED
  BY <1>7, Zenon

\* Only even numbers have even divisors.
LEMMA EvenDivisor ==
  ASSUME NEW v \in Nat, NEW d \in Nat, d # 0, d % 2 = 0, v % d = 0
  PROVE  v % 2 = 0
<1>1. Divides(d, v) /\ Divides(2, d)
  BY DividesAsMod
<1>2. PICK k \in Nat : v = k * d
  BY <1>1 DEF Divides
<1>3. Divides(2, v)
  BY <1>1, <1>2, DividesProduct
<1> QED
  BY <1>3, DividesAsMod

LEMMA PrimeStep ==
  ASSUME PrimeInv, PrimeU8
  PROVE  PrimeInv' /\ (pc' = "returned" => PrimeAnswer')
<1> USE DEF i
<1>1. /\ x' = x /\ i \in 3 .. 17 /\ locals = [i |-> i] /\ x \in 0 .. 255 /\ i % 2 = 1
      /\ pc = "loop"
  BY DEF PrimeInv, PrimeU8, Continue, Return, In, Byte
<1>2. CASE x < 2
  <2>1. locals' = locals /\ result' = 0
    BY <1>2 DEF PrimeU8, Return
  <2> QED
    BY <2>1, <1>1, <1>2 DEF PrimeInv, PrimeAnswer, BoolToInt
<1>3. CASE x \in {2, 3}
  <2>1. locals' = locals /\ result' = 1
    BY <1>3 DEF PrimeU8, Return
  <2>2. \A d \in 2 .. x - 1 : d = 2 /\ x = 3
    BY <1>3
  <2>3. 3 % 2 # 0
    OBVIOUS
  <2> QED
    BY <2>1, <2>2, <2>3, <1>1, <1>3 DEF PrimeInv, PrimeAnswer, BoolToInt
<1>4. CASE x >= 4 /\ x % 2 = 0
  <2>1. locals' = locals /\ result' = 0
    BY <1>1, <1>4 DEF PrimeU8, Return
  <2>2. 2 \in 2 .. x - 1
    BY <1>1, <1>4
  <2> QED
    BY <2>1, <2>2, <1>1, <1>4 DEF PrimeInv, PrimeAnswer, BoolToInt
<1>5. CASE x >= 4 /\ x % 2 # 0 /\ i * i > x
  <2>1. locals' = locals /\ result' = 1
    BY <1>1, <1>5 DEF PrimeU8, Return
  <2>2. \A d \in 2 .. i - 1 : x % d # 0
    <3>1. CASE i = 3
      <4>1. 2 .. 3 - 1 = {2}
        OBVIOUS
      <4> QED
        BY <3>1, <4>1, <1>5
    <3> QED
      BY <1>1, <3>1 DEF PrimeInv
  <2>3. \A d \in 2 .. x - 1 : x % d # 0
    <3>1. i \in Nat /\ i > 1 /\ x \in Nat /\ x < i * i
      BY <1>1, <1>5
    <3> HIDE DEF i
    <3> QED
      BY <2>2, <3>1, SmallDivisors, Zenon
  <2> QED
    BY <2>1, <2>3, <1>1, <1>5 DEF PrimeInv, PrimeAnswer, BoolToInt
<1>6. CASE x >= 4 /\ x % 2 # 0 /\ i * i <= x
  <2>1. i <= 15 /\ i < x
    <3>1. i >= 16 => i * i >= 256
      BY <1>1
    <3>2. i * i >= 3 * i
      BY <1>1
    <3> QED
      BY <3>1, <3>2, <1>1, <1>6
  <2>2. CASE x % i = 0
    <3>1. locals' = locals /\ result' = 0
      BY <1>1, <1>6, <2>2 DEF PrimeU8, Return
    <3>2. i \in 2 .. x - 1
      BY <1>1, <2>1
    <3> QED
      BY <3>1, <3>2, <2>2, <1>1 DEF PrimeInv, PrimeAnswer, BoolToInt
  <2>3. CASE x % i # 0
    <3>1. locals' = [i |-> i + 2] /\ pc' = pc
      BY <1>1, <1>6, <2>3 DEF PrimeU8, Continue
    <3>2. (i + 2) % 2 = 1 /\ (i + 1) % 2 = 0
      BY <1>1
    <3>3. \A d \in 2 .. (i + 2) - 1 : x % d # 0
      <4> TAKE d \in 2 .. (i + 2) - 1
      <4>1. CASE d = i
        BY <4>1, <2>3
      <4>2. CASE d = i + 1
        <5>1. x \in Nat /\ i + 1 \in Nat /\ i + 1 # 0
          BY <1>1
        <5>2. x % (i + 1) = 0 => x % 2 = 0
          BY <5>1, <3>2, EvenDivisor
        <5> QED
          BY <5>2, <4>2, <1>6
      <4>3. CASE d < i
        <5>1. d \in 2 .. i - 1 /\ (i = 3 => d = 2)
          BY <4>3, <1>1
        <5> QED
          BY <5>1, <1>1, <1>6 DEF PrimeInv
      <4> QED
        BY <4>1, <4>2, <4>3, <1>1
    <3> QED
      BY <3>1, <3>2, <3>3, <2>1, <1>1 DEF PrimeInv
  <2> QED
    BY <2>2, <2>3
<1> QED
  <2>1. i * i \in Int
    BY <1>1
  <2> QED
    BY <1>1, <1>2, <1>3, <1>4, <1>5, <1>6, <2>1

-----------------------------------------------------------------------------
\* modexp_small: no loop of its own; pow(a, b, n) is square and multiply.
ModexpInv ==
  /\ x \in Nibble \X Nibble \X (1 .. 31) /\ locals \in [i : {0}]
ModexpAnswer == result = SquareAndMultiply(x[1], x[2], x[3]) /\ result \in 0 .. 31

LEMMA ModexpCase ==
  task = "modexp_small" =>
    /\ Kept <=> Running /\ ModexpInv
    /\ Answer <=> ModexpAnswer
<1>1. ASSUME task = "modexp_small"
      PROVE  Kept <=> Running /\ ModexpInv
  BY <1>1 DEF Kept, TypeOK, RandomWords, LocalsOf, LoopInv, TASK_REGISTRY, Running, ModexpInv
<1>2. ASSUME task = "modexp_small"
      PROVE  Answer <=> ModexpAnswer
  <2>1. TASK_REGISTRY[task].out_bits = 5
    BY <1>2 DEF TASK_REGISTRY, MODEXP_SMALL
  <2> QED
    BY <1>2, <2>1, PowersOfTwo DEF Answer, Described, Fits, Digits, ModexpAnswer
<1> QED
  BY <1>1, <1>2

\* Remainders may be taken early.
LEMMA RemainderIs ==
  ASSUME NEW n \in Nat, n # 0, NEW q \in Nat, NEW r \in 0 .. n - 1
  PROVE  (q * n + r) % n = r
<1>1. PICK v \in Nat : v = q * n + r
  OBVIOUS
<1>2. v = (v \div n) * n + (v % n) /\ v \div n \in Nat /\ v % n \in Nat /\ v % n < n
  BY Division
<1>3. PICK p \in Nat : p = v \div n
  BY <1>2
<1>4. PICK s \in 0 .. n - 1 : s = v % n
  BY <1>2
<1>5. p * n + s = q * n + r
  BY <1>1, <1>2, <1>3, <1>4
<1>6. p = q
  <2>1. ASSUME p < q
        PROVE  FALSE
    <3>1. PICK d \in Nat : q = p + 1 + d
      <4>1. q - p - 1 \in Nat /\ q = p + 1 + (q - p - 1)
        BY <2>1
      <4> QED
        BY <4>1
    <3>2. q * n = p * n + n + d * n /\ d * n \in Nat /\ p * n \in Nat
      BY <3>1
    <3> QED
      BY <3>2, <1>5
  <2>2. ASSUME q < p
        PROVE  FALSE
    <3>1. PICK d \in Nat : p = q + 1 + d
      <4>1. p - q - 1 \in Nat /\ p = q + 1 + (p - q - 1)
        BY <2>2
      <4> QED
        BY <4>1
    <3>2. p * n = q * n + n + d * n /\ d * n \in Nat /\ q * n \in Nat
      BY <3>1
    <3> QED
      BY <3>2, <1>5
  <2> QED
    BY <2>1, <2>2
<1>7. s = r
  <2>1. p * n = q * n /\ q * n \in Nat
    BY <1>6
  <2> QED
    BY <2>1, <1>5
<1> QED
  BY <1>1, <1>4, <1>7

LEMMA RemainderOfProduct ==
  ASSUME NEW n \in Nat, n # 0, NEW u \in Nat, NEW v \in Nat
  PROVE  ((u % n) * v) % n = (u * v) % n
<1>1. u = (u \div n) * n + (u % n) /\ u \div n \in Nat /\ u % n \in Nat
  BY Division
<1>2. PICK q \in Nat : q = u \div n
  BY <1>1
<1>3. PICK r \in Nat : r = u % n
  BY <1>1
<1>4. r * v \in Nat
  OBVIOUS
<1>5. r * v = ((r * v) \div n) * n + ((r * v) % n) /\ (r * v) \div n \in Nat
      /\ (r * v) % n \in 0 .. n - 1
  <2>1. PICK w \in Nat : w = r * v
    BY <1>4
  <2>2. w = (w \div n) * n + (w % n) /\ w \div n \in Nat /\ w % n \in Nat /\ w % n < n
    BY Division
  <2> QED
    BY <2>1, <2>2
<1>6. PICK p \in Nat : p = (r * v) \div n
  BY <1>5
<1>7. PICK s \in 0 .. n - 1 : s = (r * v) % n
  BY <1>5
<1>8. u * v = (q * v + p) * n + s /\ q * v + p \in Nat
  <2>1. u = q * n + r /\ r * v = p * n + s
    BY <1>1, <1>2, <1>3, <1>5, <1>6, <1>7
  <2>2. u * v = (q * n) * v + r * v
    BY <2>1
  <2>3. (q * n) * v = (q * v) * n /\ (q * v + p) * n = (q * v) * n + p * n
    OBVIOUS
  <2>4. (q * v) * n \in Nat /\ p * n \in Nat /\ q * v + p \in Nat
    OBVIOUS
  <2> QED
    BY <2>1, <2>2, <2>3, <2>4
<1>9. PICK m \in Nat : m = q * v + p
  BY <1>8
<1>10. (m * n + s) % n = s
  BY RemainderIs
<1> QED
  BY <1>3, <1>7, <1>8, <1>9, <1>10

\* Powers, one factor after the other,
LEMMA PowerSteps ==
  ASSUME NEW n \in Nat, n # 0, NEW a \in Nat
  PROVE  /\ Power(a, 0, n) = 1 % n
         /\ \A k \in Nat : Power(a, k + 1, n) = (Power(a, k, n) * a) % n
         /\ \A k \in Nat : Power(a, k, n) \in 0 .. n - 1
<1> DEFINE Step(f) == [k \in Nat |-> IF k = 0 THEN 1 % n ELSE (f[k - 1] * a) % n]
           h == [p \in Nat \X (0 .. n - 1) |-> (p[2] * a) % n]
           F == CHOOSE f : f = Step(f)
<1>1. \A k \in Nat, s \in 0 .. n - 1 : h[<<k, s>>] = (s * a) % n
  OBVIOUS
<1>2. \A v \in Nat : v % n \in 0 .. n - 1
  <2> TAKE v \in Nat
  <2>1. v % n \in Nat /\ v % n < n
    BY Division
  <2> QED
    BY <2>1
<1> HIDE DEF h
<1>3. \A k \in Nat, s \in 0 .. n - 1 : h[<<k, s>>] \in 0 .. n - 1
  <2> TAKE k \in Nat, s \in 0 .. n - 1
  <2>1. s * a \in Nat
    OBVIOUS
  <2>2. (s * a) % n \in 0 .. n - 1
    BY <2>1, <1>2
  <2> QED
    BY <2>2, <1>1
<1>4. PICK g : Iterates(0 .. n - 1, 1 % n, h, g)
  <2>1. 1 % n \in 0 .. n - 1
    BY <1>2
  <2> QED
    BY <1>3, <2>1, Recursion, Zenon
<1>5. g \in [Nat -> 0 .. n - 1] /\ g[0] = 1 % n /\ \A k \in Nat : g[k + 1] = (g[k] * a) % n
  <2>1. g \in [Nat -> 0 .. n - 1] /\ g[0] = 1 % n /\ \A k \in Nat : g[k + 1] = h[<<k, g[k]>>]
    BY <1>4 DEF Iterates
  <2>2. ASSUME NEW k \in Nat
        PROVE  g[k + 1] = (g[k] * a) % n
    <3>1. g[k] \in 0 .. n - 1 /\ g[k + 1] = h[<<k, g[k]>>]
      BY <2>1
    <3> QED
      BY <1>1, <3>1
  <2> QED
    BY <2>1, <2>2
<1>6. g = Step(g)
  <2>1. \A k \in Nat : g[k] = IF k = 0 THEN 1 % n ELSE (g[k - 1] * a) % n
    <3> TAKE k \in Nat
    <3>1. CASE k > 0
      <4>1. k - 1 \in Nat /\ (k - 1) + 1 = k
        BY <3>1
      <4>2. g[(k - 1) + 1] = (g[k - 1] * a) % n
        BY <1>5, <4>1
      <4> QED
        BY <3>1, <4>1, <4>2
    <3>2. CASE k = 0
      BY <1>5, <3>2
    <3> QED
      BY <3>1, <3>2
  <2> QED
    BY <1>5, <2>1
<1>7. F = Step(F)
  <2> HIDE DEF Step
  <2> QED
    BY <1>6
<1>8. \A k : Power(a, k, n) = F[k]
  BY DEF Power
<1> HIDE DEF F
<1>9. F[0] = 1 % n /\ \A k \in Nat : F[k + 1] = (F[k] * a) % n
  <2>1. \A k \in Nat : F[k] = IF k = 0 THEN 1 % n ELSE (F[k - 1] * a) % n
    BY <1>7, Zenon
  <2>2. ASSUME NEW k \in Nat
        PROVE  F[k + 1] = (F[k] * a) % n
    <3>1. k + 1 \in Nat /\ k + 1 # 0 /\ (k + 1) - 1 = k
      OBVIOUS
    <3>2. F[k + 1] = (F[(k + 1) - 1] * a) % n
      BY <2>1, <3>1
    <3> QED
      BY <3>1, <3>2
  <2> QED
    BY <2>1, <2>2
<1>10. \A k \in Nat : F[k] \in 0 .. n - 1
  <2> DEFINE Bounded == {k \in Nat : F[k] \in 0 .. n - 1}
  <2>1. 0 \in Bounded
    BY <1>2, <1>9, Zenon
  <2>2. ASSUME NEW k \in Nat, k \in Bounded
        PROVE  k + 1 \in Bounded
    <3>1. PICK s \in Nat : s = F[k]
      BY <2>2
    <3>2. s * a \in Nat /\ F[k + 1] = (s * a) % n
      BY <3>1, <1>9
    <3> QED
      BY <3>2, <1>2
  <2> HIDE DEF Bounded
  <2>3. \A k \in Nat : k \in Bounded
    BY <2>1, <2>2, Induction
  <2> QED
    BY <2>3 DEF Bounded
<1> QED
  BY <1>8, <1>9, <1>10, Zenon

\* multiply when exponents are added.
LEMMA PowerSum ==
  ASSUME NEW n \in Nat, n # 0, NEW a \in Nat, NEW j \in Nat
  PROVE  \A k \in Nat : Power(a, j + k, n) = (Power(a, j, n) * Power(a, k, n)) % n
<1> DEFINE P(k) == Power(a, k, n)
           Good == {k \in Nat : P(j + k) = (P(j) * P(k)) % n}
<1>1. /\ P(0) = 1 % n /\ \A k \in Nat : P(k + 1) = (P(k) * a) % n
      /\ \A k \in Nat : P(k) \in 0 .. n - 1
  BY PowerSteps
<1> HIDE DEF P
<1>2. PICK u \in 0 .. n - 1 : u = P(j)
  BY <1>1
<1>3. 0 \in Good
  <2>1. (1 % n) * u = u * (1 % n)
    <3>1. 1 % n \in Nat
      BY Division
    <3> QED
      BY <3>1
  <2>2. ((1 % n) * u) % n = (1 * u) % n
    BY RemainderOfProduct
  <2>3. 1 * u = u /\ u % n = u /\ j + 0 = j
    OBVIOUS
  <2> QED
    BY <2>1, <2>2, <2>3, <1>1, <1>2
<1>4. ASSUME NEW k \in Nat, k \in Good
      PROVE  k + 1 \in Good
  <2>1. PICK v \in 0 .. n - 1 : v = P(k)
    BY <1>1
  <2>2. P(j + k) = (u * v) % n /\ P(k + 1) = (v * a) % n
    BY <2>1, <1>1, <1>2, <1>4
  <2>3. P((j + k) + 1) = (P(j + k) * a) % n
    BY <1>1
  <2>4. u * v \in Nat /\ v * a \in Nat
    OBVIOUS
  <2>5. (((u * v) % n) * a) % n = ((u * v) * a) % n
    BY <2>4, RemainderOfProduct
  <2>6. (((v * a) % n) * u) % n = ((v * a) * u) % n
    BY <2>4, RemainderOfProduct
  <2>7. (u * v) * a = (v * a) * u
    OBVIOUS
  <2>8. ((v * a) % n) * u = u * ((v * a) % n)
    <3>1. (v * a) % n \in Nat
      BY <2>4, Division
    <3> QED
      BY <3>1
  <2>9. (j + k) + 1 = j + (k + 1)
    OBVIOUS
  <2>10. P(j + (k + 1)) = (u * P(k + 1)) % n
    BY <2>2, <2>3, <2>5, <2>6, <2>7, <2>8, <2>9, Zenon
  <2> QED
    BY <2>10, <1>2
<1> HIDE DEF Good
<1>5. \A k \in Nat : k \in Good
  BY <1>3, <1>4, Induction
<1> QED
  BY <1>5 DEF Good, P

-----------------------------------------------------------------------------
\* One bit of the exponent.
SquareStep(a, n, r, bit) == (((r * r) % n) * IF bit = 1 THEN a ELSE 1) % n

LEMMA SquareStepIs ==
  ASSUME NEW n \in Nat, n # 0, NEW a \in Nat, NEW p \in Nat, NEW bit \in {0, 1}
  PROVE  SquareStep(a, n, Power(a, p, n), bit) = Power(a, 2 * p + bit, n)
<1>1. PICK r \in 0 .. n - 1 : r = Power(a, p, n)
  BY PowerSteps, Zenon
<1>2. (r * r) % n = Power(a, p + p, n)
  BY <1>1, PowerSum
<1>3. Power(a, p + p, n) \in 0 .. n - 1
  BY PowerSteps
<1>4. CASE bit = 1
  <2>1. Power(a, (p + p) + 1, n) = (Power(a, p + p, n) * a) % n
    BY PowerSteps
  <2>2. (p + p) + 1 = 2 * p + bit
    BY <1>4
  <2> QED
    BY <1>1, <1>2, <1>4, <2>1, <2>2 DEF SquareStep
<1>5. CASE bit = 0
  <2>1. PICK s \in 0 .. n - 1 : s = Power(a, p + p, n)
    BY <1>3
  <2>2. (s * 1) % n = s /\ p + p = 2 * p + bit
    BY <1>5
  <2> QED
    BY <1>1, <1>2, <1>5, <2>1, <2>2 DEF SquareStep
<1> QED
  BY <1>4, <1>5

LEMMA SquareAndMultiplyUnfold ==
  ASSUME NEW n \in Nat, n # 0, NEW a \in Nat, NEW b \in Nat
  PROVE  LET Bit(k) == (b \div 2 ^ (4 - k)) % 2 IN
         SquareAndMultiply(a, b, n) =
           SquareStep(a, n, SquareStep(a, n, SquareStep(a, n, SquareStep(a, n, 1 % n, Bit(1)), Bit(2)), Bit(3)), Bit(4))
<1> DEFINE Bit(k) == (b \div 2 ^ (4 - k)) % 2
           bits == [k \in 1 .. 4 |-> Bit(k)]
           one == 1 % n
           Fold(it) == [s \in SUBSET (DOMAIN bits) |->
                          IF s = {} THEN one ELSE SquareStep(a, n, it[s \ {Max(s)}], bits[Max(s)])]
           c == CHOOSE it : it = Fold(it)
           h == [p \in (1 .. 4) \X Nat |-> SquareStep(a, n, p[2], bits[p[1]])]
<1>1. SquareAndMultiply(a, b, n) = c[DOMAIN bits]
  BY DEF SquareAndMultiply, FoldLeft, MapThenFoldSet, SquareStep
<1>2. DOMAIN bits = 1 .. 4 /\ \A k \in 1 .. 4 : bits[k] = Bit(k)
  OBVIOUS
<1> HIDE DEF bits
<1>3. \A k \in 1 .. 4, s \in Nat : h[<<k, s>>] = SquareStep(a, n, s, bits[k])
  OBVIOUS
<1>4. \A v \in Nat : v % n \in Nat
  BY Division
<1>5. \A k \in 1 .. 4, s \in Nat : h[<<k, s>>] \in Nat
  <2> TAKE k \in 1 .. 4, s \in Nat
  <2>1. s * s \in Nat
    OBVIOUS
  <2>2. PICK m \in Nat : m = (s * s) % n
    BY <2>1, <1>4
  <2>3. PICK f \in Nat : f = IF bits[k] = 1 THEN a ELSE 1
    OBVIOUS
  <2>4. m * f \in Nat
    OBVIOUS
  <2>5. SquareStep(a, n, s, bits[k]) = (m * f) % n
    BY <2>2, <2>3 DEF SquareStep
  <2> HIDE DEF h
  <2> QED
    BY <1>3, <1>4, <2>4, <2>5
<1> HIDE DEF h
<1>6. one \in Nat
  BY <1>4
<1> HIDE DEF one
<1>7. PICK it \in [SUBSET (1 .. 4) -> Nat] : it = FoldStep(4, Nat, one, h, it)
  <2>1. 4 \in Nat
    OBVIOUS
  <2> QED
    BY <2>1, <1>5, <1>6, FoldExists, Zenon
<1>8. it = Fold(it)
  <2>1. ASSUME NEW s \in SUBSET (1 .. 4), s # {}
        PROVE  h[<<Max(s), it[s \ {Max(s)}]>>] = SquareStep(a, n, it[s \ {Max(s)}], bits[Max(s)])
    <3>1. Max(s) \in 1 .. 4 /\ s \ {Max(s)} \in SUBSET (1 .. 4)
      BY <2>1, MaxOfIndices
    <3>2. it[s \ {Max(s)}] \in Nat
      BY <3>1
    <3> QED
      BY <1>3, <3>1, <3>2
  <2> QED
    BY <1>2, <1>7, <2>1, Zenon DEF FoldStep
<1>9. c = Fold(c)
  <2> HIDE DEF Fold
  <2> QED
    BY <1>8
<1> HIDE DEF c
<1>10. \A s \in SUBSET (DOMAIN bits) :
         c[s] = IF s = {} THEN one ELSE SquareStep(a, n, c[s \ {Max(s)}], bits[Max(s)])
  BY <1>9, Zenon
<1>11. ASSUME NEW k \in 0 .. 3
       PROVE  c[1 .. k + 1] = SquareStep(a, n, c[1 .. k], bits[k + 1])
  <2>1. 1 .. k + 1 \in SUBSET (DOMAIN bits)
    BY <1>2
  <2>2. 1 .. k + 1 # {} /\ Max(1 .. k + 1) = k + 1 /\ (1 .. k + 1) \ {k + 1} = 1 .. k
    <3>1. k \in Nat
      OBVIOUS
    <3> QED
      BY <3>1, IndicesNext, Zenon
  <2>3. PICK s : s = 1 .. k + 1
    OBVIOUS
  <2>4. c[s] = SquareStep(a, n, c[s \ {Max(s)}], bits[Max(s)])
    BY <2>1, <2>2, <2>3, <1>10, Zenon
  <2> QED
    BY <2>2, <2>3, <2>4, Zenon
<1>12. c[1 .. 0] = one
  <2>1. 1 .. 0 = {}
    OBVIOUS
  <2> QED
    BY <2>1, <1>10
<1>13. /\ c[1 .. 1] = SquareStep(a, n, c[1 .. 0], bits[1]) /\ c[1 .. 2] = SquareStep(a, n, c[1 .. 1], bits[2])
       /\ c[1 .. 3] = SquareStep(a, n, c[1 .. 2], bits[3]) /\ c[1 .. 4] = SquareStep(a, n, c[1 .. 3], bits[4])
  <2>1. 0 + 1 = 1 /\ 1 + 1 = 2 /\ 2 + 1 = 3 /\ 3 + 1 = 4
    OBVIOUS
  <2>2. /\ c[1 .. 0 + 1] = SquareStep(a, n, c[1 .. 0], bits[0 + 1])
        /\ c[1 .. 1 + 1] = SquareStep(a, n, c[1 .. 1], bits[1 + 1])
        /\ c[1 .. 2 + 1] = SquareStep(a, n, c[1 .. 2], bits[2 + 1])
        /\ c[1 .. 3 + 1] = SquareStep(a, n, c[1 .. 3], bits[3 + 1])
    BY <1>11
  <2> QED
    BY <2>1, <2>2
<1>14. bits[1] = Bit(1) /\ bits[2] = Bit(2) /\ bits[3] = Bit(3) /\ bits[4] = Bit(4)
  BY <1>2
<1> HIDE DEF Bit
<1>15. SquareAndMultiply(a, b, n) =
         SquareStep(a, n, SquareStep(a, n, SquareStep(a, n, SquareStep(a, n, one, Bit(1)), Bit(2)), Bit(3)), Bit(4))
  BY <1>1, <1>2, <1>12, <1>13, <1>14
<1> QED
  BY <1>15 DEF Bit, one

\* The bits of a nibble, the highest first.
LEMMA NibbleBits ==
  ASSUME NEW b \in Nibble
  PROVE  LET Bit(k) == (b \div 2 ^ (4 - k)) % 2 IN
         /\ Bit(1) \in {0, 1} /\ Bit(2) \in {0, 1} /\ Bit(3) \in {0, 1} /\ Bit(4) \in {0, 1}
         /\ 2 * (2 * (2 * (2 * 0 + Bit(1)) + Bit(2)) + Bit(3)) + Bit(4) = b
<1>1. b \in 0 .. 15
  BY NibbleIsInt
<1>2. 4 - 1 = 3 /\ 4 - 2 = 2 /\ 4 - 3 = 1 /\ 4 - 4 = 0
  OBVIOUS
<1>3. /\ 2 ^ (4 - 1) = 8 /\ 2 ^ (4 - 2) = 4 /\ 2 ^ (4 - 3) = 2 /\ 2 ^ (4 - 4) = 1
  BY <1>2, PowersOfTwo
<1>4. /\ (b \div 8) % 2 \in {0, 1} /\ (b \div 4) % 2 \in {0, 1} /\ (b \div 2) % 2 \in {0, 1} /\ (b \div 1) % 2 \in {0, 1}
      /\ 2 * (2 * (2 * (2 * 0 + ((b \div 8) % 2)) + ((b \div 4) % 2)) + ((b \div 2) % 2)) + ((b \div 1) % 2) = b
  BY <1>1
<1> QED
  BY <1>3, <1>4

LEMMA PowerIsSquareAndMultiply ==
  ASSUME NEW n \in Nat, n # 0, NEW a \in Nat, NEW b \in Nibble
  PROVE  Power(a, b, n) = SquareAndMultiply(a, b, n)
<1> DEFINE Bit(k) == (b \div 2 ^ (4 - k)) % 2
<1>1. b \in Nat
  BY NibbleIsInt
<1>2. SquareAndMultiply(a, b, n) =
        SquareStep(a, n, SquareStep(a, n, SquareStep(a, n, SquareStep(a, n, 1 % n, Bit(1)), Bit(2)), Bit(3)), Bit(4))
  BY <1>1, SquareAndMultiplyUnfold
<1>3. /\ Bit(1) \in {0, 1} /\ Bit(2) \in {0, 1} /\ Bit(3) \in {0, 1} /\ Bit(4) \in {0, 1}
      /\ 2 * (2 * (2 * (2 * 0 + Bit(1)) + Bit(2)) + Bit(3)) + Bit(4) = b
  BY NibbleBits
<1> HIDE DEF Bit
<1>4. PICK d1 \in {0, 1} : d1 = Bit(1)
  BY <1>3
<1>5. PICK d2 \in {0, 1} : d2 = Bit(2)
  BY <1>3
<1>6. PICK d3 \in {0, 1} : d3 = Bit(3)
  BY <1>3
<1>7. PICK d4 \in {0, 1} : d4 = Bit(4)
  BY <1>3
<1>8. PICK p1 \in Nat : p1 = 2 * 0 + d1
  OBVIOUS
<1>9. PICK p2 \in Nat : p2 = 2 * p1 + d2
  OBVIOUS
<1>10. PICK p3 \in Nat : p3 = 2 * p2 + d3
  OBVIOUS
<1>11. 2 * p3 + d4 = b
  BY <1>3, <1>4, <1>5, <1>6, <1>7, <1>8, <1>9, <1>10
<1>12. 1 % n = Power(a, 0, n)
  BY PowerSteps
<1>13. \A p \in Nat, d \in {0, 1} : SquareStep(a, n, Power(a, p, n), d) = Power(a, 2 * p + d, n)
  BY SquareStepIs, Zenon
<1>14. SquareStep(a, n, 1 % n, Bit(1)) = Power(a, p1, n)
  BY <1>4, <1>8, <1>12, <1>13, Zenon
<1>15. SquareStep(a, n, Power(a, p1, n), Bit(2)) = Power(a, p2, n)
  BY <1>5, <1>9, <1>13, Zenon
<1>16. SquareStep(a, n, Power(a, p2, n), Bit(3)) = Power(a, p3, n)
  BY <1>6, <1>10, <1>13, Zenon
<1>17. SquareStep(a, n, Power(a, p3, n), Bit(4)) = Power(a, b, n)
  BY <1>7, <1>11, <1>13, Zenon
<1> QED
  BY <1>2, <1>14, <1>15, <1>16, <1>17

-----------------------------------------------------------------------------
LEMMA ModexpInit ==
  ASSUME task = "modexp_small", x \in RandomWords(task), locals = Locals(task, x)
  PROVE  ModexpInv
BY DEF RandomWords, Locals, ModexpInv

LEMMA ModexpStep ==
  ASSUME ModexpInv, ModexpSmall
  PROVE  ModexpInv' /\ (pc' = "returned" => ModexpAnswer')
<1>1. /\ x' = x /\ locals' = locals /\ x[1] \in Nibble /\ x[2] \in Nibble /\ x[3] \in 1 .. 31
  BY DEF ModexpInv, ModexpSmall, Return
<1>2. PICK n \in 1 .. 31 : n = x[3]
  BY <1>1
<1>3. result' = Power(x[1], x[2], n) % 32
  BY <1>2 DEF ModexpSmall, Return
<1>4. x[1] \in Nat
  BY <1>1, NibbleIsInt
<1>5. Power(x[1], x[2], n) \in 0 .. n - 1
  <2>1. x[2] \in Nat
    BY <1>1, NibbleIsInt
  <2>2. n \in Nat /\ n # 0
    OBVIOUS
  <2> QED
    BY <1>4, <2>1, <2>2, PowerSteps, Zenon
<1>6. Power(x[1], x[2], n) = SquareAndMultiply(x[1], x[2], n)
  <2>1. n \in Nat /\ n # 0
    OBVIOUS
  <2> QED
    BY <1>1, <1>4, <2>1, PowerIsSquareAndMultiply
<1>7. \A v \in 0 .. n - 1 : v % 32 = v /\ v \in 0 .. 31
  OBVIOUS
<1>8. result' = SquareAndMultiply(x[1], x[2], x[3]) /\ result' \in 0 .. 31
  BY <1>2, <1>3, <1>5, <1>6, <1>7
<1> QED
  BY <1>1, <1>8 DEF ModexpAnswer, ModexpInv

-----------------------------------------------------------------------------
\* seq_detect_1011: the windows are counted.
SeqCountInv ==
  /\ x \in [1 .. 16 -> {0, 1}] /\ locals \in [i : 0 .. 13, count : 0 .. 13]
  /\ locals.count = Cardinality({k \in 1 .. i : Occurs1011(k)})
SeqCountAnswer == result = Cardinality({k \in 1 .. 13 : Occurs1011(k)}) /\ result \in 0 .. 15

LEMMA SeqCountCase ==
  task = "seq_detect_1011" =>
    /\ Kept <=> Running /\ SeqCountInv
    /\ Answer <=> SeqCountAnswer
<1>1. ASSUME task = "seq_detect_1011"
      PROVE  Kept <=> Running /\ SeqCountInv
  BY <1>1 DEF Kept, TypeOK, RandomWords, LocalsOf, LoopInv, TASK_REGISTRY, Running, SeqCountInv
<1>2. ASSUME task = "seq_detect_1011"
      PROVE  Answer <=> SeqCountAnswer
  <2>1. TASK_REGISTRY[task].out_bits = 4
    BY <1>2 DEF TASK_REGISTRY, SEQ_DETECT_1011
  <2> QED
    BY <1>2, <2>1, PowersOfTwo DEF Answer, Described, Fits, Digits, SeqCountAnswer
<1> QED
  BY <1>1, <1>2

LEMMA SeqCountInit ==
  ASSUME task = "seq_detect_1011", x \in RandomWords(task), locals = Locals(task, x)
  PROVE  SeqCountInv
<1>1. x \in [1 .. 16 -> {0, 1}] /\ locals = [i |-> 0, count |-> 0]
  BY DEF RandomWords, Locals
<1>2. {k \in 1 .. 0 : Occurs1011(k)} = {}
  OBVIOUS
<1> QED
  BY <1>1, <1>2, FS_EmptySet DEF SeqCountInv, i

LEMMA SeqCountStep ==
  ASSUME SeqCountInv, SeqCount1011
  PROVE  SeqCountInv' /\ (pc' = "returned" => SeqCountAnswer')
<1> USE DEF i
<1> DEFINE Found(w, n) == {k \in 1 .. n : w[k] = 1 /\ w[k + 1] = 1 /\ w[k + 2] = 0 /\ w[k + 3] = 1}
<1>1. /\ x' = x /\ i \in 0 .. 13 /\ x \in [1 .. 16 -> {0, 1}] /\ locals.count \in 0 .. 13
      /\ locals = [i |-> i, count |-> locals.count] /\ pc = "loop"
  BY DEF SeqCountInv, SeqCount1011, Continue, Return, In
<1>2. locals.count = Cardinality(Found(x, i))
  BY DEF SeqCountInv, Occurs1011
<1>3. ASSUME locals' \in [i : 0 .. 13, count : 0 .. 13], locals'.count = Cardinality(Found(x, locals'.i))
      PROVE  SeqCountInv'
  BY <1>1, <1>3, SMTT(30) DEF SeqCountInv, Occurs1011
<1>4. ASSUME result' = Cardinality(Found(x, 13)), result' \in 0 .. 15
      PROVE  SeqCountAnswer'
  BY <1>1, <1>4 DEF SeqCountAnswer, Occurs1011
<1>5. CASE i = 13
  <2>1. locals' = locals /\ result' = locals.count
    BY <1>5 DEF SeqCount1011, Return
  <2> HIDE DEF Found
  <2> QED
    BY <2>1, <1>1, <1>2, <1>3, <1>4, <1>5
<1>6. CASE i < 13
  <2> DEFINE here == x[i + 1] = 1 /\ x[i + 2] = 1 /\ x[i + 3] = 0 /\ x[i + 4] = 1
             s == SubSeq(x, i + 1, i + 4)
  <2>1. s = <<1, 1, 0, 1>> <=> here
    <3>1. s = [k \in 1 .. 4 |-> x[i + k]]
      <4>1. i + 4 - (i + 1) + 1 = 4 /\ \A k \in 1 .. 4 : (i + 1) + k - 1 = i + k
        BY <1>1
      <4> QED
        BY <4>1, <1>1, <1>6
    <3>2. s[1] = x[i + 1] /\ s[2] = x[i + 2] /\ s[3] = x[i + 3] /\ s[4] = x[i + 4]
      <4> HIDE DEF s
      <4> QED
        BY <3>1
    <3>3. s = <<s[1], s[2], s[3], s[4]>>
      <4> HIDE DEF s
      <4> QED
        BY <3>1
    <3> HIDE DEF s
    <3> QED
      BY <3>2, <3>3
  <2>2. /\ locals' = [i |-> i + 1, count |-> locals.count + BoolToInt(here)]
        /\ pc' = pc
    <3>1. locals' = [Next_i EXCEPT !.count = @ + BoolToInt(s = <<1, 1, 0, 1>>)] /\ pc' = pc
      BY <1>6 DEF SeqCount1011, Continue
    <3>2. Next_i = [i |-> i + 1, count |-> locals.count]
      BY <1>1 DEF Next_i
    <3>3. BoolToInt(s = <<1, 1, 0, 1>>) = BoolToInt(here)
      BY <2>1 DEF BoolToInt
    <3> HIDE DEF s, here
    <3> QED
      BY <3>1, <3>2, <3>3
  <2>3. /\ Cardinality(Found(x, i + 1)) = Cardinality(Found(x, i)) + BoolToInt(here)
        /\ Cardinality(Found(x, i + 1)) \in 0 .. i + 1
    <3>1. i \in Nat /\ i + 1 \in Nat /\ Found(x, i + 1) \subseteq 1 .. i + 1
      BY <1>1
    <3>2. Found(x, i + 1) \cap (1 .. i) = Found(x, i)
      BY <1>1
    <3>3. i + 1 \in Found(x, i + 1) <=> here
      <4>1. (i + 1) + 1 = i + 2 /\ (i + 1) + 2 = i + 3 /\ (i + 1) + 3 = i + 4
        BY <1>1
      <4> QED
        BY <4>1, <1>1
    <3>4. BoolToInt(i + 1 \in Found(x, i + 1)) = BoolToInt(here)
      BY <3>3 DEF BoolToInt
    <3> HIDE DEF Found, here
    <3> QED
      BY <3>1, <3>2, <3>4, CountNext, CountSome
  <2> HIDE DEF Found, here
  <2>4. locals'.i = i + 1 /\ locals'.count = Cardinality(Found(x, i + 1))
    BY <2>2, <2>3, <1>2
  <2>5. locals' \in [i : 0 .. 13, count : 0 .. 13]
    BY <2>2, <2>3, <2>4, <1>1, <1>6
  <2> QED
    BY <2>2, <2>4, <2>5, <1>1, <1>3
<1> QED
  BY <1>1, <1>5, <1>6

-----------------------------------------------------------------------------
\* palindrome_8n: opposite digits are compared.
PalindromeInv ==
  x \in [1 .. 8 -> Nibble] /\ locals \in [i : 0 .. 4] /\ \A k \in 1 .. i : x[k] = x[9 - k]
PalindromeAnswer == result = BoolToInt(x = Reverse(x)) /\ result \in 0 .. 1

LEMMA PalindromeCase ==
  task = "palindrome_8n" =>
    /\ Kept <=> Running /\ PalindromeInv
    /\ Answer <=> PalindromeAnswer
<1>1. ASSUME task = "palindrome_8n"
      PROVE  Kept <=> Running /\ PalindromeInv
  BY <1>1 DEF Kept, TypeOK, RandomWords, LocalsOf, LoopInv, TASK_REGISTRY, Running, PalindromeInv
<1>2. ASSUME task = "palindrome_8n"
      PROVE  Answer <=> PalindromeAnswer
  <2>1. TASK_REGISTRY[task].out_bits = 1
    BY <1>2 DEF TASK_REGISTRY, PALINDROME_8N
  <2> QED
    BY <1>2, <2>1, PowersOfTwo DEF Answer, Described, Fits, Digits, PalindromeAnswer
<1> QED
  BY <1>1, <1>2

LEMMA PalindromeInit ==
  ASSUME task = "palindrome_8n", x \in RandomWords(task), locals = Locals(task, x)
  PROVE  PalindromeInv
BY DEF RandomWords, Locals, PalindromeInv, i

\* Four pairs decide.
LEMMA PalindromeOfPairs ==
  ASSUME NEW a \in [1 .. 8 -> Nibble]
  PROVE  a = Reverse(a) <=> \A k \in 1 .. 4 : a[k] = a[9 - k]
<1>1. Reverse(a) = [k \in 1 .. 8 |-> a[8 - k + 1]]
  <2>1. Len(a) = 8
    OBVIOUS
  <2> QED
    BY <2>1 DEF Reverse
<1>2. a = Reverse(a) <=> \A k \in 1 .. 8 : a[k] = a[9 - k]
  <2>1. \A k \in 1 .. 8 : 8 - k + 1 = 9 - k
    OBVIOUS
  <2> QED
    BY <1>1, <2>1
<1>3. ASSUME \A k \in 1 .. 4 : a[k] = a[9 - k], NEW k \in 5 .. 8
      PROVE  a[k] = a[9 - k]
  <2>1. 9 - k \in 1 .. 4 /\ 9 - (9 - k) = k
    OBVIOUS
  <2> QED
    BY <1>3, <2>1
<1> QED
  BY <1>2, <1>3

LEMMA PalindromeStep ==
  ASSUME PalindromeInv, Palindrome8
  PROVE  PalindromeInv' /\ (pc' = "returned" => PalindromeAnswer')
<1> USE DEF i
<1>1. /\ x' = x /\ i \in 0 .. 4 /\ locals = [i |-> i] /\ x \in [1 .. 8 -> Nibble]
      /\ pc = "loop" /\ \A k \in 1 .. i : x[k] = x[9 - k]
  BY DEF PalindromeInv, Palindrome8, Continue, Return, In
<1>2. CASE i = 4
  <2>1. locals' = locals /\ result' = 1
    BY <1>2 DEF Palindrome8, Return
  <2>2. x = Reverse(x)
    BY <1>1, <1>2, PalindromeOfPairs
  <2> QED
    BY <2>1, <2>2, <1>1 DEF PalindromeAnswer, PalindromeInv, BoolToInt
<1>3. CASE i < 4 /\ x[i + 1] # x[8 - i]
  <2>1. locals' = locals /\ result' = 0
    BY <1>3 DEF Palindrome8, Return
  <2>2. x # Reverse(x)
    <3>1. i + 1 \in 1 .. 4 /\ 9 - (i + 1) = 8 - i
      BY <1>1, <1>3
    <3> QED
      BY <1>1, <1>3, <3>1, PalindromeOfPairs
  <2> QED
    BY <2>1, <2>2, <1>1 DEF PalindromeAnswer, PalindromeInv, BoolToInt
<1>4. CASE i < 4 /\ x[i + 1] = x[8 - i]
  <2>1. locals' = [i |-> i + 1] /\ pc' = pc
    BY <1>1, <1>4 DEF Palindrome8, Continue, Next_i
  <2>2. \A k \in 1 .. i + 1 : x[k] = x[9 - k]
    <3>1. \A k \in 1 .. i + 1 : k \in 1 .. i \/ k = i + 1
      BY <1>1
    <3>2. 9 - (i + 1) = 8 - i
      BY <1>1
    <3> QED
      BY <3>1, <3>2, <1>1, <1>4
  <2> QED
    BY <2>1, <2>2, <1>1, <1>4 DEF PalindromeInv
<1> QED
  BY <1>1, <1>2, <1>3, <1>4

-----------------------------------------------------------------------------
\* subset_sum_4x6: no mask behind the loop takes the sum.
SubsetSumInv ==
  /\ x[1] \in [1 .. 4 -> 0 .. 63] /\ x[2] \in Byte
  /\ x \in {w \in [1 .. 4 -> 0 .. 63] \X Byte : w[2] <= Total(w[1]) + 4}
  /\ locals \in [i : 0 .. 16] /\ \A mask \in 0 .. i - 1 : MaskSum(mask) # x[2]
SubsetSumAnswer == result = BoolToInt(x[2] \in Sums(x[1])) /\ result \in 0 .. 1

LEMMA SubsetSumCase ==
  task = "subset_sum_4x6" =>
    /\ Kept <=> Running /\ SubsetSumInv
    /\ Answer <=> SubsetSumAnswer
<1>1. ASSUME task = "subset_sum_4x6"
      PROVE  Kept <=> Running /\ SubsetSumInv
  BY <1>1 DEF Kept, TypeOK, RandomWords, LocalsOf, LoopInv, TASK_REGISTRY, Running, SubsetSumInv
<1>2. ASSUME task = "subset_sum_4x6"
      PROVE  Answer <=> SubsetSumAnswer
  <2>1. TASK_REGISTRY[task].out_bits = 1
    BY <1>2 DEF TASK_REGISTRY, SUBSET_SUM_4X6
  <2> QED
    BY <1>2, <2>1, PowersOfTwo DEF Answer, Described, Fits, Digits, SubsetSumAnswer
<1> QED
  BY <1>1, <1>2

-----------------------------------------------------------------------------
\* The sums grow with every value.
WithValue(sums, v) == sums \cup {s + v : s \in sums}

\* What is taken of a value.
Part(bit, v) == IF bit = 1 THEN v ELSE 0

LEMMA WithValueIs ==
  ASSUME NEW sums \in SUBSET Int, NEW v \in Int
  PROVE  /\ WithValue(sums, v) \in SUBSET Int
         /\ \A u \in WithValue(sums, v) : \E s \in sums, b \in {0, 1} : u = s + Part(b, v)
         /\ \A s \in sums, b \in {0, 1} : s + Part(b, v) \in WithValue(sums, v)
<1>1. \A s \in sums : s + v \in Int /\ s + 0 = s
  OBVIOUS
<1>2. Part(0, v) = 0 /\ Part(1, v) = v
  BY DEF Part
<1>3. ASSUME NEW u \in WithValue(sums, v)
      PROVE  \E s \in sums, b \in {0, 1} : u = s + Part(b, v)
  <2>1. CASE u \in sums
    <3>1. u = u + Part(0, v)
      BY <2>1, <1>1, <1>2
    <3> QED
      BY <2>1, <3>1
  <2>2. CASE \E s \in sums : u = s + v
    BY <2>2, <1>2
  <2> QED
    BY <2>1, <2>2 DEF WithValue
<1>4. ASSUME NEW s \in sums, NEW b \in {0, 1}
      PROVE  s + Part(b, v) \in WithValue(sums, v)
  BY <1>1, <1>2 DEF WithValue
<1>5. WithValue(sums, v) \in SUBSET Int
  BY <1>1, Zenon DEF WithValue
<1> QED
  BY <1>3, <1>4, <1>5

LEMMA SumsUnfold ==
  ASSUME NEW vals \in [1 .. 4 -> 0 .. 63]
  PROVE  Sums(vals) = WithValue(WithValue(WithValue(WithValue({0}, vals[1]), vals[2]), vals[3]), vals[4])
<1> DEFINE S == SUBSET Int
           Fold(it) == [s \in SUBSET (DOMAIN vals) |->
                          IF s = {} THEN {0} ELSE WithValue(it[s \ {Max(s)}], vals[Max(s)])]
           c == CHOOSE it : it = Fold(it)
           h == [p \in (1 .. 4) \X S |-> WithValue(p[2], vals[p[1]])]
<1>1. Sums(vals) = c[DOMAIN vals]
  BY DEF Sums, FoldLeft, MapThenFoldSet, WithValue
<1>2. DOMAIN vals = 1 .. 4 /\ \A k \in 1 .. 4 : vals[k] \in Int
  OBVIOUS
<1>3. \A k \in 1 .. 4, s \in S : h[<<k, s>>] = WithValue(s, vals[k])
  BY Zenon
<1>4. \A k \in 1 .. 4, s \in S : h[<<k, s>>] \in S
  <2> TAKE k \in 1 .. 4, s \in S
  <2>1. s \in SUBSET Int /\ vals[k] \in Int
    BY <1>2
  <2>2. WithValue(s, vals[k]) \in SUBSET Int
    BY <2>1, WithValueIs
  <2> QED
    BY <2>2, <1>3
<1> HIDE DEF h
<1>5. PICK it \in [SUBSET (1 .. 4) -> S] : it = FoldStep(4, S, {0}, h, it)
  <2>1. {0} \in S /\ 4 \in Nat
    OBVIOUS
  <2> HIDE DEF S
  <2> QED
    BY <2>1, <1>4, FoldExists, Zenon
<1>6. it = Fold(it)
  <2>1. ASSUME NEW s \in SUBSET (1 .. 4), s # {}
        PROVE  h[<<Max(s), it[s \ {Max(s)}]>>] = WithValue(it[s \ {Max(s)}], vals[Max(s)])
    <3>1. Max(s) \in 1 .. 4 /\ s \ {Max(s)} \in SUBSET (1 .. 4)
      BY <2>1, MaxOfIndices
    <3>2. it[s \ {Max(s)}] \in S
      BY <3>1
    <3> QED
      BY <1>3, <3>1, <3>2
  <2> HIDE DEF S
  <2> QED
    BY <1>2, <1>5, <2>1, Zenon DEF FoldStep
<1>7. c = Fold(c)
  <2> HIDE DEF Fold
  <2> QED
    BY <1>6
<1> HIDE DEF c
<1>8. \A s \in SUBSET (DOMAIN vals) :
        c[s] = IF s = {} THEN {0} ELSE WithValue(c[s \ {Max(s)}], vals[Max(s)])
  BY <1>7, Zenon
<1>9. c[{}] = {0}
  BY <1>8, Zenon
<1>10. ASSUME NEW k \in 0 .. 3
       PROVE  c[1 .. k + 1] = WithValue(c[1 .. k], vals[k + 1])
  <2>1. 1 .. k + 1 \in SUBSET (DOMAIN vals)
    BY <1>2
  <2>2. 1 .. k + 1 # {} /\ Max(1 .. k + 1) = k + 1 /\ (1 .. k + 1) \ {k + 1} = 1 .. k
    <3>1. k \in Nat
      OBVIOUS
    <3> QED
      BY <3>1, IndicesNext, Zenon
  <2>3. PICK s : s = 1 .. k + 1
    OBVIOUS
  <2>4. c[s] = WithValue(c[s \ {Max(s)}], vals[Max(s)])
    BY <2>1, <2>2, <2>3, <1>8, Zenon
  <2> QED
    BY <2>2, <2>3, <2>4, Zenon
<1>11. 1 .. 0 = {} /\ c[1 .. 0] = {0}
  <2>1. 1 .. 0 = {}
    OBVIOUS
  <2> QED
    BY <2>1, <1>9
<1>12. c[1 .. 1] = WithValue(c[1 .. 0], vals[1]) /\ c[1 .. 2] = WithValue(c[1 .. 1], vals[2])
       /\ c[1 .. 3] = WithValue(c[1 .. 2], vals[3]) /\ c[1 .. 4] = WithValue(c[1 .. 3], vals[4])
  <2>1. 0 + 1 = 1 /\ 1 + 1 = 2 /\ 2 + 1 = 3 /\ 3 + 1 = 4
    OBVIOUS
  <2>2. /\ c[1 .. 0 + 1] = WithValue(c[1 .. 0], vals[0 + 1]) /\ c[1 .. 1 + 1] = WithValue(c[1 .. 1], vals[1 + 1])
        /\ c[1 .. 2 + 1] = WithValue(c[1 .. 2], vals[2 + 1]) /\ c[1 .. 3 + 1] = WithValue(c[1 .. 3], vals[3 + 1])
    BY <1>10
  <2> QED
    BY <2>1, <2>2
<1> QED
  BY <1>1, <1>2, <1>11, <1>12

LEMMA SumsAre ==
  ASSUME NEW vals \in [1 .. 4 -> 0 .. 63], NEW sum
  PROVE  sum \in Sums(vals) <=>
           \E b0, b1, b2, b3 \in {0, 1} :
             sum = Part(b0, vals[1]) + Part(b1, vals[2]) + Part(b2, vals[3]) + Part(b3, vals[4])
<1>1. \A k \in 1 .. 4 : vals[k] \in Int
  OBVIOUS
<1> DEFINE P(b, k) == Part(b, vals[k])
           s1 == WithValue({0}, vals[1])  s2 == WithValue(s1, vals[2])
           s3 == WithValue(s2, vals[3])  s4 == WithValue(s3, vals[4])
<1>2. \A b \in {0, 1}, k \in 1 .. 4 : P(b, k) \in Int /\ 0 + P(b, k) = P(b, k)
  BY <1>1 DEF Part
<1>3. s1 \in SUBSET Int /\ s2 \in SUBSET Int /\ s3 \in SUBSET Int /\ s4 \in SUBSET Int
  <2>1. {0} \in SUBSET Int
    OBVIOUS
  <2>2. s1 \in SUBSET Int
    BY <1>1, <2>1, WithValueIs
  <2>3. s2 \in SUBSET Int
    <3> HIDE DEF s1
    <3> QED
      BY <1>1, <2>2, WithValueIs
  <2>4. s3 \in SUBSET Int
    <3> HIDE DEF s2
    <3> QED
      BY <1>1, <2>3, WithValueIs
  <2>5. s4 \in SUBSET Int
    <3> HIDE DEF s3
    <3> QED
      BY <1>1, <2>4, WithValueIs
  <2> QED
    BY <2>2, <2>3, <2>4, <2>5
<1>4. /\ \A u \in s1 : \E b \in {0, 1} : u = P(b, 1)
      /\ \A u \in s2 : \E s \in s1, b \in {0, 1} : u = s + P(b, 2)
      /\ \A u \in s3 : \E s \in s2, b \in {0, 1} : u = s + P(b, 3)
      /\ \A u \in s4 : \E s \in s3, b \in {0, 1} : u = s + P(b, 4)
  <2>1. \A u \in s1 : \E s \in {0}, b \in {0, 1} : u = s + Part(b, vals[1])
    BY <1>1, WithValueIs
  <2>2. \A u \in s1 : \E b \in {0, 1} : u = P(b, 1)
    BY <2>1, <1>2
  <2> HIDE DEF s1, s2, s3
  <2> QED
    BY <2>2, <1>1, <1>3, WithValueIs DEF s2, s3
<1>5. /\ \A b \in {0, 1} : P(b, 1) \in s1
      /\ \A s \in s1, b \in {0, 1} : s + P(b, 2) \in s2
      /\ \A s \in s2, b \in {0, 1} : s + P(b, 3) \in s3
      /\ \A s \in s3, b \in {0, 1} : s + P(b, 4) \in s4
  <2>1. \A s \in {0}, b \in {0, 1} : s + Part(b, vals[1]) \in s1
    BY <1>1, WithValueIs
  <2>2. \A b \in {0, 1} : P(b, 1) \in s1
    <3> TAKE b \in {0, 1}
    <3>1. 0 + P(b, 1) \in s1
      BY <2>1
    <3> QED
      BY <3>1, <1>2
  <2> HIDE DEF s1, s2, s3
  <2> QED
    BY <2>2, <1>1, <1>3, WithValueIs DEF s2, s3
<1>6. Sums(vals) = s4
  BY SumsUnfold
<1> HIDE DEF P, s1, s2, s3, s4
<1>7. ASSUME sum \in s4
      PROVE  \E b0, b1, b2, b3 \in {0, 1} : sum = P(b0, 1) + P(b1, 2) + P(b2, 3) + P(b3, 4)
  <2>1. PICK u3 \in s3, b3 \in {0, 1} : sum = u3 + P(b3, 4)
    BY <1>4, <1>7
  <2>2. PICK u2 \in s2, b2 \in {0, 1} : u3 = u2 + P(b2, 3)
    BY <1>4
  <2>3. PICK u1 \in s1, b1 \in {0, 1} : u2 = u1 + P(b1, 2)
    BY <1>4
  <2>4. PICK b0 \in {0, 1} : u1 = P(b0, 1)
    BY <1>4
  <2> QED
    BY <2>1, <2>2, <2>3, <2>4
<1>8. ASSUME NEW b0 \in {0, 1}, NEW b1 \in {0, 1}, NEW b2 \in {0, 1}, NEW b3 \in {0, 1}
      PROVE  P(b0, 1) + P(b1, 2) + P(b2, 3) + P(b3, 4) \in s4
  <2>1. P(b0, 1) \in s1
    BY <1>5
  <2>2. P(b0, 1) + P(b1, 2) \in s2
    BY <2>1, <1>5
  <2>3. P(b0, 1) + P(b1, 2) + P(b2, 3) \in s3
    BY <2>2, <1>5
  <2> QED
    BY <2>3, <1>5
<1> QED
  BY <1>6, <1>7, <1>8 DEF P

\* A mask is four bits, and four bits are a mask.
LEMMA MaskBits ==
  /\ \A mask \in 0 .. 15 : /\ mask % 2 \in {0, 1} /\ (mask \div 2) % 2 \in {0, 1}
                           /\ (mask \div 4) % 2 \in {0, 1} /\ (mask \div 8) % 2 \in {0, 1}
  /\ \A b0, b1, b2, b3 \in {0, 1} : \E mask \in 0 .. 15 :
       /\ mask % 2 = b0 /\ (mask \div 2) % 2 = b1
       /\ (mask \div 4) % 2 = b2 /\ (mask \div 8) % 2 = b3
<1>1. \A mask \in 0 .. 15 : /\ mask % 2 \in {0, 1} /\ (mask \div 2) % 2 \in {0, 1}
                            /\ (mask \div 4) % 2 \in {0, 1} /\ (mask \div 8) % 2 \in {0, 1}
  OBVIOUS
<1>2. ASSUME NEW b0 \in {0, 1}, NEW b1 \in {0, 1}, NEW b2 \in {0, 1}, NEW b3 \in {0, 1}
      PROVE  \E mask \in 0 .. 15 : /\ mask % 2 = b0 /\ (mask \div 2) % 2 = b1
                                   /\ (mask \div 4) % 2 = b2 /\ (mask \div 8) % 2 = b3
  <2>1. PICK m \in 0 .. 15 : m = b0 + 2 * b1 + 4 * b2 + 8 * b3
    OBVIOUS
  <2>2. m % 2 = b0 /\ (m \div 2) % 2 = b1 /\ (m \div 4) % 2 = b2 /\ (m \div 8) % 2 = b3
    BY <2>1
  <2> QED
    BY <2>2
<1> QED
  BY <1>1, <1>2

LEMMA MaskSums ==
  ASSUME x[1] \in [1 .. 4 -> 0 .. 63], NEW sum
  PROVE  sum \in Sums(x[1]) <=> \E mask \in 0 .. 15 : MaskSum(mask) = sum
<1>1. PICK vals \in [1 .. 4 -> 0 .. 63] : vals = x[1]
  OBVIOUS
<1>2. \A mask \in 0 .. 15 : MaskSum(mask) =
        Part(mask % 2, vals[1]) + Part((mask \div 2) % 2, vals[2])
        + Part((mask \div 4) % 2, vals[3]) + Part((mask \div 8) % 2, vals[4])
  <2> TAKE mask \in 0 .. 15
  <2>1. mask \div 1 = mask
    OBVIOUS
  <2>2. 0 + 1 = 1 /\ 1 + 1 = 2 /\ 2 + 1 = 3 /\ 3 + 1 = 4
    OBVIOUS
  <2> QED
    BY <1>1, <2>1, <2>2, PowersOfTwo DEF MaskSum, Part
<1>3. sum \in Sums(vals) <=> \E b0, b1, b2, b3 \in {0, 1} :
        sum = Part(b0, vals[1]) + Part(b1, vals[2]) + Part(b2, vals[3]) + Part(b3, vals[4])
  BY SumsAre
<1>4. ASSUME NEW mask \in 0 .. 15, MaskSum(mask) = sum
      PROVE  sum \in Sums(vals)
  <2>1. PICK b0, b1, b2, b3 \in {0, 1} : /\ mask % 2 = b0 /\ (mask \div 2) % 2 = b1
                                         /\ (mask \div 4) % 2 = b2 /\ (mask \div 8) % 2 = b3
    BY MaskBits
  <2> QED
    BY <1>2, <1>3, <1>4, <2>1
<1>5. ASSUME sum \in Sums(vals)
      PROVE  \E mask \in 0 .. 15 : MaskSum(mask) = sum
  <2>1. PICK b0, b1, b2, b3 \in {0, 1} :
          sum = Part(b0, vals[1]) + Part(b1, vals[2]) + Part(b2, vals[3]) + Part(b3, vals[4])
    BY <1>3, <1>5
  <2>2. PICK mask \in 0 .. 15 : /\ mask % 2 = b0 /\ (mask \div 2) % 2 = b1
                                /\ (mask \div 4) % 2 = b2 /\ (mask \div 8) % 2 = b3
    BY MaskBits
  <2> QED
    BY <1>2, <2>1, <2>2
<1> QED
  BY <1>1, <1>4, <1>5

-----------------------------------------------------------------------------
LEMMA SubsetSumInit ==
  ASSUME task = "subset_sum_4x6", x \in RandomWords(task), locals = Locals(task, x)
  PROVE  SubsetSumInv
<1>1. x \in {w \in [1 .. 4 -> 0 .. 63] \X Byte : w[2] <= Total(w[1]) + 4} /\ locals = [i |-> 0]
  BY DEF RandomWords, Locals
<1>2. x[1] \in [1 .. 4 -> 0 .. 63] /\ x[2] \in Byte
  BY <1>1
<1>3. i = 0 /\ locals \in [i : 0 .. 16]
  BY <1>1 DEF i
<1> QED
  BY <1>1, <1>2, <1>3 DEF SubsetSumInv

LEMMA SubsetSumStep ==
  ASSUME SubsetSumInv, SubsetSum4x6
  PROVE  SubsetSumInv' /\ (pc' = "returned" => SubsetSumAnswer')
<1> USE DEF i
<1>1. /\ x' = x /\ pc = "loop" /\ x[1] \in [1 .. 4 -> 0 .. 63] /\ x[2] \in Byte
      /\ i \in 0 .. 16 /\ locals = [i |-> i] /\ \A mask \in 0 .. i - 1 : MaskSum(mask) # x[2]
  BY DEF SubsetSumInv, SubsetSum4x6, Continue, Return, In
<1>2. \A mask : MaskSum(mask)' = MaskSum(mask)
  BY <1>1 DEF MaskSum
<1>3. x[2] \in Sums(x[1]) <=> \E mask \in 0 .. 15 : MaskSum(mask) = x[2]
  BY <1>1, MaskSums
<1>4. ASSUME locals' = locals, NEW b \in BOOLEAN, result' = BoolToInt(b), b <=> x[2] \in Sums(x[1])
      PROVE  SubsetSumInv' /\ SubsetSumAnswer'
  <2>1. SubsetSumInv'
    BY <1>1, <1>2, <1>4 DEF SubsetSumInv
  <2>2. BoolToInt(b) \in 0 .. 1 /\ BoolToInt(b) = BoolToInt(x[2] \in Sums(x[1]))
    BY <1>4 DEF BoolToInt
  <2>3. result' = BoolToInt(x'[2] \in Sums(x'[1]))
    BY <2>2, <1>1, <1>4
  <2> QED
    BY <2>1, <2>2, <2>3, <1>4 DEF SubsetSumAnswer
<1>5. CASE i = 16
  <2>1. locals' = locals /\ result' = 0 /\ BoolToInt(FALSE) = 0
    BY <1>5 DEF SubsetSum4x6, Return, BoolToInt
  <2>2. ~(x[2] \in Sums(x[1]))
    BY <1>1, <1>3, <1>5
  <2> QED
    BY <2>1, <2>2, <1>4, Zenon
<1>6. CASE i < 16 /\ MaskSum(i) = x[2]
  <2>1. locals' = locals /\ result' = 1 /\ BoolToInt(TRUE) = 1
    BY <1>6 DEF SubsetSum4x6, Return, BoolToInt
  <2>2. x[2] \in Sums(x[1])
    <3>1. i \in 0 .. 15
      BY <1>1, <1>6
    <3> QED
      BY <3>1, <1>3, <1>6
  <2> QED
    BY <2>1, <2>2, <1>4, Zenon
<1>7. CASE i < 16 /\ MaskSum(i) # x[2]
  <2>1. locals' = [i |-> i + 1] /\ pc' = pc
    BY <1>1, <1>7 DEF SubsetSum4x6, Continue, Next_i
  <2>2. \A mask \in 0 .. (i + 1) - 1 : MaskSum(mask) # x[2]
    <3>1. \A mask \in 0 .. (i + 1) - 1 : mask \in 0 .. i - 1 \/ mask = i
      BY <1>1
    <3> QED
      BY <3>1, <1>1, <1>7
  <2>3. SubsetSumInv'
    <3>1. locals'.i = i + 1 /\ locals' \in [i : 0 .. 16]
      BY <2>1, <1>1, <1>7
    <3>2. \A mask \in 0 .. locals'.i - 1 : MaskSum(mask)' # x'[2]
      BY <2>2, <3>1, <1>1, <1>2
    <3>3. x' \in {w \in [1 .. 4 -> 0 .. 63] \X Byte : w[2] <= Total(w[1]) + 4}
      BY <1>1 DEF SubsetSumInv
    <3> QED
      BY <3>1, <3>2, <3>3, <1>1 DEF SubsetSumInv
  <2> QED
    BY <2>1, <2>3, <1>1
<1> QED
  BY <1>1, <1>5, <1>6, <1>7

-----------------------------------------------------------------------------
\* inversion_4x4: the pairs behind the loop are counted.
InversionInv ==
  /\ x \in [1 .. 4 -> Nibble] /\ locals \in [i : 0 .. 4, count : 0 .. 6]
  /\ locals.count = Cardinality({e \in (1 .. i) \X (1 .. 4) : e[1] < e[2] /\ x[e[1]] > x[e[2]]})
InversionAnswer == result = SwapsToSort(x) /\ result \in 0 .. 7

LEMMA InversionCase ==
  task = "inversion_4x4" =>
    /\ Kept <=> Running /\ InversionInv
    /\ Answer <=> InversionAnswer
<1>1. ASSUME task = "inversion_4x4"
      PROVE  Kept <=> Running /\ InversionInv
  BY <1>1 DEF Kept, TypeOK, RandomWords, LocalsOf, LoopInv, TASK_REGISTRY, Running, InversionInv
<1>2. ASSUME task = "inversion_4x4"
      PROVE  Answer <=> InversionAnswer
  <2>1. TASK_REGISTRY[task].out_bits = 3
    BY <1>2 DEF TASK_REGISTRY, INVERSION_4X4
  <2> QED
    BY <1>2, <2>1, PowersOfTwo DEF Answer, Described, Fits, Digits, InversionAnswer
<1> QED
  BY <1>1, <1>2

\* The pairs of which the first is one of the first n, and those of one first.
InvertedPairs(a, n) == {e \in (1 .. n) \X (1 .. 4) : e[1] < e[2] /\ a[e[1]] > a[e[2]]}
After(a, n) == {j \in n + 1 .. 4 : a[n] > a[j]}

LEMMA InvertedPairsNext ==
  ASSUME NEW a, NEW n \in 0 .. 3
  PROVE  Cardinality(InvertedPairs(a, n + 1)) = Cardinality(InvertedPairs(a, n)) + Cardinality(After(a, n + 1))
<1> DEFINE S == InvertedPairs(a, n)  J == After(a, n + 1)
           R == {e \in {n + 1} \X (1 .. 4) : e[1] < e[2] /\ a[e[1]] > a[e[2]]}
           f == [j \in J |-> <<n + 1, j>>]
<1>1. IsFiniteSet(S)
  <2>1. IsFiniteSet(1 .. n) /\ IsFiniteSet(1 .. 4)
    <3>1. n \in Nat /\ 4 \in Nat
      OBVIOUS
    <3> QED
      BY <3>1, CountTo, Zenon
  <2>2. IsFiniteSet((1 .. n) \X (1 .. 4))
    BY <2>1, FS_Product, Zenon
  <2>3. S \subseteq (1 .. n) \X (1 .. 4)
    BY DEF InvertedPairs
  <2> QED
    BY <2>2, <2>3, FS_Subset
<1>2. J \subseteq 1 .. 4 /\ \A j : j \in J <=> j \in 1 .. 4 /\ n + 1 < j /\ a[n + 1] > a[j]
  BY DEF After
<1>3. IsFiniteSet(J)
  BY <1>2, CountSome
<1>4. IsFiniteSet(R) /\ Cardinality(R) = Cardinality(J)
  <2>1. \A j \in J : <<n + 1, j>> \in R
    BY <1>2
  <2>2. f \in [J -> R]
    BY <2>1
  <2>3. \A b, c \in J : f[b] = f[c] => b = c
    OBVIOUS
  <2>4. \A t \in R : \E s \in J : f[s] = t
    <3> TAKE t \in R
    <3>1. t = <<n + 1, t[2]>> /\ t[2] \in 1 .. 4 /\ n + 1 < t[2] /\ a[n + 1] > a[t[2]]
      OBVIOUS
    <3>2. t[2] \in J
      BY <3>1, <1>2
    <3> QED
      BY <3>1, <3>2
  <2> HIDE DEF f, J, R
  <2> QED
    BY <2>2, <2>3, <2>4, <1>3, SameCount
<1>5. InvertedPairs(a, n + 1) = S \cup R /\ S \cap R = {}
  <2>1. 1 .. n + 1 = (1 .. n) \cup {n + 1} /\ n + 1 \notin 1 .. n
    OBVIOUS
  <2>2. ASSUME NEW e
        PROVE  e \in InvertedPairs(a, n + 1) <=> e \in S \/ e \in R
    BY <2>1 DEF InvertedPairs
  <2>3. ASSUME NEW e
        PROVE  ~(e \in S /\ e \in R)
    BY <2>1 DEF InvertedPairs
  <2> HIDE DEF S, R
  <2> QED
    BY <2>2, <2>3
<1> HIDE DEF S, R, J
<1> QED
  BY <1>1, <1>4, <1>5, CountBoth DEF S, J

Greater(a, k, m) == BoolToInt(a[k] > a[m])

LEMMA InvertedPairsAre ==
  ASSUME NEW a
  PROVE  /\ Cardinality(InvertedPairs(a, 0)) = 0
         /\ Cardinality(InvertedPairs(a, 4)) =
              Greater(a, 1, 2) + Greater(a, 1, 3) + Greater(a, 1, 4)
              + Greater(a, 2, 3) + Greater(a, 2, 4) + Greater(a, 3, 4)
         /\ \A n \in 0 .. 4 : Cardinality(InvertedPairs(a, n)) \in 0 .. 6
<1>1. \A k, m : Greater(a, k, m) \in {0, 1}
  BY DEF Greater, BoolToInt
<1>2. Cardinality(InvertedPairs(a, 0)) = 0
  <2>1. InvertedPairs(a, 0) = {}
    BY DEF InvertedPairs
  <2> QED
    BY <2>1, FS_EmptySet
<1>3. ASSUME NEW n \in 1 .. 4
      PROVE  Cardinality(After(a, n)) = BoolToInt(1 \in After(a, n)) + BoolToInt(2 \in After(a, n))
                                        + BoolToInt(3 \in After(a, n)) + BoolToInt(4 \in After(a, n))
  <2>1. After(a, n) \subseteq 1 .. 4
    BY DEF After
  <2> QED
    BY <2>1, CountFour
<1>4. ASSUME NEW n \in 1 .. 4, NEW m \in 1 .. 4
      PROVE  BoolToInt(m \in After(a, n)) = IF n < m THEN Greater(a, n, m) ELSE 0
  <2>1. m \in After(a, n) <=> n < m /\ a[n] > a[m]
    BY DEF After
  <2> QED
    BY <2>1 DEF Greater, BoolToInt
<1>5. /\ Cardinality(After(a, 1)) = Greater(a, 1, 2) + Greater(a, 1, 3) + Greater(a, 1, 4)
      /\ Cardinality(After(a, 2)) = Greater(a, 2, 3) + Greater(a, 2, 4)
      /\ Cardinality(After(a, 3)) = Greater(a, 3, 4)
      /\ Cardinality(After(a, 4)) = 0
  <2>1. \A n \in 1 .. 4 : Cardinality(After(a, n)) =
          (IF n < 1 THEN Greater(a, n, 1) ELSE 0) + (IF n < 2 THEN Greater(a, n, 2) ELSE 0)
          + (IF n < 3 THEN Greater(a, n, 3) ELSE 0) + (IF n < 4 THEN Greater(a, n, 4) ELSE 0)
    BY <1>3, <1>4
  <2> QED
    BY <2>1, <1>1
<1>6. /\ Cardinality(InvertedPairs(a, 1)) = Cardinality(InvertedPairs(a, 0)) + Cardinality(After(a, 1))
      /\ Cardinality(InvertedPairs(a, 2)) = Cardinality(InvertedPairs(a, 1)) + Cardinality(After(a, 2))
      /\ Cardinality(InvertedPairs(a, 3)) = Cardinality(InvertedPairs(a, 2)) + Cardinality(After(a, 3))
      /\ Cardinality(InvertedPairs(a, 4)) = Cardinality(InvertedPairs(a, 3)) + Cardinality(After(a, 4))
  <2>1. 0 + 1 = 1 /\ 1 + 1 = 2 /\ 2 + 1 = 3 /\ 3 + 1 = 4
    OBVIOUS
  <2>2. /\ Cardinality(InvertedPairs(a, 0 + 1)) = Cardinality(InvertedPairs(a, 0)) + Cardinality(After(a, 0 + 1))
        /\ Cardinality(InvertedPairs(a, 1 + 1)) = Cardinality(InvertedPairs(a, 1)) + Cardinality(After(a, 1 + 1))
        /\ Cardinality(InvertedPairs(a, 2 + 1)) = Cardinality(InvertedPairs(a, 2)) + Cardinality(After(a, 2 + 1))
        /\ Cardinality(InvertedPairs(a, 3 + 1)) = Cardinality(InvertedPairs(a, 3)) + Cardinality(After(a, 3 + 1))
    BY InvertedPairsNext
  <2> QED
    BY <2>1, <2>2
<1>7. \A n \in 0 .. 4 : n = 0 \/ n = 1 \/ n = 2 \/ n = 3 \/ n = 4
  OBVIOUS
<1>8. /\ Greater(a, 1, 2) \in {0, 1} /\ Greater(a, 1, 3) \in {0, 1} /\ Greater(a, 1, 4) \in {0, 1}
      /\ Greater(a, 2, 3) \in {0, 1} /\ Greater(a, 2, 4) \in {0, 1} /\ Greater(a, 3, 4) \in {0, 1}
  BY <1>1
<1>9. /\ Cardinality(InvertedPairs(a, 0)) \in 0 .. 0 /\ Cardinality(InvertedPairs(a, 1)) \in 0 .. 3
      /\ Cardinality(InvertedPairs(a, 2)) \in 0 .. 5 /\ Cardinality(InvertedPairs(a, 3)) \in 0 .. 6
      /\ Cardinality(InvertedPairs(a, 4)) \in 0 .. 6
  BY <1>2, <1>5, <1>6, <1>8
<1>10. Cardinality(InvertedPairs(a, 4)) =
         Greater(a, 1, 2) + Greater(a, 1, 3) + Greater(a, 1, 4)
         + Greater(a, 2, 3) + Greater(a, 2, 4) + Greater(a, 3, 4)
  BY <1>2, <1>5, <1>6, <1>8
<1> QED
  BY <1>2, <1>7, <1>9, <1>10

-----------------------------------------------------------------------------
\* The insertion sort's way of counting: a value moves by the greater ones
\* before it.
Carried(r, v) == [swaps |-> r.swaps + Cardinality({m \in DOMAIN r.seen : r.seen[m] > v}),
                  seen |-> Append(r.seen, v)]
NoneSeen == [swaps |-> 0, seen |-> << >>]

LEMMA SwapsUnfold ==
  ASSUME NEW a \in [1 .. 4 -> Int]
  PROVE  SwapsToSort(a) =
           Carried(Carried(Carried(Carried(NoneSeen, a[1]), a[2]), a[3]), a[4]).swaps
<1> DEFINE S == [swaps : Int, seen : Seq(Int)]
           Fold(it) == [s \in SUBSET (DOMAIN a) |->
                          IF s = {} THEN NoneSeen ELSE Carried(it[s \ {Max(s)}], a[Max(s)])]
           c == CHOOSE it : it = Fold(it)
           h == [p \in (1 .. 4) \X S |-> Carried(p[2], a[p[1]])]
<1>1. SwapsToSort(a) = c[DOMAIN a].swaps
  BY DEF SwapsToSort, FoldLeft, MapThenFoldSet, Carried, NoneSeen
<1>2. DOMAIN a = 1 .. 4 /\ \A k \in 1 .. 4 : a[k] \in Int
  OBVIOUS
<1>3. \A k \in 1 .. 4, s \in S : h[<<k, s>>] = Carried(s, a[k])
  OBVIOUS
<1>4. \A k \in 1 .. 4, s \in S : h[<<k, s>>] \in S
  <2> TAKE k \in 1 .. 4, s \in S
  <2>1. PICK t \in Seq(Int) : t = s.seen
    OBVIOUS
  <2>2. PICK v \in Int : v = a[k]
    BY <1>2
  <2>3. Append(t, v) \in Seq(Int)
    BY AppendProperties
  <2>4. Cardinality({m \in DOMAIN t : t[m] > v}) \in Int
    <3>1. Len(t) \in Nat /\ {m \in DOMAIN t : t[m] > v} \subseteq 1 .. Len(t)
      OBVIOUS
    <3>2. Cardinality({m \in DOMAIN t : t[m] > v}) \in 0 .. Len(t)
      BY <3>1, CountSome
    <3> QED
      BY <3>1, <3>2
  <2>5. PICK m \in Int : m = Cardinality({n \in DOMAIN t : t[n] > v})
    BY <2>4, Zenon
  <2>6. Carried(s, a[k]) = [swaps |-> s.swaps + m, seen |-> Append(t, v)] /\ s.swaps \in Int
    BY <2>1, <2>2, <2>5 DEF Carried
  <2>7. Carried(s, a[k]) \in S
    BY <2>3, <2>6
  <2> HIDE DEF S
  <2> QED
    BY <2>7, <1>3
<1> HIDE DEF h
<1>5. PICK it \in [SUBSET (1 .. 4) -> S] : it = FoldStep(4, S, NoneSeen, h, it)
  <2>1. NoneSeen \in S /\ 4 \in Nat
    <3>1. << >> \in Seq(Int)
      BY EmptySeq
    <3>2. PICK empty \in Seq(Int) : empty = << >>
      BY <3>1, Zenon
    <3>3. NoneSeen = [swaps |-> 0, seen |-> empty]
      BY <3>2 DEF NoneSeen
    <3> QED
      BY <3>3
  <2> HIDE DEF S
  <2> QED
    BY <2>1, <1>4, FoldExists, Zenon
<1> HIDE DEF S
<1>6. it = Fold(it)
  <2>1. ASSUME NEW s \in SUBSET (1 .. 4), s # {}
        PROVE  h[<<Max(s), it[s \ {Max(s)}]>>] = Carried(it[s \ {Max(s)}], a[Max(s)])
    <3>1. Max(s) \in 1 .. 4 /\ s \ {Max(s)} \in SUBSET (1 .. 4)
      BY <2>1, MaxOfIndices
    <3>2. it[s \ {Max(s)}] \in S
      BY <3>1
    <3> QED
      BY <1>3, <3>1, <3>2
  <2> QED
    BY <1>2, <1>5, <2>1, Zenon DEF FoldStep
<1>7. c = Fold(c)
  <2> HIDE DEF Fold
  <2> QED
    BY <1>6
<1> HIDE DEF c
<1>8. \A s \in SUBSET (DOMAIN a) :
        c[s] = IF s = {} THEN NoneSeen ELSE Carried(c[s \ {Max(s)}], a[Max(s)])
  BY <1>7, Zenon
<1>9. ASSUME NEW k \in 0 .. 3
      PROVE  c[1 .. k + 1] = Carried(c[1 .. k], a[k + 1])
  <2>1. 1 .. k + 1 \in SUBSET (DOMAIN a)
    BY <1>2
  <2>2. 1 .. k + 1 # {} /\ Max(1 .. k + 1) = k + 1 /\ (1 .. k + 1) \ {k + 1} = 1 .. k
    <3>1. k \in Nat
      OBVIOUS
    <3> QED
      BY <3>1, IndicesNext, Zenon
  <2>3. PICK s : s = 1 .. k + 1
    OBVIOUS
  <2>4. c[s] = Carried(c[s \ {Max(s)}], a[Max(s)])
    BY <2>1, <2>2, <2>3, <1>8, Zenon
  <2> QED
    BY <2>2, <2>3, <2>4, Zenon
<1>10. c[1 .. 0] = NoneSeen
  <2>1. 1 .. 0 = {}
    OBVIOUS
  <2> QED
    BY <2>1, <1>8, Zenon
<1>11. /\ c[1 .. 1] = Carried(c[1 .. 0], a[1]) /\ c[1 .. 2] = Carried(c[1 .. 1], a[2])
       /\ c[1 .. 3] = Carried(c[1 .. 2], a[3]) /\ c[1 .. 4] = Carried(c[1 .. 3], a[4])
  <2>1. 0 + 1 = 1 /\ 1 + 1 = 2 /\ 2 + 1 = 3 /\ 3 + 1 = 4
    OBVIOUS
  <2>2. /\ c[1 .. 0 + 1] = Carried(c[1 .. 0], a[0 + 1]) /\ c[1 .. 1 + 1] = Carried(c[1 .. 1], a[1 + 1])
        /\ c[1 .. 2 + 1] = Carried(c[1 .. 2], a[2 + 1]) /\ c[1 .. 3 + 1] = Carried(c[1 .. 3], a[3 + 1])
    BY <1>9
  <2> QED
    BY <2>1, <2>2
<1> QED
  BY <1>1, <1>2, <1>10, <1>11

\* One more value carried to its place behind n others.
LEMMA CarriedNext ==
  ASSUME NEW a \in [1 .. 4 -> Int], NEW n \in 0 .. 3, NEW r,
         r.seen = SubSeq(a, 1, n)
  PROVE  /\ Carried(r, a[n + 1]).seen = SubSeq(a, 1, n + 1)
         /\ Carried(r, a[n + 1]).swaps = r.swaps + Cardinality({m \in 1 .. n : a[m] > a[n + 1]})
<1>1. DOMAIN SubSeq(a, 1, n) = 1 .. n /\ \A m \in 1 .. n : SubSeq(a, 1, n)[m] = a[m]
  OBVIOUS
<1>2. {m \in DOMAIN r.seen : r.seen[m] > a[n + 1]} = {m \in 1 .. n : a[m] > a[n + 1]}
  <2>1. PICK t : t = SubSeq(a, 1, n)
    OBVIOUS
  <2>2. DOMAIN t = 1 .. n /\ (\A m \in 1 .. n : t[m] = a[m]) /\ r.seen = t
    BY <2>1, <1>1
  <2> QED
    BY <2>2, Zenon
<1>3. Append(SubSeq(a, 1, n), a[n + 1]) = SubSeq(a, 1, n + 1)
  <2>1. PICK w \in Nat : w = 4
    OBVIOUS
  <2>2. a \in [1 .. w -> Int]
    BY <2>1
  <2>3. a \in Seq(Int) /\ Len(a) = w
    BY <2>2
  <2>4. PICK s \in Seq(Int) : s = a
    BY <2>3
  <2>5. n \in 0 .. Len(s) - 1 /\ 1 \in 1 .. n + 1
    <3>1. Len(s) = 4
      BY <2>1, <2>3, <2>4
    <3> QED
      BY <3>1
  <2>6. Append(SubSeq(s, 1, n), s[n + 1]) = SubSeq(s, 1, n + 1)
    BY <2>5, SliceAndNext, Zenon
  <2> QED
    BY <2>4, <2>6
<1> QED
  BY <1>2, <1>3, Zenon DEF Carried

LEMMA SwapsAre ==
  ASSUME NEW a \in [1 .. 4 -> Int]
  PROVE  SwapsToSort(a) = Cardinality(InvertedPairs(a, 4))
<1> DEFINE B(n) == {m \in 1 .. n : a[m] > a[n + 1]}
           r0 == NoneSeen  r1 == Carried(r0, a[1])  r2 == Carried(r1, a[2])
           r3 == Carried(r2, a[3])  r4 == Carried(r3, a[4])
<1>1. r0.seen = SubSeq(a, 1, 0) /\ r0.swaps = 0
  BY DEF NoneSeen
<1>2. \A n \in 0 .. 3 : \A r : r.seen = SubSeq(a, 1, n) =>
        /\ Carried(r, a[n + 1]).seen = SubSeq(a, 1, n + 1)
        /\ Carried(r, a[n + 1]).swaps = r.swaps + Cardinality(B(n))
  BY CarriedNext, Zenon
<1>3. 0 + 1 = 1 /\ 1 + 1 = 2 /\ 2 + 1 = 3 /\ 3 + 1 = 4
  OBVIOUS
<1>4. \A n \in 0 .. 3, k \in 1 .. 4 : k \in B(n) <=> k \in 1 .. n /\ a[k] > a[n + 1]
  OBVIOUS
<1>5. \A n \in 0 .. 3 : B(n) \subseteq 1 .. 4
  OBVIOUS
<1> HIDE DEF B, r0
<1>6. r1.seen = SubSeq(a, 1, 1) /\ r1.swaps = r0.swaps + Cardinality(B(0))
  <2>1. /\ Carried(r0, a[0 + 1]).seen = SubSeq(a, 1, 0 + 1)
        /\ Carried(r0, a[0 + 1]).swaps = r0.swaps + Cardinality(B(0))
    BY <1>1, <1>2
  <2> QED
    BY <2>1, <1>3
<1> HIDE DEF r1
<1>7. r2.seen = SubSeq(a, 1, 2) /\ r2.swaps = r1.swaps + Cardinality(B(1))
  <2>1. /\ Carried(r1, a[1 + 1]).seen = SubSeq(a, 1, 1 + 1)
        /\ Carried(r1, a[1 + 1]).swaps = r1.swaps + Cardinality(B(1))
    BY <1>6, <1>2
  <2> QED
    BY <2>1, <1>3
<1> HIDE DEF r2
<1>8. r3.seen = SubSeq(a, 1, 3) /\ r3.swaps = r2.swaps + Cardinality(B(2))
  <2>1. /\ Carried(r2, a[2 + 1]).seen = SubSeq(a, 1, 2 + 1)
        /\ Carried(r2, a[2 + 1]).swaps = r2.swaps + Cardinality(B(2))
    BY <1>7, <1>2
  <2> QED
    BY <2>1, <1>3
<1> HIDE DEF r3
<1>9. r4.swaps = r3.swaps + Cardinality(B(3))
  <2>1. Carried(r3, a[3 + 1]).swaps = r3.swaps + Cardinality(B(3))
    BY <1>8, <1>2
  <2> QED
    BY <2>1, <1>3
<1>10. SwapsToSort(a) = r4.swaps
  BY SwapsUnfold DEF r3, r2, r1, r0
<1> HIDE DEF r4
<1>11. \A n \in 0 .. 3 : Cardinality(B(n)) =
         BoolToInt(1 \in B(n)) + BoolToInt(2 \in B(n)) + BoolToInt(3 \in B(n)) + BoolToInt(4 \in B(n))
  BY <1>5, CountFour
<1>12. ASSUME NEW n \in 0 .. 3, NEW k \in 1 .. 4
       PROVE  BoolToInt(k \in B(n)) = IF k <= n THEN Greater(a, k, n + 1) ELSE 0
  <2>1. k \in B(n) <=> k <= n /\ a[k] > a[n + 1]
    BY <1>4
  <2> QED
    BY <2>1 DEF Greater, BoolToInt
<1>13. \A k, m : Greater(a, k, m) \in {0, 1}
  BY DEF Greater, BoolToInt
<1>14. /\ Cardinality(B(0)) = 0 /\ Cardinality(B(1)) = Greater(a, 1, 2)
       /\ Cardinality(B(2)) = Greater(a, 1, 3) + Greater(a, 2, 3)
       /\ Cardinality(B(3)) = Greater(a, 1, 4) + Greater(a, 2, 4) + Greater(a, 3, 4)
  <2>1. \A n \in 0 .. 3 : Cardinality(B(n)) =
          (IF 1 <= n THEN Greater(a, 1, n + 1) ELSE 0) + (IF 2 <= n THEN Greater(a, 2, n + 1) ELSE 0)
          + (IF 3 <= n THEN Greater(a, 3, n + 1) ELSE 0) + (IF 4 <= n THEN Greater(a, 4, n + 1) ELSE 0)
    BY <1>11, <1>12
  <2> QED
    BY <2>1, <1>3, <1>13
<1>15. Cardinality(InvertedPairs(a, 4)) =
         Greater(a, 1, 2) + Greater(a, 1, 3) + Greater(a, 1, 4)
         + Greater(a, 2, 3) + Greater(a, 2, 4) + Greater(a, 3, 4)
  BY InvertedPairsAre
<1>16. /\ Greater(a, 1, 2) \in {0, 1} /\ Greater(a, 1, 3) \in {0, 1} /\ Greater(a, 1, 4) \in {0, 1}
       /\ Greater(a, 2, 3) \in {0, 1} /\ Greater(a, 2, 4) \in {0, 1} /\ Greater(a, 3, 4) \in {0, 1}
  BY <1>13
<1>17. r0.swaps = 0
  BY <1>1
<1>18. r4.swaps = Greater(a, 1, 2) + (Greater(a, 1, 3) + Greater(a, 2, 3))
                  + (Greater(a, 1, 4) + Greater(a, 2, 4) + Greater(a, 3, 4))
  BY <1>6, <1>7, <1>8, <1>9, <1>14, <1>16, <1>17
<1> QED
  BY <1>10, <1>15, <1>16, <1>18

-----------------------------------------------------------------------------
LEMMA InversionInit ==
  ASSUME task = "inversion_4x4", x \in RandomWords(task), locals = Locals(task, x)
  PROVE  InversionInv
<1>1. x \in [1 .. 4 -> Nibble] /\ locals = [i |-> 0, count |-> 0]
  BY DEF RandomWords, Locals
<1>2. Cardinality(InvertedPairs(x, 0)) = 0
  BY InvertedPairsAre
<1> QED
  BY <1>1, <1>2 DEF InversionInv, InvertedPairs, i

LEMMA InversionStep ==
  ASSUME InversionInv, Inversion4x4
  PROVE  InversionInv' /\ (pc' = "returned" => InversionAnswer')
<1> USE DEF i
<1>1. /\ x' = x /\ i \in 0 .. 4 /\ x \in [1 .. 4 -> Nibble] /\ locals.count \in 0 .. 6
      /\ locals = [i |-> i, count |-> locals.count] /\ pc = "loop"
  BY DEF InversionInv, Inversion4x4, Continue, Return, In
<1>2. locals.count = Cardinality(InvertedPairs(x, i))
  BY DEF InversionInv, InvertedPairs
<1>3. ASSUME locals' \in [i : 0 .. 4, count : 0 .. 6], locals'.count = Cardinality(InvertedPairs(x, locals'.i))
      PROVE  InversionInv'
  BY <1>1, <1>3 DEF InversionInv, InvertedPairs
<1>4. CASE i = 4
  <2>1. locals' = locals /\ result' = locals.count
    BY <1>4 DEF Inversion4x4, Return
  <2>2. SwapsToSort(x) = Cardinality(InvertedPairs(x, 4))
    <3>1. x \in [1 .. 4 -> Int]
      BY <1>1, NibbleIsInt
    <3> QED
      BY <3>1, SwapsAre
  <2>3. result' = SwapsToSort(x') /\ result' \in 0 .. 7
    BY <2>1, <2>2, <1>1, <1>2, <1>4
  <2>4. InversionInv'
    BY <2>1, <1>1, <1>2, <1>3
  <2> QED
    BY <2>3, <2>4 DEF InversionAnswer
<1>5. CASE i \in 0 .. 3
  <2>1. locals' = [i |-> i + 1, count |-> locals.count + Cardinality(After(x, i + 1))] /\ pc' = pc
    <3>1. (i + 1) + 1 = i + 2
      BY <1>5
    <3>2. locals' = [Next_i EXCEPT !.count = @ + Cardinality(After(x, i + 1))] /\ pc' = pc
      BY <1>5, <3>1 DEF Inversion4x4, Continue, After
    <3>3. Next_i = [i |-> i + 1, count |-> locals.count]
      BY <1>1 DEF Next_i
    <3> QED
      BY <3>2, <3>3
  <2>2. Cardinality(InvertedPairs(x, i + 1)) = Cardinality(InvertedPairs(x, i)) + Cardinality(After(x, i + 1))
    BY <1>5, InvertedPairsNext
  <2>3. Cardinality(InvertedPairs(x, i + 1)) \in 0 .. 6 /\ i + 1 \in 0 .. 4
    <3>1. i + 1 \in 0 .. 4
      BY <1>5
    <3> QED
      BY <3>1, InvertedPairsAre
  <2>4. locals'.i = i + 1 /\ locals'.count = Cardinality(InvertedPairs(x, i + 1))
    BY <2>1, <2>2, <1>2
  <2>5. locals' \in [i : 0 .. 4, count : 0 .. 6]
    <3>1. PICK n \in 0 .. 6 : n = locals'.count
      BY <2>3, <2>4
    <3>2. locals' = [i |-> i + 1, count |-> n]
      BY <3>1, <2>1
    <3> QED
      BY <3>2, <2>3
  <2> QED
    BY <2>1, <2>4, <2>5, <1>1, <1>3
<1> QED
  BY <1>1, <1>4, <1>5

-----------------------------------------------------------------------------
\* histogram_4bin: the bins count what is behind the loop.
HistogramInv ==
  /\ x \in [1 .. 8 -> Nibble] /\ locals \in [i : 0 .. 8, counts : [1 .. 4 -> 0 .. 8]]
  /\ locals.counts = [b \in 1 .. 4 |-> InBin(SubSeq(x, 1, i), 4 * b - 4)]
HistogramAnswer ==
  /\ result = [b \in 1 .. 4 |-> InBin(x, 4 * b - 4)]
  /\ Len(result) * 4 = 16 /\ \A k \in DOMAIN result : result[k] \in 0 .. 2 ^ 4 - 1

LEMMA HistogramCase ==
  task = "histogram_4bin" =>
    /\ Kept <=> Running /\ HistogramInv
    /\ Answer <=> HistogramAnswer
<1>1. ASSUME task = "histogram_4bin"
      PROVE  Kept <=> Running /\ HistogramInv
  BY <1>1 DEF Kept, TypeOK, RandomWords, LocalsOf, LoopInv, TASK_REGISTRY, Running, HistogramInv
<1>2. ASSUME task = "histogram_4bin"
      PROVE  Answer <=> HistogramAnswer
  <2>1. TASK_REGISTRY[task].out_bits = 16
    BY <1>2 DEF TASK_REGISTRY, HISTOGRAM_4BIN
  <2> QED
    BY <1>2, <2>1, PowersOfTwo DEF Answer, Described, Fits, Digits, HistogramAnswer
<1> QED
  BY <1>1, <1>2

\* The values of a bin among the first n.
InBinOf(n, b) == {k \in 1 .. n : x[k] \in 4 * b - 4 .. 4 * b - 4 + 3}

LEMMA InBinOfPrefix ==
  ASSUME x \in [1 .. 8 -> Nibble], NEW n \in 0 .. 8
  PROVE  \A b \in 1 .. 4 : /\ InBin(SubSeq(x, 1, n), 4 * b - 4) = Cardinality(InBinOf(n, b))
                           /\ Cardinality(InBinOf(n, b)) \in 0 .. n
<1>1. DOMAIN SubSeq(x, 1, n) = 1 .. n /\ \A k \in 1 .. n : SubSeq(x, 1, n)[k] = x[k]
  OBVIOUS
<1>2. \A b \in 1 .. 4 : InBin(SubSeq(x, 1, n), 4 * b - 4) = Cardinality(InBinOf(n, b))
  <2> TAKE b \in 1 .. 4
  <2> DEFINE s == SubSeq(x, 1, n)
  <2>1. {k \in DOMAIN s : s[k] \in 4 * b - 4 .. 4 * b - 4 + 3} = InBinOf(n, b)
    <3> HIDE DEF s
    <3>1. DOMAIN s = 1 .. n /\ \A k \in 1 .. n : s[k] = x[k]
      BY <1>1 DEF s
    <3> QED
      BY <3>1, Zenon DEF InBinOf
  <2> QED
    BY <2>1, Zenon DEF InBin
<1>3. ASSUME NEW b \in 1 .. 4
      PROVE  Cardinality(InBinOf(n, b)) \in 0 .. n
  <2>1. InBinOf(n, b) \subseteq 1 .. n
    BY DEF InBinOf
  <2> QED
    BY <2>1, CountSome
<1> QED
  BY <1>2, <1>3

\* A value is in the bin of its quotient by 4.
LEMMA BinOfValue ==
  ASSUME NEW v \in Nibble
  PROVE  /\ v \div 4 + 1 \in 1 .. 4
         /\ \A b \in 1 .. 4 : v \in 4 * b - 4 .. 4 * b - 4 + 3 <=> b = v \div 4 + 1
<1>1. v \in 0 .. 15
  BY NibbleIsInt
<1> QED
  BY <1>1

LEMMA InBinOfNext ==
  ASSUME x \in [1 .. 8 -> Nibble], NEW n \in 0 .. 7
  PROVE  \A b \in 1 .. 4 : Cardinality(InBinOf(n + 1, b))
           = Cardinality(InBinOf(n, b)) + BoolToInt(b = x[n + 1] \div 4 + 1)
<1> TAKE b \in 1 .. 4
<1>1. InBinOf(n + 1, b) \subseteq 1 .. n + 1 /\ InBinOf(n + 1, b) \cap (1 .. n) = InBinOf(n, b)
  BY DEF InBinOf
<1>2. n + 1 \in InBinOf(n + 1, b) <=> b = x[n + 1] \div 4 + 1
  <2>1. x[n + 1] \in Nibble
    OBVIOUS
  <2>2. n + 1 \in InBinOf(n + 1, b) <=> x[n + 1] \in 4 * b - 4 .. 4 * b - 4 + 3
    BY DEF InBinOf
  <2> QED
    BY <2>1, <2>2, BinOfValue
<1>3. BoolToInt(n + 1 \in InBinOf(n + 1, b)) = BoolToInt(b = x[n + 1] \div 4 + 1)
  BY <1>2 DEF BoolToInt
<1> QED
  BY <1>1, <1>3, CountNext

LEMMA HistogramInit ==
  ASSUME task = "histogram_4bin", x \in RandomWords(task), locals = Locals(task, x)
  PROVE  HistogramInv
<1>1. x \in [1 .. 8 -> Nibble] /\ locals = [i |-> 0, counts |-> <<0, 0, 0, 0>>]
  BY DEF RandomWords, Locals
<1>2. locals.i = 0 /\ locals.counts = [b \in 1 .. 4 |-> 0]
  BY <1>1
<1>3. \A b \in 1 .. 4 : InBin(SubSeq(x, 1, 0), 4 * b - 4) = 0
  <2>1. \A b \in 1 .. 4 : /\ InBin(SubSeq(x, 1, 0), 4 * b - 4) = Cardinality(InBinOf(0, b))
                          /\ Cardinality(InBinOf(0, b)) \in 0 .. 0
    BY <1>1, InBinOfPrefix
  <2> QED
    BY <2>1
<1>4. locals.counts = [b \in 1 .. 4 |-> InBin(SubSeq(x, 1, 0), 4 * b - 4)]
  BY <1>2, <1>3
<1>5. locals \in [i : 0 .. 8, counts : [1 .. 4 -> 0 .. 8]]
  BY <1>1
<1> QED
  BY <1>1, <1>2, <1>4, <1>5 DEF HistogramInv, i

LEMMA HistogramStep ==
  ASSUME HistogramInv, Histogram4bin
  PROVE  HistogramInv' /\ (pc' = "returned" => HistogramAnswer')
<1> USE DEF i
<1> DEFINE counts == locals.counts
<1>1. /\ x' = x /\ x \in [1 .. 8 -> Nibble] /\ pc = "loop"
      /\ i \in 0 .. 8 /\ counts \in [1 .. 4 -> 0 .. 8]
      /\ locals = [i |-> i, counts |-> counts]
  BY DEF HistogramInv, Histogram4bin, Continue, Return, In
<1>2. counts = [b \in 1 .. 4 |-> InBin(SubSeq(x, 1, i), 4 * b - 4)]
  BY DEF HistogramInv
<1>3. CASE i = 8
  <2>1. locals' = locals /\ result' = Nibbles(counts)
    BY <1>3 DEF Histogram4bin, Return
  <2>2. counts \in Seq(Nibble) /\ Len(counts) = 4
    <3>1. PICK w \in Nat : w = 4
      OBVIOUS
    <3>2. counts \in [1 .. w -> Nibble]
      BY <3>1, <1>1 DEF Nibble
    <3> HIDE DEF counts
    <3>3. counts \in Seq(Nibble) /\ Len(counts) = w
      BY <3>2
    <3> QED
      BY <3>1, <3>3
  <2>3. result' = counts
    BY <2>1, <2>2, NibblesKept
  <2>4. SubSeq(x, 1, 8) = x
    BY <1>1
  <2>5. \A k \in DOMAIN counts : counts[k] \in 0 .. 2 ^ 4 - 1
    BY <2>2, NibblesFit
  <2>6. result' = [b \in 1 .. 4 |-> InBin(x', 4 * b - 4)]
    BY <2>3, <2>4, <1>1, <1>2, <1>3, Zenon
  <2>7. Len(counts) * 4 = 16
    BY <2>2
  <2>8. HistogramAnswer'
    BY <2>7, <2>3, <2>5, <2>6 DEF HistogramAnswer
  <2>9. HistogramInv'
    BY <2>1, <1>1, <1>2 DEF HistogramInv
  <2> QED
    BY <2>8, <2>9
<1>4. CASE i \in 0 .. 7
  <2> DEFINE bin == x[i + 1] \div 4 + 1
             next == [counts EXCEPT ![bin] = @ + 1]
  <2>1. locals' = [i |-> i + 1, counts |-> next] /\ pc' = pc
    <3>1. locals' = [Next_i EXCEPT !.counts[bin] = @ + 1] /\ pc' = pc
      BY <1>4 DEF Histogram4bin, Continue
    <3>2. Next_i = [i |-> i + 1, counts |-> counts]
      BY <1>1 DEF Next_i
    <3> HIDE DEF bin
    <3> QED
      BY <3>1, <3>2
  <2>2. \A b \in 1 .. 4 : counts[b] = Cardinality(InBinOf(i, b))
    BY <1>1, <1>2, InBinOfPrefix
  <2>3. \A b \in 1 .. 4 : next[b] = Cardinality(InBinOf(i + 1, b))
    <3>1. \A b \in 1 .. 4 : Cardinality(InBinOf(i + 1, b))
            = Cardinality(InBinOf(i, b)) + BoolToInt(b = bin)
      BY <1>1, <1>4, InBinOfNext
    <3>2. bin \in 1 .. 4
      BY <1>1, <1>4, BinOfValue
    <3>3. \A b \in 1 .. 4 : next[b] = counts[b] + BoolToInt(b = bin)
      <4> HIDE DEF bin, counts
      <4> QED
        BY <1>1, <3>2 DEF BoolToInt
    <3> HIDE DEF bin, next, counts
    <3> QED
      BY <3>1, <3>3, <2>2
  <2>4. \A b \in 1 .. 4 : /\ next[b] = InBin(SubSeq(x, 1, i + 1), 4 * b - 4)
                          /\ next[b] \in 0 .. 8
    <3>1. i + 1 \in 0 .. 8
      BY <1>4
    <3>2. \A b \in 1 .. 4 : /\ InBin(SubSeq(x, 1, i + 1), 4 * b - 4) = Cardinality(InBinOf(i + 1, b))
                            /\ Cardinality(InBinOf(i + 1, b)) \in 0 .. i + 1
      BY <3>1, <1>1, InBinOfPrefix
    <3> HIDE DEF next
    <3> QED
      BY <3>1, <3>2, <2>3
  <2>5. DOMAIN next = 1 .. 4 /\ next = [b \in 1 .. 4 |-> next[b]]
    BY <1>1
  <2> HIDE DEF next
  <2>6. next = [b \in 1 .. 4 |-> InBin(SubSeq(x, 1, i + 1), 4 * b - 4)] /\ next \in [1 .. 4 -> 0 .. 8]
    BY <2>4, <2>5
  <2>7. locals'.i = i + 1 /\ locals'.counts = next
    BY <2>1
  <2>8. locals' \in [i : 0 .. 8, counts : [1 .. 4 -> 0 .. 8]]
    BY <2>1, <2>6, <1>4
  <2> QED
    BY <2>1, <2>6, <2>7, <2>8, <1>1 DEF HistogramInv
<1> QED
  BY <1>1, <1>3, <1>4

-----------------------------------------------------------------------------
\* The first of the least values is the first of the greatest when every byte
\* is counted from the other end.
Flipped(a, w) == [k \in 1 .. w |-> 255 - a[k]]

LEMMA FlippedBytes ==
  ASSUME NEW w \in Nat, NEW a \in [1 .. w -> Byte]
  PROVE  /\ Flipped(a, w) \in [1 .. w -> Byte]
         /\ \A k, m \in 1 .. w : /\ a[m] >= a[k] <=> Flipped(a, w)[m] <= Flipped(a, w)[k]
                                 /\ a[m] < a[k] <=> Flipped(a, w)[m] > Flipped(a, w)[k]
<1>1. \A k \in 1 .. w : a[k] \in Byte
  OBVIOUS
<1>2. \A v \in Byte : 255 - v \in Byte
  BY DEF Byte
<1>3. \A v, u \in Byte : /\ v >= u <=> 255 - v <= 255 - u
                         /\ v < u <=> 255 - v > 255 - u
  BY ByteIsInt
<1> QED
  BY <1>1, <1>2, <1>3 DEF Flipped

LEMMA FirstMinAsMax ==
  ASSUME NEW w \in Nat, NEW a \in [1 .. w -> Byte]
  PROVE  FirstMin(a) = FirstMax(Flipped(a, w))
<1> DEFINE b == Flipped(a, w)
<1>1. b \in [1 .. w -> Byte] /\ \A k, m \in 1 .. w : a[m] >= a[k] <=> b[m] <= b[k]
  BY FlippedBytes
<1>2. /\ DOMAIN a = 1 .. w /\ Len(a) = w
      /\ DOMAIN b = 1 .. w /\ Len(b) = w
  BY DEF Flipped
<1> HIDE DEF b
<1>3. \A k \in 0 .. w - 1 : (\A m \in 1 .. w : a[m] >= a[k + 1]) <=> (\A m \in 1 .. w : b[m] <= b[k + 1])
  BY <1>1
<1>4. {k \in 0 .. w - 1 : \A m \in 1 .. w : a[m] >= a[k + 1]}
        = {k \in 0 .. w - 1 : \A m \in 1 .. w : b[m] <= b[k + 1]}
  BY <1>3
<1>5. FirstMin(a) = Min({k \in 0 .. w - 1 : \A m \in 1 .. w : a[m] >= a[k + 1]})
  BY <1>2 DEF FirstMin, FirstOf
<1>6. FirstMax(b) = Min({k \in 0 .. w - 1 : \A m \in 1 .. w : b[m] <= b[k + 1]})
  BY <1>2 DEF FirstMax, FirstOf
<1> QED
  BY <1>4, <1>5, <1>6, Zenon DEF b

\* The same for the beginnings,
LEMMA FirstMinOfPrefix ==
  ASSUME NEW w \in Nat, NEW a \in [1 .. w -> Byte], NEW n \in 1 .. w
  PROVE  FirstMin(SubSeq(a, 1, n)) = FirstMax(SubSeq(Flipped(a, w), 1, n))
<1> DEFINE s == SubSeq(a, 1, n)
           b == Flipped(a, w)
<1>1. n \in 0 .. w /\ n \in Nat /\ b \in [1 .. w -> Byte] /\ \A k \in 1 .. w : b[k] = 255 - a[k]
  BY FlippedBytes DEF Flipped
<1>2. s \in [1 .. n -> Byte] /\ \A k \in 1 .. n : s[k] = a[k]
  <2> HIDE DEF s
  <2> QED
    BY <1>1, FirstBits DEF s
<1>3. SubSeq(b, 1, n) \in [1 .. n -> Byte] /\ \A k \in 1 .. n : SubSeq(b, 1, n)[k] = b[k]
  <2> HIDE DEF b
  <2> QED
    BY <1>1, FirstBits
<1> HIDE DEF s, b
<1>4. Flipped(s, n) \in [1 .. n -> Byte] /\ \A k \in 1 .. n : Flipped(s, n)[k] = 255 - s[k]
  BY <1>1, <1>2, FlippedBytes DEF Flipped
<1>5. \A k \in 1 .. n : Flipped(s, n)[k] = SubSeq(b, 1, n)[k]
  BY <1>1, <1>2, <1>3, <1>4
<1>6. Flipped(s, n) = SubSeq(b, 1, n)
  BY <1>1, <1>3, <1>4, <1>5, SameBits
<1> QED
  BY <1>1, <1>2, <1>6, FirstMinAsMax, Zenon DEF s, b

\* and so a smaller value is the new one.
LEMMA FirstMinOfOne ==
  ASSUME NEW w \in Nat, w > 0, NEW a \in [1 .. w -> Byte]
  PROVE  FirstMin(SubSeq(a, 1, 1)) = 0
<1>1. 1 \in 1 .. w /\ Flipped(a, w) \in [1 .. w -> Byte]
  BY FlippedBytes
<1> QED
  BY <1>1, FirstMinOfPrefix, FirstMaxOfOne

LEMMA FirstMinOfMore ==
  ASSUME NEW w \in Nat, NEW a \in [1 .. w -> Byte], NEW n \in 1 .. w - 1,
         NEW p, p = FirstMin(SubSeq(a, 1, n))
  PROVE  /\ p \in 0 .. n - 1
         /\ a[n + 1] < a[p + 1] => FirstMin(SubSeq(a, 1, n + 1)) = n
         /\ ~(a[n + 1] < a[p + 1]) => FirstMin(SubSeq(a, 1, n + 1)) = p
<1> DEFINE b == Flipped(a, w)
<1>1. b \in [1 .. w -> Byte] /\ \A k, m \in 1 .. w : a[m] < a[k] <=> b[m] > b[k]
  BY FlippedBytes
<1>2. /\ n \in 1 .. w /\ n + 1 \in 1 .. w
      /\ p = FirstMax(SubSeq(b, 1, n))
      /\ FirstMin(SubSeq(a, 1, n + 1)) = FirstMax(SubSeq(b, 1, n + 1))
  <2>1. n \in 1 .. w /\ n + 1 \in 1 .. w
    OBVIOUS
  <2> QED
    BY <2>1, FirstMinOfPrefix
<1> HIDE DEF b
<1>3. /\ p \in 0 .. n - 1
      /\ b[n + 1] > b[p + 1] => FirstMax(SubSeq(b, 1, n + 1)) = n
      /\ ~(b[n + 1] > b[p + 1]) => FirstMax(SubSeq(b, 1, n + 1)) = p
  BY <1>1, <1>2, FirstMaxOfMore, Zenon
<1>4. p + 1 \in 1 .. w
  BY <1>3
<1>5. a[n + 1] < a[p + 1] <=> b[n + 1] > b[p + 1]
  BY <1>1, <1>2, <1>4
<1> QED
  BY <1>2, <1>3, <1>5, Zenon

LEMMA FirstMinOfAll ==
  ASSUME NEW w \in Nat, w > 0, NEW a \in [1 .. w -> Byte]
  PROVE  FirstMin(SubSeq(a, 1, w)) = FirstMin(a) /\ FirstMin(a) \in 0 .. w - 1
<1>1. w \in 1 .. w /\ Flipped(a, w) \in [1 .. w -> Byte]
  BY FlippedBytes
<1> QED
  BY <1>1, FirstMinOfPrefix, FirstMinAsMax, FirstMaxOfAll

-----------------------------------------------------------------------------
\* argmax_argmin_4x8: the greatest and the least byte so far.
ArgmaxArgminInv ==
  /\ x \in [1 .. 4 -> Byte] /\ locals \in [i : 1 .. 4, max_idx : 0 .. 3, min_idx : 0 .. 3]
  /\ locals.max_idx = FirstMax(SubSeq(x, 1, i)) /\ locals.min_idx = FirstMin(SubSeq(x, 1, i))
ArgmaxArgminAnswer == result = 4 * FirstMax(x) + FirstMin(x) /\ result \in 0 .. 15

LEMMA ArgmaxArgminCase ==
  task = "argmax_argmin_4x8" =>
    /\ Kept <=> Running /\ ArgmaxArgminInv
    /\ Answer <=> ArgmaxArgminAnswer
<1>1. ASSUME task = "argmax_argmin_4x8"
      PROVE  Kept <=> Running /\ ArgmaxArgminInv
  BY <1>1 DEF Kept, TypeOK, RandomWords, LocalsOf, LoopInv, TASK_REGISTRY, Running, ArgmaxArgminInv
<1>2. ASSUME task = "argmax_argmin_4x8"
      PROVE  Answer <=> ArgmaxArgminAnswer
  <2>1. TASK_REGISTRY[task].out_bits = 4
    BY <1>2 DEF TASK_REGISTRY, ARGMAX_ARGMIN_4X8
  <2> QED
    BY <1>2, <2>1, PowersOfTwo DEF Answer, Described, Fits, Digits, ArgmaxArgminAnswer
<1> QED
  BY <1>1, <1>2

LEMMA ArgmaxArgminInit ==
  ASSUME task = "argmax_argmin_4x8", x \in RandomWords(task), locals = Locals(task, x)
  PROVE  ArgmaxArgminInv
<1>1. x \in [1 .. 4 -> Byte] /\ locals = [i |-> 1, max_idx |-> 0, min_idx |-> 0]
  BY DEF RandomWords, Locals
<1>2. FirstMax(SubSeq(x, 1, 1)) = 0 /\ FirstMin(SubSeq(x, 1, 1)) = 0
  <2>1. PICK w \in Nat : w = 4
    OBVIOUS
  <2>2. w > 0 /\ x \in [1 .. w -> Byte]
    BY <1>1, <2>1
  <2> QED
    BY <2>2, FirstMaxOfOne, FirstMinOfOne
<1> QED
  BY <1>1, <1>2 DEF ArgmaxArgminInv, i

LEMMA ArgmaxArgminStep ==
  ASSUME ArgmaxArgminInv, ArgmaxArgmin4x8
  PROVE  ArgmaxArgminInv' /\ (pc' = "returned" => ArgmaxArgminAnswer')
<1> USE DEF i
<1> DEFINE max == locals.max_idx  min == locals.min_idx
<1>1. /\ x' = x /\ x \in [1 .. 4 -> Byte] /\ pc = "loop"
      /\ i \in 1 .. 4 /\ max \in 0 .. 3 /\ min \in 0 .. 3
      /\ locals = [i |-> i, max_idx |-> max, min_idx |-> min]
      /\ max = FirstMax(SubSeq(x, 1, i)) /\ min = FirstMin(SubSeq(x, 1, i))
  BY DEF ArgmaxArgminInv, ArgmaxArgmin4x8, Continue, Return, In
<1>2. PICK w \in Nat : w = 4
  OBVIOUS
<1>3. w > 0 /\ x \in [1 .. w -> Byte]
  BY <1>1, <1>2
<1>4. CASE i = 4
  <2>1. locals' = locals /\ result' = 4 * max + min
    BY <1>4 DEF ArgmaxArgmin4x8, Return
  <2>2. max = FirstMax(x) /\ min = FirstMin(x)
    <3>1. FirstMax(SubSeq(x, 1, w)) = FirstMax(x) /\ FirstMin(SubSeq(x, 1, w)) = FirstMin(x)
      BY <1>3, FirstMaxOfAll, FirstMinOfAll
    <3> QED
      BY <3>1, <1>1, <1>2, <1>4
  <2>3. 4 * max + min \in 0 .. 15
    BY <1>1
  <2> QED
    BY <2>1, <2>2, <2>3, <1>1 DEF ArgmaxArgminAnswer, ArgmaxArgminInv
<1>5. CASE i \in 1 .. 3
  <2> DEFINE newMax == IF x[i + 1] > x[max + 1] THEN i ELSE max
             newMin == IF x[i + 1] < x[min + 1] THEN i ELSE min
  <2>1. locals' = [i |-> i + 1, max_idx |-> newMax, min_idx |-> newMin] /\ pc' = pc
    BY <1>5 DEF ArgmaxArgmin4x8, Continue
  <2>2. newMax = FirstMax(SubSeq(x, 1, i + 1)) /\ newMin = FirstMin(SubSeq(x, 1, i + 1))
    <3>1. PICK n \in 1 .. w - 1 : n = i
      BY <1>2, <1>5
    <3>2. PICK p : p = max
      OBVIOUS
    <3>3. PICK q : q = min
      OBVIOUS
    <3>4. p = FirstMax(SubSeq(x, 1, n)) /\ q = FirstMin(SubSeq(x, 1, n))
      BY <1>1, <3>1, <3>2, <3>3
    <3>5. /\ x[n + 1] > x[p + 1] => FirstMax(SubSeq(x, 1, n + 1)) = n
          /\ ~(x[n + 1] > x[p + 1]) => FirstMax(SubSeq(x, 1, n + 1)) = p
      <4> HIDE DEF i, max, min, newMax, newMin
      <4> QED
        BY <1>3, <3>4, FirstMaxOfMore, Zenon
    <3>6. /\ x[n + 1] < x[q + 1] => FirstMin(SubSeq(x, 1, n + 1)) = n
          /\ ~(x[n + 1] < x[q + 1]) => FirstMin(SubSeq(x, 1, n + 1)) = q
      <4>1. PICK y : y = x
        OBVIOUS
      <4>2. q = FirstMin(SubSeq(y, 1, n)) /\ y \in [1 .. w -> Byte]
        BY <1>3, <3>4, <4>1
      <4> HIDE DEF i, max, min, newMax, newMin
      <4>3. /\ y[n + 1] < y[q + 1] => FirstMin(SubSeq(y, 1, n + 1)) = n
            /\ ~(y[n + 1] < y[q + 1]) => FirstMin(SubSeq(y, 1, n + 1)) = q
        BY <4>2, FirstMinOfMore, SMTT(30)
      <4> QED
        BY <4>1, <4>3
    <3> QED
      BY <3>1, <3>2, <3>3, <3>5, <3>6
  <2>3. newMax \in 0 .. 3 /\ newMin \in 0 .. 3 /\ i + 1 \in 1 .. 4
    BY <1>1, <1>5
  <2> HIDE DEF newMax, newMin
  <2> QED
    BY <2>1, <2>2, <2>3, <1>1 DEF ArgmaxArgminInv
<1> QED
  BY <1>1, <1>4, <1>5

-----------------------------------------------------------------------------
\* stream_packet_fsm: the machine is in the packet that its bytes belong to.
StreamInv ==
  /\ x \in [1 .. 8 -> Byte]
  /\ locals \in [i : 0 .. 8, state : {"WAIT_START", "WAIT_LEN", "PAYLOAD"},
                 length : Byte, out : Seq(Byte)]
  /\ PacketInv
StreamAnswer ==
  /\ result = PayloadBytes(8)
  /\ Len(result) * 8 = 64 /\ \A k \in DOMAIN result : result[k] \in 0 .. 2 ^ 8 - 1

LEMMA StreamCase ==
  task = "stream_packet_fsm" =>
    /\ Kept <=> Running /\ StreamInv
    /\ Answer <=> StreamAnswer
<1>1. ASSUME task = "stream_packet_fsm"
      PROVE  Kept <=> Running /\ StreamInv
  BY <1>1 DEF Kept, TypeOK, RandomWords, LocalsOf, LoopInv, TASK_REGISTRY, Running, StreamInv
<1>2. ASSUME task = "stream_packet_fsm"
      PROVE  Answer <=> StreamAnswer
  <2>1. TASK_REGISTRY[task].out_bits = 64
    BY <1>2 DEF TASK_REGISTRY, STREAM_PACKET_FSM
  <2> QED
    BY <1>2, <2>1, PowersOfTwo DEF Answer, Described, Fits, Digits, StreamAnswer
<1> QED
  BY <1>1, <1>2

-----------------------------------------------------------------------------
\* The packets follow one another.
Follows170(w, S, p) == w[p + 1] = 170 /\ \A q \in S : q < p => p > q + 1 + w[q + 2]

LEMMA PacketsExist ==
  ASSUME NEW w
  PROVE  \E S \in SUBSET (0 .. 7) : \A p \in 0 .. 7 : p \in S <=> Follows170(w, S, p)
<1> DEFINE Upto(n, S) == S \subseteq 0 .. n - 1 /\ \A p \in 0 .. n - 1 : p \in S <=> Follows170(w, S, p)
           Ns == {n \in Nat : \E S : Upto(n, S)}
<1>1. 0 \in Ns
  <2>1. Upto(0, {})
    OBVIOUS
  <2> HIDE DEF Upto
  <2> QED
    BY <2>1
<1>2. ASSUME NEW n \in Nat, n \in Ns
      PROVE  n + 1 \in Ns
  <2>1. PICK S : Upto(n, S)
    BY <1>2, Zenon
  <2> DEFINE T == IF Follows170(w, S, n) THEN S \cup {n} ELSE S
  <2>2. T \subseteq 0 .. n
    BY <2>1
  <2>3. \A p \in 0 .. n : \A q : q < p => (q \in T <=> q \in S)
    OBVIOUS
  <2>4. \A p \in 0 .. n : Follows170(w, T, p) <=> Follows170(w, S, p)
    <3> HIDE DEF T
    <3> QED
      BY <2>3 DEF Follows170
  <2>5. ASSUME NEW p \in 0 .. n
        PROVE  p \in T <=> Follows170(w, S, p)
    <3>1. CASE p = n
      <4>1. n \notin S
        BY <2>1
      <4> QED
        BY <3>1, <4>1
    <3>2. CASE p \in 0 .. n - 1
      <4>1. p \in T <=> p \in S
        BY <3>2
      <4> QED
        BY <2>1, <3>2, <4>1
    <3> QED
      BY <3>1, <3>2
  <2>6. (n + 1) - 1 = n
    OBVIOUS
  <2> HIDE DEF T
  <2>7. Upto(n + 1, T)
    BY <2>2, <2>4, <2>5, <2>6
  <2> HIDE DEF Upto
  <2> QED
    BY <2>7
<1> HIDE DEF Ns, Upto
<1>3. 8 \in Ns
  BY <1>1, <1>2, Induction
<1> QED
  BY <1>3 DEF Ns, Upto

LEMMA StartsAre ==
  /\ Starts \subseteq 0 .. 7
  /\ \A p \in 0 .. 7 :
       p \in Starts <=> x[p + 1] = 170 /\ \A q \in Starts : q < p => p > EndOfPacket(q)
<1> DEFINE Step(f) == [p \in 0 .. 7 |-> x[p + 1] = 170 /\ \A q \in 0 .. p - 1 : f[q] => p > EndOfPacket(q)]
           IsStart == CHOOSE f : f = Step(f)
<1>1. \E f : f = Step(f)
  <2>1. PICK S \in SUBSET (0 .. 7) : \A p \in 0 .. 7 : p \in S <=> Follows170(x, S, p)
    BY PacketsExist
  <2> DEFINE f == [p \in 0 .. 7 |-> p \in S]
  <2>2. ASSUME NEW p \in 0 .. 7
        PROVE  f[p] = Step(f)[p]
    <3>1. Follows170(x, S, p) <=> x[p + 1] = 170 /\ \A q \in 0 .. p - 1 : f[q] => p > EndOfPacket(q)
      <4>1. \A q : (q \in S /\ q < p) <=> (q \in 0 .. p - 1 /\ f[q])
        <5>1. \A q \in S : q \in 0 .. 7
          BY <2>1
        <5>2. \A q \in 0 .. 7 : f[q] <=> q \in S
          BY Zenon
        <5>3. \A q \in 0 .. p - 1 : q \in 0 .. 7 /\ q < p
          OBVIOUS
        <5>4. \A q \in 0 .. 7 : q < p => q \in 0 .. p - 1
          OBVIOUS
        <5> HIDE DEF f
        <5> QED
          BY <5>1, <5>2, <5>3, <5>4, Zenon
      <4> HIDE DEF f
      <4> QED
        BY <4>1 DEF Follows170, EndOfPacket
    <3> QED
      BY <2>1, <3>1
  <2>3. f = Step(f)
    <3>1. f = [p \in 0 .. 7 |-> f[p]]
      OBVIOUS
    <3>2. Step(f) = [p \in 0 .. 7 |-> Step(f)[p]]
      OBVIOUS
    <3> HIDE DEF f, Step
    <3> QED
      BY <2>2, <3>1, <3>2
  <2> QED
    BY <2>3, Zenon
<1>2. IsStart = Step(IsStart)
  <2> HIDE DEF Step
  <2> QED
    BY <1>1
<1>3. Starts = {p \in 0 .. 7 : IsStart[p]}
  BY Zenon DEF Starts
<1> HIDE DEF IsStart
<1>4. \A p \in 0 .. 7 : IsStart[p] <=> x[p + 1] = 170 /\ \A q \in 0 .. p - 1 : IsStart[q] => p > EndOfPacket(q)
  BY <1>2, Zenon
<1>5. ASSUME NEW p \in 0 .. 7
      PROVE  \A q : (q \in Starts /\ q < p) <=> (q \in 0 .. p - 1 /\ IsStart[q])
  BY <1>3
<1> QED
  BY <1>3, <1>4, <1>5

-----------------------------------------------------------------------------
LEMMA StreamInit ==
  ASSUME task = "stream_packet_fsm", x \in RandomWords(task), locals = Locals(task, x)
  PROVE  StreamInv
<1>1. x \in [1 .. 8 -> Byte] /\ locals = [i |-> 0, state |-> "WAIT_START", length |-> 0, out |-> << >>]
  BY DEF RandomWords, Locals
<1>2. /\ locals.i = 0 /\ locals.state = "WAIT_START" /\ locals.out = << >>
  BY <1>1
<1>3. locals \in [i : 0 .. 8, state : {"WAIT_START", "WAIT_LEN", "PAYLOAD"},
                  length : Byte, out : Seq(Byte)]
  <2>1. << >> \in Seq(Byte)
    BY EmptySeq
  <2>2. PICK empty \in Seq(Byte) : empty = << >>
    BY <2>1, Zenon
  <2>3. locals = [i |-> 0, state |-> "WAIT_START", length |-> 0, out |-> empty]
    BY <1>1, <2>2
  <2>4. 0 \in Byte
    BY DEF Byte
  <2> QED
    BY <2>3, <2>4
<1>4. PayloadBytes(0) = << >>
  BY DEF PayloadBytes
<1>5. \A p \in Starts : ~(p < 0)
  BY StartsAre
<1>6. PacketInv
  BY <1>2, <1>4, <1>5, Zenon DEF PacketInv, i
<1> QED
  BY <1>1, <1>3, <1>6 DEF StreamInv

\* The bytes put out, one more.
LEMMA PayloadBytesNext ==
  ASSUME x \in [1 .. 8 -> Byte], NEW n \in 0 .. 7
  PROVE  /\ PayloadBytes(n) \in Seq(Byte)
         /\ Append(PayloadBytes(n), IF IsPayload(n) THEN x[n + 1] ELSE 0) = PayloadBytes(n + 1)
         /\ PayloadBytes(n + 1) \in Seq(Byte)
<1> DEFINE B(k) == IF IsPayload(k - 1) THEN x[k] ELSE 0
<1>1. \A k \in 1 .. 8 : B(k) \in Byte
  BY DEF Byte
<1>2. \A m : PayloadBytes(m) = [k \in 1 .. m |-> B(k)]
  BY DEF PayloadBytes
<1>3. B(n + 1) = IF IsPayload(n) THEN x[n + 1] ELSE 0
  OBVIOUS
<1> HIDE DEF B
<1>4. PICK m \in Nat : m = n
  OBVIOUS
<1>5. m + 1 \in Nat /\ [k \in 1 .. m |-> B(k)] \in [1 .. m -> Byte]
      /\ [k \in 1 .. m + 1 |-> B(k)] \in [1 .. m + 1 -> Byte]
  BY <1>1, <1>4
<1>6. [k \in 1 .. m |-> B(k)] \in Seq(Byte) /\ [k \in 1 .. m + 1 |-> B(k)] \in Seq(Byte)
  BY <1>5
<1>7. Append([k \in 1 .. m |-> B(k)], B(m + 1)) = [k \in 1 .. m + 1 |-> B(k)]
  <2> DEFINE s == [k \in 1 .. m |-> B(k)]
  <2>1. Len(s) = m
    OBVIOUS
  <2>2. B(m + 1) \in Byte
    BY <1>1, <1>4
  <2>3. Append(s, B(m + 1)) = [k \in 1 .. m + 1 |-> IF k = m + 1 THEN B(m + 1) ELSE s[k]]
    BY <1>6, <2>1, <2>2
  <2>4. \A k \in 1 .. m + 1 : k # m + 1 => k \in 1 .. m
    OBVIOUS
  <2> QED
    BY <2>3, <2>4
<1> QED
  BY <1>2, <1>3, <1>4, <1>6, <1>7, Zenon

\* What is known of the packets of a word stays with it.
LEMMA StreamSame ==
  ASSUME x' = x
  PROVE  /\ Starts' = Starts
         /\ \A p : EndOfPacket(p)' = EndOfPacket(p)
         /\ \A n : PayloadBytes(n)' = PayloadBytes(n)
<1> DEFINE StartsOf(w) ==
             LET IsStart[p \in 0 .. 7] ==
                   /\ w[p + 1] = 170
                   /\ \A q \in 0 .. p - 1 : IsStart[q] => p > q + 1 + w[q + 2]
             IN  {p \in 0 .. 7 : IsStart[p]}
           BytesOf(w, S, n) ==
             [k \in 1 .. n |-> IF \E p \in S : p + 2 <= k - 1 /\ k - 1 <= p + 1 + w[p + 2] THEN w[k] ELSE 0]
<1>1. Starts = StartsOf(x) /\ Starts' = StartsOf(x')
  BY DEF Starts, EndOfPacket
<1>2. \A n : /\ PayloadBytes(n) = BytesOf(x, Starts, n)
             /\ PayloadBytes(n)' = BytesOf(x', Starts', n)
  BY DEF PayloadBytes, IsPayload, EndOfPacket
<1>3. \A p : EndOfPacket(p)' = EndOfPacket(p)
  BY DEF EndOfPacket
<1> HIDE DEF StartsOf, BytesOf
<1> QED
  BY <1>1, <1>2, <1>3

LEMMA StreamStep ==
  ASSUME StreamInv, StreamPacketFsm
  PROVE  StreamInv' /\ (pc' = "returned" => StreamAnswer')
<1> USE DEF i
<1> DEFINE state == locals.state  length == locals.length  out == locals.out  b == x[i + 1]
           E(p) == EndOfPacket(p)
<1>1. /\ x' = x /\ x \in [1 .. 8 -> Byte] /\ pc = "loop"
      /\ i \in 0 .. 8 /\ state \in {"WAIT_START", "WAIT_LEN", "PAYLOAD"}
      /\ length \in Byte /\ length \in Int /\ length <= 255 /\ out \in Seq(Byte)
      /\ locals = [i |-> i, state |-> state, length |-> length, out |-> out]
  BY ByteIsInt, ZenonT(60) DEF StreamInv, StreamPacketFsm, Takes, Continue, Return, In
<1>2. /\ state = "WAIT_START" => \A p \in Starts : p < i => E(p) < i
      /\ state = "WAIT_LEN" => i - 1 \in Starts
      /\ state = "PAYLOAD" => /\ length > 0
                              /\ \E p \in Starts : p + 2 <= i /\ E(p) = i + length - 1
      /\ out = PayloadBytes(i)
  BY <1>1, Zenon DEF StreamInv, PacketInv
<1>3. /\ Starts' = Starts
      /\ \A p : EndOfPacket(p)' = E(p)
      /\ \A n : PayloadBytes(n)' = PayloadBytes(n)
  BY <1>1, StreamSame
<1>4. /\ \A p \in Starts : p \in 0 .. 7 /\ p \in Int
      /\ \A p \in Starts : p < 7 => E(p) \in Int /\ E(p) = p + 1 + x[p + 2]
      /\ \A p \in 0 .. 7 : p \in Starts <=> x[p + 1] = 170 /\ \A q \in Starts : q < p => p > E(q)
  <2>1. \A p \in Starts : p \in 0 .. 7 /\ p \in Int
    BY StartsAre
  <2>2. \A p \in 0 .. 6 : E(p) \in Int /\ E(p) = p + 1 + x[p + 2]
    <3> TAKE p \in 0 .. 6
    <3>1. x[p + 2] \in Int
      BY <1>1, ByteIsInt, SMTT(30)
    <3> QED
      BY <3>1 DEF EndOfPacket
  <2>3. \A p \in 0 .. 7 : p \in Starts <=> x[p + 1] = 170 /\ \A q \in Starts : q < p => p > E(q)
    BY StartsAre
  <2> QED
    BY <2>1, <2>2, <2>3
<1>5. CASE i = 8
  <2>1. locals' = locals /\ result' = out
    BY <1>5 DEF StreamPacketFsm, Return
  <2>2. StreamInv'
    <3>1. PacketInv'
      BY <2>1, <1>1, <1>2, <1>3, Zenon DEF PacketInv
    <3> QED
      BY <3>1, <2>1, <1>1 DEF StreamInv
  <2>3. result' = PayloadBytes(8)' /\ Len(result') * 8 = 64
    <3>1. out = PayloadBytes(8)
      BY <1>2, <1>5
    <3>2. result' = PayloadBytes(8)'
      <4> HIDE DEF out
      <4> QED
        BY <3>1, <2>1, <1>3
    <3>3. Len(PayloadBytes(8)) = 8
      BY DEF PayloadBytes
    <3> HIDE DEF out
    <3>4. result' = PayloadBytes(8)
      BY <3>1, <2>1
    <3>5. Len(result') = 8
      BY <3>3, <3>4
    <3>6. Len(result') * 8 = 64
      <4> HIDE <3>2, <3>4
      <4> QED
        BY <3>5
    <3> QED
      BY <3>2, <3>6
  <2>4. \A k \in DOMAIN result' : result'[k] \in 0 .. 2 ^ 8 - 1
    <3>1. \A k \in DOMAIN out : out[k] \in Byte
      BY <1>1
    <3> QED
      BY <3>1, <2>1, PowersOfTwo DEF Byte
  <2> QED
    BY <2>2, <2>3, <2>4 DEF StreamAnswer
<1>6. CASE i \in 0 .. 7
  <2> DEFINE Next1(s, l, v) == [i |-> i + 1, state |-> s, length |-> l, out |-> Append(out, v)]
  <2>1. b \in Byte /\ b \in Int /\ 0 <= b
    BY <1>1, <1>6, ByteIsInt, SMTT(30)
  <2>2. /\ pc' = pc
        /\ state = "WAIT_START" =>
             locals' = Next1(IF b = 170 THEN "WAIT_LEN" ELSE "WAIT_START", length, 0)
        /\ state = "WAIT_LEN" =>
             locals' = Next1(IF b > 0 THEN "PAYLOAD" ELSE "WAIT_START", b, 0)
        /\ state = "PAYLOAD" =>
             locals' = Next1(IF length = 1 THEN "WAIT_START" ELSE "PAYLOAD", length - 1, b)
    <3>1. CASE state = "WAIT_START"
      BY <1>6, <3>1 DEF StreamPacketFsm, Takes, Continue
    <3>2. CASE state = "WAIT_LEN"
      BY <1>6, <3>2 DEF StreamPacketFsm, Takes, AfterLen, Continue
    <3>3. CASE state = "PAYLOAD"
      BY <1>6, <3>3 DEF StreamPacketFsm, Takes, Continue
    <3> QED
      BY <3>1, <3>2, <3>3, <1>1, Zenon
  <2>3. ASSUME NEW s \in {"WAIT_START", "WAIT_LEN", "PAYLOAD"}, NEW l \in Byte, NEW v,
               locals' = Next1(s, l, v), v = IF IsPayload(i) THEN b ELSE 0,
               s = "WAIT_START" => \A p \in Starts : p < i + 1 => E(p) < i + 1,
               s = "WAIT_LEN" => i \in Starts,
               s = "PAYLOAD" => l > 0 /\ \E p \in Starts : p + 2 <= i + 1 /\ E(p) = i + l
        PROVE  StreamInv'
    <3>1. PayloadBytes(i + 1) = Append(out, v) /\ Append(out, v) \in Seq(Byte)
      BY <2>3, <1>1, <1>2, <1>6, PayloadBytesNext, Zenon
    <3>2. /\ locals'.i = i + 1 /\ locals'.state = s /\ locals'.length = l
          /\ locals'.out = PayloadBytes(i + 1)
      BY <2>3, <3>1
    <3>3. (i + 1) - 1 = i /\ (i + 1) + l - 1 = i + l
      BY <1>6, ByteIsInt
    <3>4. /\ s = "WAIT_START" => \A p \in Starts' : p < locals'.i => EndOfPacket(p)' < locals'.i
          /\ s = "WAIT_LEN" => locals'.i - 1 \in Starts'
          /\ s = "PAYLOAD" =>
               /\ l > 0
               /\ \E p \in Starts' : p + 2 <= locals'.i /\ EndOfPacket(p)' = locals'.i + l - 1
      BY <2>3, <3>2, <3>3, <1>3
    <3>5. PacketInv'
      BY <3>2, <3>4, <1>3, Zenon DEF PacketInv
    <3>6. i + 1 \in 0 .. 8
      BY <1>6
    <3>7. locals' \in [i : 0 .. 8, state : {"WAIT_START", "WAIT_LEN", "PAYLOAD"},
                       length : Byte, out : Seq(Byte)]
      <4>1. PICK more \in Seq(Byte) : more = Append(out, v)
        BY <3>1, Zenon
      <4>2. locals' = [i |-> i + 1, state |-> s, length |-> l, out |-> more]
        BY <2>3, <4>1
      <4> QED
        BY <3>6, <4>2
    <3> QED
      BY <3>5, <3>7, <1>1 DEF StreamInv
  <2> HIDE DEF Next1, E, out
  <2>4. CASE state = "WAIT_START"
    <3>1. \A p \in Starts : p < i => E(p) < i
      BY <2>4, <1>2
    <3>2. ~IsPayload(i)
      <4> SUFFICES ASSUME NEW p \in Starts, p + 2 <= i, i <= EndOfPacket(p)
                   PROVE  FALSE
        BY DEF IsPayload
      <4>1. p < i /\ p < 7
        BY <1>4, <1>6
      <4>2. E(p) < i /\ E(p) \in Int /\ E(p) = EndOfPacket(p)
        BY <4>1, <3>1, <1>4 DEF E
      <4> QED
        BY <4>2, <1>6
    <3>3. i \in Starts <=> b = 170
      BY <3>1, <1>4, <1>6
    <3>4. ASSUME b # 170
          PROVE  \A p \in Starts : p < i + 1 => E(p) < i + 1
      <4> TAKE p \in Starts
      <4> HAVE p < i + 1
      <4>1. p < i
        BY <3>3, <3>4, <1>4, <1>6
      <4>2. E(p) < i /\ E(p) \in Int
        BY <4>1, <3>1, <1>4, <1>6
      <4> QED
        BY <4>2, <1>6
    <3>5. CASE b = 170
      <4>1. locals' = Next1("WAIT_LEN", length, 0)
        BY <2>2, <2>4, <3>5
      <4> QED
        BY <4>1, <3>2, <3>3, <3>5, <2>2, <2>3, <1>1
    <3>6. CASE b # 170
      <4>1. locals' = Next1("WAIT_START", length, 0)
        BY <2>2, <2>4, <3>6
      <4> QED
        BY <4>1, <3>2, <3>4, <3>6, <2>2, <2>3, <1>1
    <3> QED
      BY <3>5, <3>6
  <2>5. CASE state = "WAIT_LEN"
    <3>1. i - 1 \in Starts /\ i - 1 \in 0 .. 6 /\ E(i - 1) = i + b
      <4>1. i - 1 \in Starts
        BY <2>5, <1>2
      <4>2. i - 1 \in 0 .. 6 /\ i - 1 < 7 /\ (i - 1) + 2 = i + 1 /\ (i - 1) + 1 = i
        BY <4>1, <1>4, <1>6
      <4> QED
        BY <4>1, <4>2, <1>4
    <3>2. \A p \in Starts : p < i - 1 => E(p) < i - 1 /\ E(p) \in Int
      BY <3>1, <1>4, <1>6
    <3>3. ~IsPayload(i)
      <4> SUFFICES ASSUME NEW p \in Starts, p + 2 <= i, i <= EndOfPacket(p)
                   PROVE  FALSE
        BY DEF IsPayload
      <4>1. p < i - 1
        BY <1>4, <1>6
      <4>2. E(p) < i - 1 /\ E(p) \in Int /\ E(p) = EndOfPacket(p)
        BY <4>1, <3>2 DEF E
      <4> QED
        BY <4>2, <1>6
    <3>4. CASE b > 0
      <4>1. locals' = Next1("PAYLOAD", b, 0)
        BY <2>2, <2>5, <3>4
      <4>2. \E p \in Starts : p + 2 <= i + 1 /\ E(p) = i + b
        <5>1. (i - 1) + 2 <= i + 1
          BY <1>6
        <5> QED
          BY <3>1, <5>1
      <4> QED
        BY <4>1, <4>2, <3>3, <3>4, <2>1, <2>2, <2>3, <1>1
    <3>5. CASE b = 0
      <4>1. locals' = Next1("WAIT_START", b, 0)
        BY <2>2, <2>5, <3>5
      <4>2. \A p \in Starts : p < i + 1 => E(p) < i + 1
        <5> TAKE p \in Starts
        <5> HAVE p < i + 1
        <5>1. E(i - 1) = i
          BY <3>1, <3>5, <1>6
        <5>2. i \notin Starts
          <6>1. i - 1 < i /\ ~(i > E(i - 1))
            BY <5>1, <1>6
          <6> QED
            BY <3>1, <6>1, <1>4, <1>6
        <5>3. CASE p = i - 1
          BY <5>1, <5>3, <1>6
        <5>4. CASE p < i - 1
          <6>1. E(p) < i - 1 /\ E(p) \in Int
            BY <5>4, <3>2
          <6> QED
            BY <6>1, <1>6
        <5>5. p = i - 1 \/ p < i - 1
          <6>1. p \in Int /\ p # i
            BY <5>2, <1>4
          <6> QED
            BY <6>1, <1>6
        <5> QED
          BY <5>3, <5>4, <5>5
      <4> QED
        BY <4>1, <4>2, <3>3, <3>5, <2>1, <2>2, <2>3, <1>1
    <3> QED
      BY <3>4, <3>5, <2>1
  <2>6. CASE state = "PAYLOAD"
    <3>1. length > 0
      BY <2>6, <1>2
    <3>2. PICK p0 \in Starts : p0 + 2 <= i /\ E(p0) = i + length - 1
      BY <2>6, <1>2
    <3>3. p0 \in 0 .. 7 /\ p0 < i
      BY <3>2, <1>4, <1>6
    <3>4. IsPayload(i)
      <4>1. i <= E(p0)
        BY <3>1, <3>2, <1>1, <1>6
      <4> QED
        BY <4>1, <3>2 DEF IsPayload, E
    <3>5. CASE length = 1
      <4>1. locals' = Next1("WAIT_START", length - 1, b)
        BY <2>2, <2>6, <3>5
      <4>2. \A p \in Starts : p < i + 1 => E(p) < i + 1
        <5> TAKE p \in Starts
        <5> HAVE p < i + 1
        <5>1. p \in 0 .. 7 /\ p \in Int /\ E(p0) = i
          BY <3>2, <3>5, <1>4, <1>6
        <5>2. CASE p = p0
          BY <5>1, <5>2, <1>6
        <5>3. CASE p < p0
          <6>1. p0 > E(p) /\ E(p) \in Int
            BY <5>1, <5>3, <3>3, <1>4, <1>6
          <6> QED
            BY <6>1, <3>3, <1>6
        <5>4. CASE p0 < p
          <6>1. p > E(p0)
            BY <5>1, <5>4, <1>4
          <6> QED
            BY <6>1, <5>1, <1>6
        <5> QED
          BY <5>1, <5>2, <5>3, <5>4, <3>3
      <4>3. length - 1 \in Byte
        BY <3>5 DEF Byte
      <4> QED
        BY <4>1, <4>2, <4>3, <3>4, <2>2, <2>3, <1>1
    <3>6. CASE length # 1
      <4>1. locals' = Next1("PAYLOAD", length - 1, b)
        BY <2>2, <2>6, <3>6
      <4>2. length - 1 \in Byte /\ length - 1 > 0
        BY <3>1, <3>6, <1>1 DEF Byte
      <4>3. \E p \in Starts : p + 2 <= i + 1 /\ E(p) = i + (length - 1)
        <5>1. p0 + 2 <= i + 1 /\ i + length - 1 = i + (length - 1)
          BY <3>2, <3>3, <1>1, <1>6
        <5> QED
          BY <3>2, <5>1
      <4> QED
        BY <4>1, <4>2, <4>3, <3>4, <2>2, <2>3, <1>1
    <3> QED
      BY <3>5, <3>6
  <2>7. StreamInv'
    BY <2>4, <2>5, <2>6, <1>1
  <2> QED
    BY <2>2, <2>7, <1>1
<1> QED
  BY <1>1, <1>5, <1>6

-----------------------------------------------------------------------------
\* weighted_scheduler: the greatest weight, then who has it first.
WeightedInv ==
  /\ x \in (SUBSET (0 .. 3)) \X [1 .. 4 -> Nibble] \X (0 .. 3)
  /\ locals \in [i : 0 .. 4, max_w : Nibble \cup {-1}, offset : 1 .. 4]
  /\ SchedulerInv
WeightedAnswer ==
  /\ result = IF x[1] = {} THEN 4 ELSE CHOOSE k \in x[1] : \A m \in x[1] \ {k} : Beats(k, m)
  /\ result \in 0 .. 7

LEMMA WeightedCase ==
  task = "weighted_scheduler" =>
    /\ Kept <=> Running /\ WeightedInv
    /\ Answer <=> WeightedAnswer
<1>1. ASSUME task = "weighted_scheduler"
      PROVE  Kept <=> Running /\ WeightedInv
  BY <1>1 DEF Kept, TypeOK, RandomWords, LocalsOf, LoopInv, TASK_REGISTRY, Running, WeightedInv
<1>2. ASSUME task = "weighted_scheduler"
      PROVE  Answer <=> WeightedAnswer
  <2>1. TASK_REGISTRY[task].out_bits = 3
    BY <1>2 DEF TASK_REGISTRY, WEIGHTED_SCHEDULER
  <2> QED
    BY <1>2, <2>1, PowersOfTwo DEF Answer, Described, Fits, Digits, WeightedAnswer
<1> QED
  BY <1>1, <1>2

LEMMA WeightedInit ==
  ASSUME task = "weighted_scheduler", x \in RandomWords(task), locals = Locals(task, x)
  PROVE  WeightedInv
<1>1. /\ x \in (SUBSET (0 .. 3)) \X [1 .. 4 -> Nibble] \X (0 .. 3)
      /\ locals = [i |-> 0, max_w |-> -1, offset |-> 1]
  BY DEF RandomWords, Locals
<1>2. i = 0 /\ locals.max_w = -1 /\ locals.offset = 1
  BY <1>1 DEF i
<1>3. \A k \in x[1] : ~(k < i)
  BY <1>1, <1>2
<1>4. SchedulerInv
  BY <1>2, <1>3 DEF SchedulerInv
<1>5. locals \in [i : 0 .. 4, max_w : Nibble \cup {-1}, offset : 1 .. 4]
  BY <1>1
<1> QED
  BY <1>1, <1>4, <1>5 DEF WeightedInv

\* The second loop comes by everybody, in the order of the distances.
LEMMA Offsets ==
  ASSUME NEW last \in 0 .. 3
  PROVE  /\ \A o \in 1 .. 4 : (last + o) % 4 \in 0 .. 3 /\ (((last + o) % 4) - last + 3) % 4 = o - 1
         /\ \A k \in 0 .. 3 : \E o \in 1 .. 4 : k = (last + o) % 4
<1>1. ASSUME NEW k \in 0 .. 3
      PROVE  \E o \in 1 .. 4 : k = (last + o) % 4
  <2>1. CASE k > last
    <3>1. k - last \in 1 .. 4 /\ k = (last + (k - last)) % 4
      BY <2>1
    <3> QED
      BY <3>1
  <2>2. CASE k <= last
    <3>1. k - last + 4 \in 1 .. 4 /\ k = (last + (k - last + 4)) % 4
      BY <2>2
    <3> QED
      BY <3>1
  <2> QED
    BY <2>1, <2>2
<1> QED
  BY <1>1

LEMMA WeightedStep ==
  ASSUME WeightedInv, WeightedScheduler
  PROVE  WeightedInv' /\ (pc' = "returned" => WeightedAnswer')
<1> USE DEF i
<1> DEFINE req == x[1]  weight(k) == x[2][k + 1]  last == x[3]
           max == locals.max_w  offset == locals.offset  idx == (last + offset) % 4
<1>1. /\ x' = x /\ pc = "loop"
      /\ x \in (SUBSET (0 .. 3)) \X [1 .. 4 -> Nibble] \X (0 .. 3)
      /\ req \subseteq 0 .. 3 /\ last \in 0 .. 3
      /\ i \in 0 .. 4 /\ max \in Nibble \cup {-1} /\ offset \in 1 .. 4
      /\ locals = [i |-> i, max_w |-> max, offset |-> offset]
  BY DEF WeightedInv, WeightedScheduler, Continue, Return, In
<1>2. \A k \in req : k \in 0 .. 3 /\ weight(k) \in Nibble /\ weight(k) \in Int /\ 0 <= weight(k)
  BY <1>1, NibbleIsInt
<1>3. /\ \A k \in req : k < i => weight(k) <= max
      /\ max = -1 \/ \E k \in req : k < i /\ weight(k) = max
      /\ offset > 1 => i = 4
      /\ \A o \in 1 .. offset - 1 : (last + o) % 4 \in req => weight((last + o) % 4) # max
  BY DEF WeightedInv, SchedulerInv
<1>4. max \in Int
  BY <1>1, NibbleIsInt
<1>5. CASE req = {}
  <2>1. locals' = locals /\ result' = 4
    BY <1>5 DEF WeightedScheduler, Return
  <2>2. WeightedInv'
    BY <2>1, <1>1, <1>3 DEF WeightedInv, SchedulerInv
  <2>3. WeightedAnswer'
    BY <2>1, <1>1, <1>5 DEF WeightedAnswer
  <2> QED
    BY <2>2, <2>3
<1>6. CASE req # {} /\ i < 4
  <2> DEFINE new == IF i \in req /\ weight(i) > max THEN weight(i) ELSE max
  <2>1. locals' = [i |-> i + 1, max_w |-> new, offset |-> offset] /\ pc' = pc
    <3>1. locals' = [Next_i EXCEPT !.max_w = IF i \in req /\ x[2][i + 1] > @ THEN x[2][i + 1] ELSE @] /\ pc' = pc
      BY <1>1, <1>6 DEF WeightedScheduler, Continue
    <3>2. Next_i = [i |-> i + 1, max_w |-> max, offset |-> offset]
      BY <1>1 DEF Next_i
    <3> QED
      BY <3>1, <3>2
  <2>2. new \in Nibble \cup {-1}
    BY <1>1, <1>2
  <2>3. offset = 1
    BY <1>1, <1>3, <1>6
  <2>4. \A k \in req : k < i + 1 => weight(k) <= new
    BY <1>1, <1>2, <1>3, <1>4
  <2>5. new = -1 \/ \E k \in req : k < i + 1 /\ weight(k) = new
    BY <1>1, <1>2, <1>3
  <2> HIDE DEF new
  <2>6. locals'.i = i + 1 /\ locals'.max_w = new /\ locals'.offset = 1
    BY <2>1, <2>3
  <2>7. SchedulerInv'
    BY <2>4, <2>5, <2>6, <1>1 DEF SchedulerInv
  <2>8. locals' \in [i : 0 .. 4, max_w : Nibble \cup {-1}, offset : 1 .. 4]
    BY <2>1, <2>2, <1>1, <1>6
  <2> QED
    BY <2>1, <2>7, <2>8, <1>1 DEF WeightedInv
<1>7. ASSUME req # {}, i = 4
      PROVE  /\ \A k \in req : weight(k) <= max
             /\ \E k \in req : weight(k) = max
  <2>1. \A k \in req : weight(k) <= max
    BY <1>2, <1>3, <1>7
  <2>2. PICK k \in req : TRUE
    BY <1>7
  <2>3. max # -1
    BY <2>1, <1>2, <1>7
  <2> QED
    BY <2>1, <2>3, <1>3
<1>8. CASE req # {} /\ i = 4 /\ idx \in req /\ weight(idx) = max
  <2>1. locals' = locals /\ result' = idx
    BY <1>1, <1>8 DEF WeightedScheduler, Return
  <2>2. \A m \in req \ {idx} : Beats(idx, m)
    <3> TAKE m \in req \ {idx}
    <3>1. PICK o \in 1 .. 4 : m = (last + o) % 4
      BY <1>1, <1>2, Offsets
    <3>2. (m - last + 3) % 4 = o - 1 /\ (idx - last + 3) % 4 = offset - 1
      BY <3>1, <1>1, Offsets
    <3>3. weight(m) <= max /\ weight(m) \in Int
      BY <1>2, <1>7, <1>8
    <3>4. CASE weight(m) < max
      BY <3>4, <1>8 DEF Beats
    <3>5. CASE weight(m) = max
      <4>1. ~(o \in 1 .. offset - 1) /\ o # offset
        BY <3>1, <3>5, <1>3
      <4>2. offset - 1 < o - 1
        BY <4>1, <1>1
      <4> QED
        BY <4>2, <3>2, <3>5, <1>8 DEF Beats
    <3> QED
      BY <3>3, <3>4, <3>5, <1>4
  <2>3. \A k \in req : (\A m \in req \ {k} : Beats(k, m)) => k = idx
    <3> SUFFICES ASSUME NEW k \in req, \A m \in req \ {k} : Beats(k, m), k # idx
                 PROVE  FALSE
      OBVIOUS
    <3>1. Beats(k, idx) /\ Beats(idx, k)
      BY <2>2, <1>8
    <3> DEFINE near == (k - last + 3) % 4  far == (idx - last + 3) % 4
    <3>2. near \in Int /\ far \in Int /\ weight(k) \in Int /\ weight(idx) \in Int
      BY <1>1, <1>2, <1>8
    <3>3. /\ weight(k) > weight(idx) \/ (weight(k) = weight(idx) /\ near < far)
          /\ weight(idx) > weight(k) \/ (weight(idx) = weight(k) /\ far < near)
      BY <3>1 DEF Beats
    <3> HIDE DEF near, far
    <3> QED
      BY <3>2, <3>3
  <2>4. \A k, m : Beats(k, m)' = Beats(k, m)
    BY <1>1 DEF Beats
  <2>5. (CHOOSE k \in x'[1] : \A m \in x'[1] \ {k} : Beats(k, m)') = idx
    <3>1. PICK winner \in x'[1] : winner = idx
      BY <1>1, <1>8
    <3>2. \A m \in x'[1] \ {winner} : Beats(winner, m)'
      <4>1. \A m \in x'[1] \ {winner} : Beats(winner, m)
        BY <2>2, <3>1, <1>1
      <4> QED
        BY <4>1, <2>4
    <3>3. \A k \in x'[1] : (\A m \in x'[1] \ {k} : Beats(k, m)') => k = winner
      <4>1. \A k \in x'[1] : (\A m \in x'[1] \ {k} : Beats(k, m)) => k = winner
        BY <2>3, <3>1, <1>1
      <4> QED
        BY <4>1, <2>4
    <3>4. (CHOOSE k \in x'[1] : \A m \in x'[1] \ {k} : Beats(k, m)') = winner
      <4> HIDE DEF idx
      <4> QED
        BY <3>2, <3>3
    <3> QED
      BY <3>1, <3>4
  <2>6. WeightedAnswer'
    <3>1. idx \in 0 .. 7
      BY <1>2, <1>8
    <3> HIDE DEF idx
    <3>2. x'[1] # {}
      BY <1>1, <1>8
    <3> QED
      BY <3>1, <3>2, <2>1, <2>5 DEF WeightedAnswer
  <2>7. WeightedInv'
    BY <2>1, <1>1, <1>3 DEF WeightedInv, SchedulerInv
  <2> QED
    BY <2>6, <2>7
<1>9. CASE req # {} /\ i = 4 /\ ~(idx \in req /\ weight(idx) = max)
  <2>1. locals' = [i |-> i, max_w |-> max, offset |-> offset + 1] /\ pc' = pc
    BY <1>1, <1>9 DEF WeightedScheduler, Continue
  <2>2. \A o \in 1 .. offset : (last + o) % 4 \in req => weight((last + o) % 4) # max
    <3>1. \A o \in 1 .. offset : o \in 1 .. offset - 1 \/ o = offset
      BY <1>1
    <3> QED
      BY <3>1, <1>3, <1>9
  <2>3. offset # 4
    <3> SUFFICES ASSUME offset = 4
                 PROVE  FALSE
      OBVIOUS
    <3>1. PICK k \in req : weight(k) = max
      BY <1>7, <1>9
    <3>2. PICK o \in 1 .. 4 : k = (last + o) % 4
      BY <1>1, <1>2, Offsets
    <3> QED
      BY <3>1, <3>2, <2>2
  <2>4. locals'.i = i /\ locals'.max_w = max /\ locals'.offset = offset + 1
    BY <2>1
  <2>5. SchedulerInv'
    <3>1. 1 .. (offset + 1) - 1 = 1 .. offset
      BY <1>1
    <3> QED
      BY <2>2, <2>4, <3>1, <1>1, <1>3, <1>9 DEF SchedulerInv
  <2>6. locals' \in [i : 0 .. 4, max_w : Nibble \cup {-1}, offset : 1 .. 4]
    BY <2>1, <2>3, <1>1
  <2> QED
    BY <2>1, <2>5, <2>6, <1>1 DEF WeightedInv
<1> QED
  BY <1>1, <1>5, <1>6, <1>8, <1>9

-----------------------------------------------------------------------------
\* sliding_window_max_4: the last four values are kept.
SlidingInv ==
  /\ x \in [1 .. 8 -> Nibble] /\ locals \in [i : 0 .. 8, buffer : Seq(Nibble), out : Seq(Nibble)]
  /\ locals.buffer = SubSeq(x, Max({1, i - 3}), i)
  /\ locals.out = [k \in 1 .. i |-> WindowMax(k)]
SlidingAnswer ==
  /\ result = [k \in 1 .. 8 |-> WindowMax(k)]
  /\ Len(result) * 4 = 32 /\ \A k \in DOMAIN result : result[k] \in 0 .. 2 ^ 4 - 1

LEMMA SlidingCase ==
  task = "sliding_window_max_4" =>
    /\ Kept <=> Running /\ SlidingInv
    /\ Answer <=> SlidingAnswer
<1>1. ASSUME task = "sliding_window_max_4"
      PROVE  Kept <=> Running /\ SlidingInv
  BY <1>1, Zenon DEF Kept, TypeOK, RandomWords, LocalsOf, LoopInv, TASK_REGISTRY, Running, SlidingInv
<1>2. ASSUME task = "sliding_window_max_4"
      PROVE  Answer <=> SlidingAnswer
  <2>1. TASK_REGISTRY[task].out_bits = 32
    BY <1>2 DEF TASK_REGISTRY, SLIDING_WINDOW_MAX_4
  <2> QED
    BY <1>2, <2>1, PowersOfTwo DEF Answer, Described, Fits, Digits, SlidingAnswer
<1> QED
  BY <1>1, <1>2

LEMMA SlidingInit ==
  ASSUME task = "sliding_window_max_4", x \in RandomWords(task), locals = Locals(task, x)
  PROVE  SlidingInv
<1>1. x \in [1 .. 8 -> Nibble] /\ locals = [i |-> 0, buffer |-> << >>, out |-> << >>]
  BY DEF RandomWords, Locals
<1>2. Max({1, 0 - 3}) = 1
  BY MaxOfTwo
<1>3. SubSeq(x, 1, 0) = << >> /\ [k \in 1 .. 0 |-> WindowMax(k)] = << >>
  BY <1>1
<1>4. locals.i = 0 /\ locals.buffer = << >> /\ locals.out = << >>
  BY <1>1
<1>5. locals \in [i : 0 .. 8, buffer : Seq(Nibble), out : Seq(Nibble)]
  <2>1. << >> \in Seq(Nibble)
    BY EmptySeq
  <2>2. PICK empty \in Seq(Nibble) : empty = << >>
    BY <2>1, Zenon
  <2>3. locals = [i |-> 0, buffer |-> empty, out |-> empty]
    BY <1>1, <2>2
  <2> QED
    BY <2>3
<1> QED
  BY <1>1, <1>2, <1>3, <1>4, <1>5, Zenon DEF SlidingInv, i

\* The window after one more value.
LEMMA NextWindow ==
  ASSUME NEW s \in Seq(Nibble), NEW n \in 0 .. Len(s) - 1, NEW longer, NEW window
  PROVE  (/\ longer = Append(SubSeq(s, Max({1, n - 3}), n), s[n + 1])
          /\ window = SubSeq(s, Max({1, (n + 1) - 3}), n + 1))
           => window = IF Len(longer) > 4 THEN Tail(longer) ELSE longer
<1>1. SUFFICES ASSUME longer = Append(SubSeq(s, Max({1, n - 3}), n), s[n + 1]),
                      window = SubSeq(s, Max({1, (n + 1) - 3}), n + 1)
               PROVE  window = IF Len(longer) > 4 THEN Tail(longer) ELSE longer
  BY Zenon
<1>2. CASE n <= 3
  <2>1. Max({1, n - 3}) = 1 /\ Max({1, (n + 1) - 3}) = 1
    BY <1>2, MaxOfTwo
  <2>2. Append(SubSeq(s, 1, n), s[n + 1]) = SubSeq(s, 1, n + 1)
    BY SliceAndNext
  <2>3. Len(SubSeq(s, 1, n + 1)) = n + 1
    OBVIOUS
  <2>4. longer = SubSeq(s, 1, n + 1)
    BY <1>1, <2>1, <2>2, Zenon
  <2>5. Len(longer) = n + 1
    BY <2>3, <2>4
  <2>6. ~(Len(longer) > 4)
    BY <1>2, <2>5
  <2>7. window = longer
    BY <1>1, <2>1, <2>4, Zenon
  <2> QED
    BY <2>6, <2>7
<1>3. CASE n > 3
  <2>1. Max({1, n - 3}) = n - 3 /\ Max({1, (n + 1) - 3}) = (n - 3) + 1
    BY <1>3, MaxOfTwo
  <2>2. PICK m \in 1 .. n + 1 : m = n - 3
    BY <1>3
  <2>3. Append(SubSeq(s, m, n), s[n + 1]) = SubSeq(s, m, n + 1)
    BY SliceAndNext
  <2>4. m \in 1 .. Len(s) /\ n + 1 \in m .. Len(s)
    BY <1>3, <2>2
  <2>5. Len(SubSeq(s, m, n + 1)) = n + 1 - m + 1
    BY <2>4
  <2>6. Tail(SubSeq(s, m, n + 1)) = SubSeq(s, m + 1, n + 1)
    BY <2>4, HeadTailOfSubSeq
  <2>7. longer = SubSeq(s, m, n + 1)
    BY <1>1, <2>1, <2>2, <2>3, Zenon
  <2>8. Len(longer) = n + 1 - m + 1
    BY <2>5, <2>7
  <2>9. Len(longer) > 4
    BY <1>3, <2>2, <2>8
  <2>10. Tail(longer) = SubSeq(s, m + 1, n + 1) /\ m + 1 = Max({1, (n + 1) - 3})
    BY <2>1, <2>2, <2>6, <2>7
  <2>11. window = Tail(longer)
    BY <1>1, <2>10, Zenon
  <2> QED
    BY <2>9, <2>11
<1> QED
  BY <1>2, <1>3

\* The window ends with the value it is the maximum of.
LEMMA WindowValues ==
  ASSUME x \in [1 .. 8 -> Nibble], NEW k \in 1 .. 8
  PROVE  /\ WindowMax(k) = Max(ToSet(SubSeq(x, Max({1, k - 3}), k)))
         /\ WindowMax(k) \in Nibble
<1>1. PICK m \in 1 .. k : m = Max({1, k - 3})
  <2>1. Max({1, k - 3}) = IF k - 3 <= 1 THEN 1 ELSE k - 3
    BY MaxOfTwo
  <2> QED
    BY <2>1
<1>2. ToSet(SubSeq(x, m, k)) = {x[j] : j \in m .. k}
  <2>1. x \in Seq(Nibble) /\ Len(x) = 8
    BY EightNibbles
  <2>2. PICK y \in Seq(Nibble) : y = x
    BY <2>1
  <2>3. Len(y) = 8
    BY <2>1, <2>2
  <2>4. m \in 1 .. Len(y) + 1 /\ k \in m - 1 .. Len(y)
    BY <2>3
  <2>5. ASSUME NEW v
        PROVE  v \in ToSet(SubSeq(y, m, k)) <=> \E j \in m .. k : v = y[j]
    BY <2>4, SliceValues
  <2> QED
    BY <2>2, <2>5
<1>3. WindowMax(k) = Max({x[j] : j \in m .. k})
  BY <1>1 DEF WindowMax
<1>4. Max({x[j] : j \in m .. k}) \in Nibble
  <2> DEFINE vals == {x[j] : j \in m .. k}
  <2>1. \A v \in vals : v \in Nibble
    OBVIOUS
  <2>2. x[k] \in vals
    OBVIOUS
  <2>3. PICK top \in Nat : top = 15
    OBVIOUS
  <2> HIDE DEF vals
  <2>4. vals \subseteq 0 .. top /\ vals # {}
    BY <2>1, <2>2, <2>3, NibbleIsInt
  <2>5. Max(vals) \in vals
    BY <2>4, Greatest, Zenon
  <2> QED
    BY <2>1, <2>5 DEF vals
<1> QED
  BY <1>1, <1>2, <1>3, <1>4, Zenon

LEMMA SlidingStep ==
  ASSUME SlidingInv, SlidingWindowMax4
  PROVE  SlidingInv' /\ (pc' = "returned" => SlidingAnswer')
<1> USE DEF i
<1> DEFINE buffer == locals.buffer  out == locals.out
<1>1. /\ x' = x /\ x \in [1 .. 8 -> Nibble] /\ pc = "loop"
      /\ i \in 0 .. 8 /\ buffer \in Seq(Nibble) /\ out \in Seq(Nibble)
      /\ locals = [i |-> i, buffer |-> buffer, out |-> out]
  BY Zenon DEF SlidingInv, SlidingWindowMax4, Continue, Return, In
<1>2. buffer = SubSeq(x, Max({1, i - 3}), i) /\ out = [k \in 1 .. i |-> WindowMax(k)]
  BY DEF SlidingInv
<1>3. \A k : WindowMax(k)' = WindowMax(k)
  BY <1>1 DEF WindowMax
<1>4. CASE i = 8
  <2>1. locals' = locals /\ result' = Nibbles(out)
    BY <1>4 DEF SlidingWindowMax4, Return
  <2>2. result' = out /\ \A k \in DOMAIN out : out[k] \in 0 .. 2 ^ 4 - 1
    BY <2>1, <1>1, NibblesKept, NibblesFit
  <2>3. Len(out) * 4 = 32
    BY <1>2, <1>4
  <2>4. SlidingAnswer'
    <3>1. result' = [k \in 1 .. 8 |-> WindowMax(k)]
      BY <2>2, <1>2, <1>4
    <3>2. result' = [k \in 1 .. 8 |-> WindowMax(k)']
      BY <3>1, <1>3
    <3> QED
      BY <2>2, <2>3, <3>2 DEF SlidingAnswer
  <2>5. SlidingInv'
    BY <2>1, <1>1, <1>2, <1>3, Zenon DEF SlidingInv
  <2> QED
    BY <2>4, <2>5
<1>5. CASE i \in 0 .. 7
  <2> DEFINE next == SubSeq(x, Max({1, (i + 1) - 3}), i + 1)
  <2>1. /\ locals' = [i |-> i + 1, buffer |-> next, out |-> Append(out, Max(ToSet(next)))]
        /\ pc' = pc
    <3>1. PICK longer : longer = Append(buffer, x[i + 1])
      BY Zenon
    <3>2. PICK newBuffer : newBuffer = IF Len(longer) > 4 THEN Tail(longer) ELSE longer
      BY Zenon
    <3>3. newBuffer = next
      <4>1. x \in Seq(Nibble) /\ Len(x) = 8
        BY <1>1, EightNibbles
      <4>2. PICK y \in Seq(Nibble) : y = x
        BY <4>1
      <4>3. Len(y) = 8
        BY <4>1, <4>2
      <4>4. PICK n \in 0 .. 7 : n = i
        BY <1>5
      <4>5. n \in 0 .. Len(y) - 1
        BY <4>3
      <4>6. PICK window : window = next
        BY Zenon
      <4>7. /\ longer = Append(SubSeq(y, Max({1, n - 3}), n), y[n + 1])
            /\ window = SubSeq(y, Max({1, (n + 1) - 3}), n + 1)
        BY <1>2, <3>1, <4>2, <4>4, <4>6
      <4> HIDE DEF buffer, out, next, i
      <4>8. window = IF Len(longer) > 4 THEN Tail(longer) ELSE longer
        <5>1. \A l, w :
                (/\ l = Append(SubSeq(y, Max({1, n - 3}), n), y[n + 1])
                 /\ w = SubSeq(y, Max({1, (n + 1) - 3}), n + 1))
                  => w = IF Len(l) > 4 THEN Tail(l) ELSE l
          BY <4>5, NextWindow, Zenon
        <5> QED
          BY <4>7, <5>1, Zenon
      <4> QED
        BY <3>2, <4>6, <4>8
    <3>4. locals' = [i |-> i + 1, buffer |-> newBuffer, out |-> Append(out, Max(ToSet(newBuffer)))] /\ pc' = pc
      BY <1>5, <3>1, <3>2 DEF SlidingWindowMax4, Continue
    <3> QED
      BY <3>3, <3>4
  <2>2. Max(ToSet(next)) = WindowMax(i + 1) /\ WindowMax(i + 1) \in Nibble
    <3>1. i + 1 \in 1 .. 8
      BY <1>5
    <3> QED
      BY <3>1, <1>1, WindowValues, Zenon
  <2>3. Append(out, WindowMax(i + 1)) = [k \in 1 .. i + 1 |-> WindowMax(k)]
    <3>1. Len(out) = i
      BY <1>2, <1>5
    <3>2. Append(out, WindowMax(i + 1))
            = [k \in 1 .. i + 1 |-> IF k = i + 1 THEN WindowMax(i + 1) ELSE out[k]]
      BY <2>2, <1>1, <3>1
    <3>3. \A k \in 1 .. i + 1 : k # i + 1 => k \in 1 .. i
      BY <1>5
    <3> QED
      BY <3>2, <3>3, <1>2, Zenon
  <2>4. Append(out, WindowMax(i + 1)) \in Seq(Nibble)
    BY <2>2, <1>1
  <2>5. next \in Seq(Nibble)
    <3>1. Max({1, (i + 1) - 3}) = IF (i + 1) - 3 <= 1 THEN 1 ELSE (i + 1) - 3
      BY <1>5, MaxOfTwo
    <3>2. PICK m \in 1 .. i + 1 : m = Max({1, (i + 1) - 3})
      BY <3>1, <1>5
    <3>3. SubSeq(x, m, i + 1) \in Seq(Nibble)
      <4>1. \A k \in m .. i + 1 : x[k] \in Nibble
        BY <1>1, <1>5
      <4>2. PICK n \in Int : n = i + 1
        BY <1>5
      <4> QED
        BY <4>1, <4>2, SubSeqProperties
    <3> QED
      BY <3>2, <3>3
  <2> HIDE DEF next, out, buffer
  <2>6. locals' = [i |-> i + 1, buffer |-> next, out |-> Append(out, WindowMax(i + 1))]
    BY <2>1, <2>2
  <2>7. i + 1 \in 0 .. 8
    BY <1>5
  <2>8. locals' \in [i : 0 .. 8, buffer : Seq(Nibble), out : Seq(Nibble)]
    BY <2>4, <2>5, <2>6, <2>7
  <2>9. locals'.i = i + 1 /\ locals'.buffer = next /\ locals'.out = [k \in 1 .. i + 1 |-> WindowMax(k)]
    BY <2>3, <2>6
  <2> QED
    BY <2>1, <2>8, <2>9, <1>1, <1>3, Zenon DEF SlidingInv, next
<1> QED
  BY <1>1, <1>4, <1>5

-----------------------------------------------------------------------------
\* lru_cache_4: the cache is what a list of all accesses says it is.
LruInv ==
  /\ x \in [1 .. 4 -> Nibble] /\ locals \in [i : 0 .. 4, cache : Seq(Nibble), hits : Seq({0, 1})]
  /\ CacheInv
LruAnswer ==
  /\ result = [k \in 1 .. 4 |-> BoolToInt(Hit(k - 1))]
  /\ Len(result) * 1 = 4 /\ \A k \in DOMAIN result : result[k] \in 0 .. 2 ^ 1 - 1

LEMMA LruCase ==
  task = "lru_cache_4" =>
    /\ Kept <=> Running /\ LruInv
    /\ Answer <=> LruAnswer
<1>1. ASSUME task = "lru_cache_4"
      PROVE  Kept <=> Running /\ LruInv
  BY <1>1 DEF Kept, TypeOK, RandomWords, LocalsOf, LoopInv, TASK_REGISTRY, Running, LruInv
<1>2. ASSUME task = "lru_cache_4"
      PROVE  Answer <=> LruAnswer
  <2>1. TASK_REGISTRY[task].out_bits = 4
    BY <1>2 DEF TASK_REGISTRY, LRU_CACHE_4
  <2> QED
    BY <1>2, <2>1, PowersOfTwo DEF Answer, Described, Fits, Digits, LruAnswer
<1> QED
  BY <1>1, <1>2

\* The last use of a key among the accesses, and the keys used after it.
LastUseIn(past, k) == Max({m \in DOMAIN past : past[m] = k})
UsedAfter(past, k) == {past[m] : m \in LastUseIn(past, k) + 1 .. Len(past)}

IsCache(cache, past) ==
  /\ Len(cache) = 4 /\ ToSet(cache) \subseteq ToSet(past)
  /\ \A k, m \in 1 .. 4 : k < m => LastUseIn(past, cache[k]) > LastUseIn(past, cache[m])
  /\ \A key \in ToSet(past) \ ToSet(cache) : LastUseIn(past, key) < LastUseIn(past, cache[4])

LEMMA Members ==
  ASSUME NEW B, NEW s \in Seq(B)
  PROVE  /\ \A m \in 1 .. Len(s) : s[m] \in ToSet(s) /\ s[m] \in B
         /\ \A v \in ToSet(s) : v \in B /\ \E m \in 1 .. Len(s) : v = s[m]
<1>1. DOMAIN s = 1 .. Len(s) /\ \A m \in 1 .. Len(s) : s[m] \in B
  OBVIOUS
<1> QED
  BY <1>1 DEF ToSet

LEMMA SliceIs ==
  ASSUME NEW B, NEW s \in Seq(B), NEW m \in 1 .. Len(s) + 1, NEW n \in m - 1 .. Len(s)
  PROVE  /\ SubSeq(s, m, n) \in Seq(B) /\ Len(SubSeq(s, m, n)) = n - m + 1
         /\ \A k \in 1 .. n - m + 1 : SubSeq(s, m, n)[k] = s[m + k - 1]
<1>1. Len(s) \in Nat /\ m \in Int /\ n \in Int
  OBVIOUS
<1>2. \A k \in m .. n : s[k] \in B
  BY <1>1, ElementOfSeq
<1>3. /\ SubSeq(s, m, n) \in Seq(B) /\ Len(SubSeq(s, m, n)) = IF m <= n THEN n - m + 1 ELSE 0
      /\ \A k \in 1 .. n - m + 1 : SubSeq(s, m, n)[k] = s[m + k - 1]
  BY <1>1, <1>2, SubSeqProperties
<1> QED
  BY <1>1, <1>3

LEMMA LastUseIs ==
  ASSUME NEW past \in Seq(Nibble), NEW k \in ToSet(past)
  PROVE  /\ LastUseIn(past, k) \in 1 .. Len(past) /\ past[LastUseIn(past, k)] = k
         /\ \A m \in 1 .. Len(past) : LastUseIn(past, k) < m => past[m] # k
<1> DEFINE uses == {m \in DOMAIN past : past[m] = k}
<1>1. Len(past) \in Nat /\ uses \subseteq 0 .. Len(past) /\ uses # {} /\ uses \subseteq 1 .. Len(past)
  BY DEF ToSet
<1>2. PICK last : last = LastUseIn(past, k)
  OBVIOUS
<1>3. last \in uses /\ \A m \in uses : m <= last
  <2>1. last = Max(uses)
    BY <1>2 DEF LastUseIn
  <2> HIDE DEF uses
  <2> QED
    BY <2>1, <1>1, Greatest, Zenon
<1>4. \A m \in 1 .. Len(past) : last < m => past[m] # k
  BY <1>1, <1>3
<1> QED
  BY <1>1, <1>2, <1>3, <1>4

\* A key accessed has been used last; the last uses of the others stay.
LEMMA LastUseNext ==
  ASSUME NEW past \in Seq(Nibble), NEW k \in Nibble
  PROVE  /\ LastUseIn(Append(past, k), k) = Len(past) + 1
         /\ \A key \in ToSet(past) : key # k => LastUseIn(Append(past, k), key) = LastUseIn(past, key)
<1>1. PICK n \in Nat : n = Len(past)
  OBVIOUS
<1>2. PICK new \in Seq(Nibble) : new = Append(past, k)
  BY AppendProperties, Zenon
<1>3. /\ DOMAIN new = 1 .. n + 1 /\ new[n + 1] = k /\ DOMAIN past = 1 .. n
      /\ \A m \in 1 .. n : new[m] = past[m]
  BY <1>1, <1>2
<1>4. LastUseIn(new, k) = n + 1
  <2> DEFINE uses == {m \in DOMAIN new : new[m] = k}
  <2>1. uses \subseteq Int /\ n + 1 \in uses /\ \A m \in uses : m <= n + 1
    BY <1>3
  <2>2. LastUseIn(new, k) = Max(uses)
    BY DEF LastUseIn
  <2> HIDE DEF uses
  <2> QED
    BY <2>1, <2>2, MaxIs, Zenon
<1>5. ASSUME NEW key \in ToSet(past), key # k
      PROVE  LastUseIn(new, key) = LastUseIn(past, key)
  <2>1. {m \in DOMAIN new : new[m] = key} = {m \in DOMAIN past : past[m] = key}
    BY <1>3, <1>5
  <2> QED
    BY <2>1, Zenon DEF LastUseIn
<1> QED
  BY <1>1, <1>2, <1>4, <1>5

\* An access moves the key to the front: from where it is, or in place of the
\* last one.
MovedToFront(new, cache, k, p) ==
  /\ new \in Seq(Nibble) /\ Len(new) = 4 /\ new[1] = k
  /\ \A j \in 1 .. p - 1 : new[j + 1] = cache[j]
  /\ \A j \in p + 1 .. 4 : new[j] = cache[j]

LEMMA AccessedIs ==
  ASSUME NEW cache \in Seq(Nibble), Len(cache) = 4, NEW k \in Nibble
  PROVE  \E p \in 1 .. 4 : /\ cache[p] = k \/ (p = 4 /\ k \notin ToSet(cache))
                          /\ MovedToFront(Accessed(cache, k), cache, k, p)
<1> DEFINE Moved(p) == <<k>> \o (SubSeq(cache, 1, p - 1) \o SubSeq(cache, p + 1, 4))
<1>1. ASSUME NEW p \in 1 .. 4
      PROVE  MovedToFront(Moved(p), cache, k, p)
  <2>1. PICK one \in Seq(Nibble) : one = <<k>> /\ Len(one) = 1 /\ one[1] = k
    <3>1. \A y \in Nibble : <<y>> \in Seq(Nibble)
      OBVIOUS
    <3> QED
      BY <3>1, Zenon
  <2>2. PICK before \in Seq(Nibble) :
          before = SubSeq(cache, 1, p - 1) /\ Len(before) = p - 1 /\ \A j \in 1 .. p - 1 : before[j] = cache[j]
    <3>1. PICK n \in 1 - 1 .. Len(cache) : n = p - 1
      OBVIOUS
    <3>2. 1 \in 1 .. Len(cache) + 1
      OBVIOUS
    <3>3. PICK t \in Seq(Nibble) :
            t = SubSeq(cache, 1, n) /\ Len(t) = n - 1 + 1 /\ \A j \in 1 .. n - 1 + 1 : t[j] = cache[1 + j - 1]
      <4>1. /\ SubSeq(cache, 1, n) \in Seq(Nibble) /\ Len(SubSeq(cache, 1, n)) = n - 1 + 1
            /\ \A j \in 1 .. n - 1 + 1 : SubSeq(cache, 1, n)[j] = cache[1 + j - 1]
        BY <3>2, SliceIs, ZenonT(60)
      <4> QED
        BY <4>1, Zenon
    <3>4. n - 1 + 1 = p - 1 /\ \A j \in 1 .. p - 1 : 1 + j - 1 = j
      BY <3>1
    <3> QED
      BY <3>1, <3>3, <3>4, SMTT(30)
  <2>3. PICK behind \in Seq(Nibble) :
          behind = SubSeq(cache, p + 1, 4) /\ Len(behind) = 4 - p /\ \A j \in 1 .. 4 - p : behind[j] = cache[p + j]
    <3>1. PICK n \in 1 .. Len(cache) + 1 : n = p + 1
      OBVIOUS
    <3>2. PICK l \in n - 1 .. Len(cache) : l = 4
      BY <3>1
    <3>3. PICK t \in Seq(Nibble) :
            t = SubSeq(cache, n, l) /\ Len(t) = l - n + 1 /\ \A j \in 1 .. l - n + 1 : t[j] = cache[n + j - 1]
      <4>1. /\ SubSeq(cache, n, l) \in Seq(Nibble) /\ Len(SubSeq(cache, n, l)) = l - n + 1
            /\ \A j \in 1 .. l - n + 1 : SubSeq(cache, n, l)[j] = cache[n + j - 1]
        BY SliceIs, Zenon
      <4> QED
        BY <4>1, Zenon
    <3>4. l - n + 1 = 4 - p /\ \A j \in 1 .. 4 - p : n + j - 1 = p + j
      BY <3>1, <3>2
    <3>5. Len(t) = 4 - p /\ \A j \in 1 .. 4 - p : t[j] = cache[n + j - 1]
      BY <3>3, <3>4, Zenon
    <3>6. \A j \in 1 .. 4 - p : t[j] = cache[p + j]
      BY <3>4, <3>5, Zenon
    <3>7. t = SubSeq(cache, p + 1, 4)
      BY <3>1, <3>2, <3>3
    <3> QED
      BY <3>5, <3>6, <3>7, Zenon
  <2>4. PICK rest \in Seq(Nibble) :
          /\ rest = before \o behind /\ Len(rest) = 3
          /\ \A j \in 1 .. p - 1 : rest[j] = cache[j]
          /\ \A j \in p + 1 .. 4 : rest[j - 1] = cache[j]
    <3>1. PICK rest \in Seq(Nibble) :
            /\ rest = before \o behind /\ Len(rest) = Len(before) + Len(behind)
            /\ \A j \in 1 .. Len(before) : rest[j] = before[j]
            /\ \A j \in 1 .. Len(behind) : rest[Len(before) + j] = behind[j]
      <4>1. /\ before \o behind \in Seq(Nibble) /\ Len(before \o behind) = Len(before) + Len(behind)
            /\ \A j \in 1 .. Len(before) : (before \o behind)[j] = before[j]
            /\ \A j \in 1 .. Len(behind) : (before \o behind)[Len(before) + j] = behind[j]
        BY SetOfConcat
      <4> QED
        BY <4>1, Zenon
    <3>2. ASSUME NEW j \in p + 1 .. 4 PROVE rest[j - 1] = cache[j]
      <4>1. j - p \in 1 .. 4 - p /\ (p - 1) + (j - p) = j - 1 /\ p + (j - p) = j
        OBVIOUS
      <4>2. rest[(p - 1) + (j - p)] = behind[j - p]
        BY <4>1, <3>1, <2>2, <2>3, ZenonT(60)
      <4>3. behind[j - p] = cache[p + (j - p)]
        BY <4>1, <2>3, Zenon
      <4> QED
        BY <4>1, <4>2, <4>3
    <3>3. Len(rest) = 3 /\ \A j \in 1 .. p - 1 : rest[j] = cache[j]
      BY <3>1, <2>2, <2>3
    <3> QED
      BY <3>1, <3>2, <3>3, Zenon
  <2>5. /\ one \o rest \in Seq(Nibble) /\ Len(one \o rest) = 4 /\ (one \o rest)[1] = k
        /\ \A j \in 1 .. 3 : (one \o rest)[j + 1] = rest[j]
    <3>1. PICK new \in Seq(Nibble) :
            /\ new = one \o rest /\ Len(new) = Len(one) + Len(rest)
            /\ \A j \in 1 .. Len(one) : new[j] = one[j]
            /\ \A j \in 1 .. Len(rest) : new[Len(one) + j] = rest[j]
      <4>1. /\ one \o rest \in Seq(Nibble) /\ Len(one \o rest) = Len(one) + Len(rest)
            /\ \A j \in 1 .. Len(one) : (one \o rest)[j] = one[j]
            /\ \A j \in 1 .. Len(rest) : (one \o rest)[Len(one) + j] = rest[j]
        BY SetOfConcat
      <4> QED
        BY <4>1, Zenon
    <3> QED
      BY <3>1, <2>1, <2>4, SMTT(30)
  <2>6. Moved(p) = one \o rest
    BY <2>1, <2>2, <2>3, <2>4
  <2> HIDE DEF Moved
  <2> QED
    <3>1. ASSUME NEW j \in p + 1 .. 4 PROVE (one \o rest)[j] = cache[j]
      <4>1. j - 1 \in 1 .. 3 /\ (j - 1) + 1 = j
        OBVIOUS
      <4> QED
        BY <4>1, <2>4, <2>5, Zenon
    <3>2. \A j \in 1 .. p - 1 : (one \o rest)[j + 1] = cache[j]
      <4>1. \A j \in 1 .. p - 1 : j \in 1 .. 3
        OBVIOUS
      <4> QED
        BY <4>1, <2>4, <2>5, Zenon
    <3>3. MovedToFront(one \o rest, cache, k, p)
      BY <2>5, <3>1, <3>2, Zenon DEF MovedToFront
    <3> QED
      BY <2>6, <3>3
<1>2. CASE k \in ToSet(cache)
  <2> DEFINE uses == {m \in 1 .. Len(cache) : cache[m] = k}
  <2>1. uses # {} /\ uses \subseteq Nat /\ \E m \in 1 .. Len(cache) : cache[m] = k
    BY <1>2 DEF ToSet
  <2>2. PICK p : p = Min(uses)
    BY Zenon
  <2>3. p \in uses
    <3> HIDE DEF uses
    <3> QED
      BY <2>1, <2>2, Least, Zenon
  <2>4. SelectInSeq(cache, LAMBDA v : v = k) = p
    BY <2>1, <2>2 DEF SelectInSeq
  <2>5. RemoveFirst(cache, k) = SubSeq(cache, 1, p - 1) \o SubSeq(cache, p + 1, Len(cache))
    BY <2>1, <2>4, Zenon DEF RemoveFirst, RemoveAt
  <2>6. Accessed(cache, k) = Moved(p) /\ p \in 1 .. 4 /\ cache[p] = k
    BY <2>3, <2>5, <1>2 DEF Accessed
  <2> HIDE DEF Moved
  <2> QED
    BY <2>6, <1>1
<1>3. CASE k \notin ToSet(cache)
  <2>1. SubSeq(cache, 1, 3) \o SubSeq(cache, 5, 4) = Front(cache)
    <3>1. PICK f \in Seq(Nibble) : f = SubSeq(cache, 1, 3)
      <4>1. 1 \in 1 .. Len(cache) + 1 /\ 3 \in 1 - 1 .. Len(cache)
        OBVIOUS
      <4>2. SubSeq(cache, 1, 3) \in Seq(Nibble)
        BY <4>1, SliceIs, Zenon
      <4> QED
        BY <4>2, Zenon
    <3>2. SubSeq(cache, 5, 4) = << >>
      BY SubSeqEmpty
    <3>3. Front(cache) = f
      BY <3>1 DEF Front
    <3> QED
      BY <3>1, <3>2, <3>3, ConcatEmptySeq
  <2>2. Accessed(cache, k) = Moved(4)
    <3>1. 4 - 1 = 3 /\ 4 + 1 = 5
      OBVIOUS
    <3> QED
      BY <2>1, <3>1, <1>3, Zenon DEF Accessed
  <2> HIDE DEF Moved
  <2> QED
    BY <2>2, <1>1, <1>3
<1> QED
  BY <1>2, <1>3

\* So the cache keeps to the list of accesses.
LEMMA CacheNext ==
  ASSUME NEW past \in Seq(Nibble), NEW cache \in Seq(Nibble), IsCache(cache, past), NEW k \in Nibble
  PROVE  IsCache(Accessed(cache, k), Append(past, k))
<1>1. PICK new : new = Accessed(cache, k)
  OBVIOUS
<1>2. PICK p \in 1 .. 4 : /\ cache[p] = k \/ (p = 4 /\ k \notin ToSet(cache))
                        /\ MovedToFront(new, cache, k, p)
  BY <1>1, AccessedIs DEF IsCache
<1> USE DEF MovedToFront
<1>3. PICK after \in Seq(Nibble) :
        after = Append(past, k) /\ ToSet(after) = ToSet(past) \cup {k}
  <2>1. Append(past, k) \in Seq(Nibble) /\ ToSet(Append(past, k)) = ToSet(past) \cup {k}
    BY SetOfAppend
  <2> QED
    BY <2>1, Zenon
<1> DEFINE L == [key \in ToSet(past) |-> LastUseIn(past, key)]
           M == [key \in ToSet(after) |-> LastUseIn(after, key)]
<1>4. /\ \A key \in ToSet(past) : L[key] \in 1 .. Len(past)
      /\ M[k] = Len(past) + 1 /\ \A key \in ToSet(past) : key # k => M[key] = L[key]
  BY <1>3, LastUseIs, LastUseNext
<1>5. /\ Len(cache) = 4 /\ \A m \in 1 .. 4 : cache[m] \in ToSet(cache) /\ cache[m] \in ToSet(past)
      /\ \A key \in ToSet(cache) : \E m \in 1 .. 4 : key = cache[m]
      /\ \A m \in 1 .. 4 : new[m] \in ToSet(new)
      /\ \A key \in ToSet(new) : \E m \in 1 .. 4 : key = new[m]
      /\ Len(past) \in Nat
  <2>1. Len(cache) = 4 /\ Len(new) = 4 /\ Len(past) \in Nat /\ new \in Seq(Nibble)
        /\ \A key \in ToSet(cache) : key \in ToSet(past)
    BY <1>2 DEF IsCache
  <2>2. /\ \A m \in 1 .. Len(cache) : cache[m] \in ToSet(cache)
        /\ \A key \in ToSet(cache) : \E m \in 1 .. Len(cache) : key = cache[m]
    BY Members
  <2>3. /\ \A m \in 1 .. Len(new) : new[m] \in ToSet(new)
        /\ \A key \in ToSet(new) : \E m \in 1 .. Len(new) : key = new[m]
    <3>1. PICK s \in Seq(Nibble) : s = new
      BY <2>1
    <3>2. /\ \A m \in 1 .. Len(s) : s[m] \in ToSet(s)
          /\ \A key \in ToSet(s) : \E m \in 1 .. Len(s) : key = s[m]
      BY Members
    <3> QED
      BY <3>1, <3>2
  <2> QED
    BY <2>1, <2>2, <2>3
<1>6. \A j, m \in 1 .. 4 : j < m => L[cache[j]] > L[cache[m]]
  BY <1>5 DEF IsCache
<1>7. \A key \in ToSet(past) \ ToSet(cache) : L[key] < L[cache[4]]
  BY <1>5 DEF IsCache
<1> HIDE DEF L, M
\* Where the keys behind the first one come from.
<1>8. PICK from \in [2 .. 4 -> 1 .. 4] :
        /\ \A j \in 2 .. 4 : new[j] = cache[from[j]] /\ from[j] # p
        /\ from[2] < from[3] /\ from[3] < from[4]
  <2>1. \A j \in 2 .. 4 : j <= p => j - 1 \in 1 .. p - 1 /\ (j - 1) + 1 = j
    OBVIOUS
  <2>2. \A j \in 2 .. 4 : ~ (j <= p) => j \in p + 1 .. 4
    OBVIOUS
  <2>3. PICK from \in [2 .. 4 -> 1 .. 4] : from = [j \in 2 .. 4 |-> IF j <= p THEN j - 1 ELSE j]
    <3>1. \A j \in 2 .. 4 : (IF j <= p THEN j - 1 ELSE j) \in 1 .. 4
      OBVIOUS
    <3>2. [j \in 2 .. 4 |-> IF j <= p THEN j - 1 ELSE j] \in [2 .. 4 -> 1 .. 4]
      BY <3>1
    <3> QED
      BY <3>2, Zenon
  <2>4. \A j \in 2 .. 4 : new[j] = cache[from[j]] /\ from[j] # p
    BY <2>1, <2>2, <2>3, <1>2
  <2>5. from[2] < from[3] /\ from[3] < from[4]
    BY <2>3
  <2> QED
    BY <2>4, <2>5, Zenon
<1>9. \A j \in 2 .. 4 : new[j] # k /\ new[j] \in ToSet(past) /\ M[new[j]] = L[cache[from[j]]]
  <2> TAKE j \in 2 .. 4
  <2>1. from[j] \in 1 .. 4 /\ from[j] # p /\ new[j] = cache[from[j]]
    BY <1>8, Zenon
  <2>2. new[j] # k
    <3>1. CASE cache[p] = k
      <4>1. L[cache[from[j]]] # L[cache[p]]
        <5>1. L[cache[from[j]]] \in Int /\ L[cache[p]] \in Int
          BY <2>1, <1>4, <1>5
        <5>2. from[j] < p \/ p < from[j]
          BY <2>1
        <5>3. L[cache[from[j]]] > L[cache[p]] \/ L[cache[p]] > L[cache[from[j]]]
          BY <5>2, <2>1, <1>6, Zenon
        <5>4. \A u, v \in Int : u > v => u # v
          OBVIOUS
        <5> QED
          BY <5>1, <5>3, <5>4
      <4> QED
        BY <4>1, <3>1, <2>1
    <3>2. CASE k \notin ToSet(cache)
      BY <3>2, <2>1, <1>5
    <3> QED
      BY <3>1, <3>2, <1>2
  <2> QED
    BY <2>1, <2>2, <1>4, <1>5
<1>10. Len(new) = 4 /\ \A key \in ToSet(new) : key \in ToSet(after)
  <2>1. \A m \in 1 .. 4 : m = 1 \/ m \in 2 .. 4
    OBVIOUS
  <2> QED
    BY <2>1, <1>2, <1>3, <1>5, <1>9
<1>11. ASSUME NEW j \in 1 .. 4, NEW m \in 1 .. 4, j < m
       PROVE  M[new[j]] > M[new[m]]
  <2>1. m \in 2 .. 4 /\ M[new[m]] = L[cache[from[m]]] /\ M[new[m]] \in 1 .. Len(past) /\ from[m] \in 1 .. 4
    <3>1. m \in 2 .. 4
      BY <1>11
    <3>2. from[m] \in 1 .. 4 /\ M[new[m]] = L[cache[from[m]]]
      BY <3>1, <1>8, <1>9, Zenon
    <3>3. cache[from[m]] \in ToSet(past)
      BY <3>2, <1>5
    <3> QED
      BY <3>1, <3>2, <3>3, <1>4
  <2>2. CASE j = 1
    BY <2>1, <2>2, <1>2, <1>4, <1>5
  <2>3. CASE j # 1
    <3>1. j \in 2 .. 4 /\ from[j] \in 1 .. 4 /\ M[new[j]] = L[cache[from[j]]]
      BY <2>3, <1>8, <1>9
    <3>2. from[j] < from[m]
      <4>1. (j = 2 /\ m = 3) \/ (j = 2 /\ m = 4) \/ (j = 3 /\ m = 4)
        BY <2>1, <3>1, <1>11
      <4>2. from[2] \in Int /\ from[3] \in Int /\ from[4] \in Int
        BY <1>8
      <4> QED
        BY <4>1, <4>2, <1>8
    <3> QED
      BY <2>1, <3>1, <3>2, <1>6, Zenon
  <2> QED
    BY <2>2, <2>3
<1>12. ASSUME NEW key \in ToSet(after), key \notin ToSet(new)
       PROVE  M[key] < M[new[4]]
  <2>1. key # k /\ key \in ToSet(past) /\ M[key] = L[key] /\ L[key] \in Int
    BY <1>2, <1>3, <1>4, <1>5, <1>12
  <2>2. M[new[4]] = L[cache[from[4]]] /\ from[4] \in 1 .. 4 /\ L[cache[from[4]]] \in Int /\ L[cache[4]] \in Int
    BY <1>4, <1>5, <1>8, <1>9
  <2>3. CASE key \notin ToSet(cache)
    <3>1. L[key] < L[cache[4]]
      BY <2>1, <2>3, <1>7
    <3>2. L[cache[4]] <= L[cache[from[4]]]
      <4>1. from[4] = 4 \/ from[4] < 4
        BY <2>2
      <4>2. 4 \in 1 .. 4
        OBVIOUS
      <4> QED
        BY <4>1, <4>2, <2>2, <1>6
    <3> QED
      BY <3>1, <3>2, <2>1, <2>2
  <2>4. CASE key \in ToSet(cache)
    <3>1. PICK q \in 1 .. 4 : key = cache[q]
      BY <2>4, <1>5
    <3>2. q = p
      <4>1. ~ (q < p)
        <5>1. q < p => q \in 1 .. p - 1 /\ q + 1 \in 1 .. 4
          OBVIOUS
        <5> QED
          BY <5>1, <3>1, <1>2, <1>5, <1>12
      <4>2. ~ (p < q)
        <5>1. p < q => q \in p + 1 .. 4
          OBVIOUS
        <5> QED
          BY <5>1, <3>1, <1>2, <1>5, <1>12
      <4> QED
        BY <4>1, <4>2
    <3>3. p = 4
      BY <3>1, <3>2, <2>1, <1>2
    <3>4. from[4] < 4
      <4>1. from[4] # 4
        BY <3>3, <1>8
      <4> QED
        BY <4>1, <2>2
    <3>5. 4 \in 1 .. 4
      OBVIOUS
    <3>6. L[cache[from[4]]] > L[cache[4]]
      BY <3>4, <3>5, <2>2, <1>6, Zenon
    <3> QED
      BY <3>1, <3>2, <3>3, <3>6, <2>1, <2>2
  <2> QED
    BY <2>3, <2>4
<1>13. IsCache(new, after)
  <2>1. \A key \in ToSet(after) : LastUseIn(after, key) = M[key]
    BY DEF M
  <2>2. \A m \in 1 .. 4 : new[m] \in ToSet(after)
    BY <1>5, <1>10
  <2> QED
    BY <2>1, <2>2, <1>10, <1>11, <1>12 DEF IsCache
<1> QED
  BY <1>1, <1>3, <1>13

\* And a key is in the cache if fewer than four others were used since.
LEMMA CacheHits ==
  ASSUME NEW past \in Seq(Nibble), NEW cache \in Seq(Nibble), IsCache(cache, past), NEW k \in Nibble
  PROVE  k \in ToSet(cache) <=> k \in ToSet(past) /\ Cardinality(UsedAfter(past, k)) < 4
<1> DEFINE L == [key \in ToSet(past) |-> LastUseIn(past, key)]
<1>1. /\ Len(cache) = 4 /\ \A m \in 1 .. 4 : cache[m] \in ToSet(cache) /\ cache[m] \in ToSet(past)
      /\ \A key \in ToSet(cache) : \E m \in 1 .. 4 : key = cache[m]
      /\ Len(past) \in Nat
  <2>1. Len(cache) = 4 /\ Len(past) \in Nat /\ \A key \in ToSet(cache) : key \in ToSet(past)
    BY DEF IsCache
  <2>2. /\ \A m \in 1 .. Len(cache) : cache[m] \in ToSet(cache)
        /\ \A key \in ToSet(cache) : \E m \in 1 .. Len(cache) : key = cache[m]
    BY Members
  <2> QED
    BY <2>1, <2>2
<1>2. \A key \in ToSet(past) : L[key] \in 1 .. Len(past)
  BY LastUseIs
<1>3. \A j, m \in 1 .. 4 : j < m => L[cache[j]] > L[cache[m]]
  BY <1>1 DEF IsCache
<1>4. \A key \in ToSet(past) \ ToSet(cache) : L[key] < L[cache[4]]
  BY <1>1 DEF IsCache
\* The keys used after k are the ones used last after k was.
<1>5. ASSUME k \in ToSet(past)
      PROVE  UsedAfter(past, k) = {key \in ToSet(past) : L[key] > L[k]}
  <2>1. LastUseIn(past, k) = L[k]
    BY <1>5
  <2>2. ASSUME NEW key \in UsedAfter(past, k)
        PROVE  key \in ToSet(past) /\ L[key] > L[k]
    <3>1. PICK m \in L[k] + 1 .. Len(past) : key = past[m]
      BY <2>1 DEF UsedAfter
    <3>2. m \in 1 .. Len(past) /\ L[k] \in 1 .. Len(past) /\ L[k] < m
      BY <3>1, <1>1, <1>2, <1>5
    <3>3. key \in ToSet(past)
      BY <3>1, <3>2 DEF ToSet
    <3>4. ~ (L[key] < m)
      <4>1. LastUseIn(past, key) = L[key]
        BY <3>3
      <4> QED
        BY <4>1, <3>1, <3>2, <3>3, LastUseIs
    <3>5. L[key] \in Int
      BY <3>3, <1>2
    <3> QED
      BY <3>2, <3>3, <3>4, <3>5
  <2>3. ASSUME NEW key \in ToSet(past), L[key] > L[k]
        PROVE  key \in UsedAfter(past, k)
    <3>1. past[L[key]] = key
      BY LastUseIs
    <3>2. L[key] \in L[k] + 1 .. Len(past)
      BY <2>3, <1>2, <1>5
    <3> QED
      BY <3>1, <3>2, <2>1 DEF UsedAfter
  <2> QED
    BY <2>2, <2>3, Zenon
<1> HIDE DEF L
<1>6. ASSUME k \in ToSet(cache)
      PROVE  k \in ToSet(past) /\ Cardinality(UsedAfter(past, k)) < 4
  <2>1. PICK p \in 1 .. 4 : k = cache[p]
    BY <1>1, <1>6
  <2>2. k \in ToSet(past)
    BY <2>1, <1>1
  <2> DEFINE three == {cache[1], cache[2], cache[3]}
  <2>3. ASSUME NEW key \in UsedAfter(past, k)
        PROVE  key \in three
    <3>1. key \in ToSet(past) /\ L[key] > L[k] /\ L[key] \in Int /\ L[k] \in Int
      BY <2>2, <2>3, <1>2, <1>5
    <3>2. L[k] >= L[cache[4]] /\ L[cache[4]] \in Int
      <4>1. p = 4 \/ p < 4
        OBVIOUS
      <4>2. 4 \in 1 .. 4
        OBVIOUS
      <4>3. L[cache[4]] \in Int
        BY <4>2, <1>1, <1>2
      <4> QED
        BY <4>1, <4>2, <4>3, <3>1, <2>1, <1>3
    <3>3. key \in ToSet(cache)
      BY <3>1, <3>2, <1>4
    <3>4. PICK q \in 1 .. 4 : key = cache[q]
      BY <3>3, <1>1
    <3>5. q # 4
      BY <3>1, <3>2, <3>4
    <3>6. q = 1 \/ q = 2 \/ q = 3
      BY <3>5
    <3> QED
      BY <3>4, <3>6
  <2>4. IsFiniteSet(three) /\ Cardinality(three) <= 3
    <3>1. IsFiniteSet({}) /\ Cardinality({}) = 0
      BY FS_EmptySet
    <3>2. \A S : \A n \in Nat : \A v : IsFiniteSet(S) /\ Cardinality(S) <= n
                   => IsFiniteSet(S \cup {v}) /\ Cardinality(S \cup {v}) <= n + 1
      BY CountWith, Zenon
    <3>3. PICK a : a = {} \cup {cache[1]}
      BY Zenon
    <3>4. IsFiniteSet(a) /\ Cardinality(a) <= 1
      <4>1. Cardinality({}) <= 0 /\ 0 \in Nat /\ 0 + 1 = 1
        BY <3>1
      <4> QED
        BY <4>1, <3>1, <3>2, <3>3, Zenon
    <3>5. PICK b : b = a \cup {cache[2]}
      BY Zenon
    <3>6. IsFiniteSet(b) /\ Cardinality(b) <= 2
      <4>1. 1 \in Nat /\ 1 + 1 = 2
        OBVIOUS
      <4> QED
        BY <4>1, <3>2, <3>4, <3>5, Zenon
    <3>7. three = b \cup {cache[3]}
      BY <3>3, <3>5
    <3>8. 2 \in Nat /\ 2 + 1 = 3
      OBVIOUS
    <3> HIDE DEF three
    <3> QED
      BY <3>2, <3>6, <3>7, <3>8, Zenon
  <2> HIDE DEF three
  <2>5. Cardinality(UsedAfter(past, k)) <= Cardinality(three)
    <3>1. UsedAfter(past, k) \subseteq three
      BY <2>3
    <3> QED
      BY <3>1, <2>4, FS_Subset
  <2>6. Cardinality(UsedAfter(past, k)) \in Nat /\ Cardinality(three) \in Nat
    <3>1. UsedAfter(past, k) \subseteq three
      BY <2>3
    <3> QED
      BY <3>1, <2>4, FS_Subset, FS_CardinalityType
  <2> QED
    BY <2>2, <2>4, <2>5, <2>6
<1>7. ASSUME k \notin ToSet(cache), k \in ToSet(past)
      PROVE  ~ (Cardinality(UsedAfter(past, k)) < 4)
  <2> DEFINE f == [m \in 1 .. 4 |-> cache[m]]
             all == {cache[m] : m \in 1 .. 4}
  <2>1. \A key \in all : key \in UsedAfter(past, k)
    <3> SUFFICES ASSUME NEW m \in 1 .. 4 PROVE cache[m] \in UsedAfter(past, k)
      OBVIOUS
    <3>1. L[k] < L[cache[4]]
      BY <1>4, <1>7
    <3>2. L[cache[4]] \in Int /\ L[cache[m]] \in Int /\ L[k] \in Int
      <4>1. 4 \in 1 .. 4
        OBVIOUS
      <4> QED
        BY <4>1, <1>1, <1>2, <1>7
    <3>3. L[cache[4]] <= L[cache[m]]
      <4>1. m = 4 \/ m < 4
        OBVIOUS
      <4>2. 4 \in 1 .. 4
        OBVIOUS
      <4> QED
        BY <4>1, <4>2, <3>2, <1>3
    <3>4. L[cache[m]] > L[k]
      BY <3>1, <3>2, <3>3
    <3> QED
      BY <3>4, <1>1, <1>5, <1>7
  <2>2. IsFiniteSet(all) /\ Cardinality(all) = 4
    <3>1. \A a, b \in 1 .. 4 : f[a] = f[b] => a = b
      <4> TAKE a, b \in 1 .. 4
      <4>1. L[cache[a]] \in Int /\ L[cache[b]] \in Int
        BY <1>1, <1>2
      <4>2. a < b \/ b < a \/ a = b
        OBVIOUS
      <4> QED
        BY <4>1, <4>2, <1>3
    <3>2. f \in [1 .. 4 -> all] /\ \A key \in all : \E m \in 1 .. 4 : f[m] = key
      OBVIOUS
    <3>3. IsFiniteSet(1 .. 4) /\ Cardinality(1 .. 4) = 4
      <4>1. PICK n \in Nat : n = 4
        OBVIOUS
      <4> QED
        BY <4>1, CountTo, Zenon
    <3> HIDE DEF f, all
    <3> QED
      BY <3>1, <3>2, <3>3, SameCount
  <2>3. IsFiniteSet(UsedAfter(past, k))
    <3>1. UsedAfter(past, k) \subseteq 0 .. 15
      BY <1>5, <1>7, NibbleIsInt DEF ToSet
    <3>2. IsFiniteSet(0 .. 15)
      <4>1. PICK m, n \in Int : m = 0 /\ n = 15
        OBVIOUS
      <4> QED
        BY <4>1, IntervalFinite, Zenon
    <3> QED
      BY <3>1, <3>2, FS_Subset
  <2> HIDE DEF all, f
  <2>4. Cardinality(all) <= Cardinality(UsedAfter(past, k))
    <3>1. all \subseteq UsedAfter(past, k)
      BY <2>1
    <3> QED
      BY <3>1, <2>3, FS_Subset
  <2>5. Cardinality(UsedAfter(past, k)) \in Nat
    BY <2>3, FS_CardinalityType
  <2> QED
    BY <2>2, <2>4, <2>5
<1> QED
  BY <1>6, <1>7

-----------------------------------------------------------------------------
\* The accesses before the one after i, of a word of four keys.
LEMMA AccessesAre ==
  ASSUME x \in [1 .. 4 -> Nibble], NEW n \in 0 .. 4
  PROVE  /\ Accesses(n) \in Seq(Nibble) /\ Accesses(0) = <<3, 2, 1, 0>>
         /\ n < 4 => x[n + 1] \in Nibble /\ Accesses(n + 1) = Append(Accesses(n), x[n + 1])
<1>1. PICK y \in Seq(Nibble) : y = x /\ Len(y) = 4
  <2>1. PICK w \in Nat : w = 4
    OBVIOUS
  <2>2. x \in [1 .. w -> Nibble]
    BY <2>1
  <2>3. x \in Seq(Nibble) /\ Len(x) = w
    BY <2>2
  <2> QED
    BY <2>1, <2>3
<1>2. PICK first \in Seq(Nibble) : first = <<3, 2, 1, 0>>
  <2>1. 0 \in Nibble /\ 1 \in Nibble /\ 2 \in Nibble /\ 3 \in Nibble
    BY DEF Nibble
  <2>2. \A a, b, c, d \in Nibble : <<a, b, c, d>> \in Seq(Nibble)
    OBVIOUS
  <2> QED
    BY <2>1, <2>2, Zenon
<1>3. \A m \in 0 .. 4 : SubSeq(y, 1, m) \in Seq(Nibble)
  <2> TAKE m \in 0 .. 4
  <2>1. \A j \in 1 .. m : y[j] \in Nibble
    BY <1>1
  <2> QED
    BY <2>1, <1>1, SubSeqProperties
<1>4. Accesses(n) \in Seq(Nibble)
  <2>1. PICK s \in Seq(Nibble) : s = SubSeq(x, 1, n)
    BY <1>1, <1>3, Zenon
  <2>2. first \o s \in Seq(Nibble)
    BY SetOfConcat
  <2> QED
    BY <2>1, <2>2, <1>2 DEF Accesses
<1>5. Accesses(0) = <<3, 2, 1, 0>>
  <2>1. SubSeq(x, 1, 0) = << >>
    BY SubSeqEmpty
  <2> QED
    BY <2>1, <1>2, ConcatEmptySeq, Zenon DEF Accesses
<1>6. ASSUME n < 4
      PROVE  x[n + 1] \in Nibble /\ Accesses(n + 1) = Append(Accesses(n), x[n + 1])
  <2>1. PICK v \in Nibble : v = x[n + 1]
    BY <1>6
  <2>2. PICK s \in Seq(Nibble) : s = SubSeq(y, 1, n)
    BY <1>3, Zenon
  <2>3. Append(s, v) = SubSeq(y, 1, n + 1)
    <3>1. n \in 0 .. Len(y) - 1 /\ 1 \in 1 .. n + 1
      BY <1>1, <1>6
    <3> QED
      BY <3>1, <2>1, <2>2, <1>1, SliceAndNext
  <2>4. first \o Append(s, v) = Append(first \o s, v)
    <3>1. PICK one \in Seq(Nibble) : one = <<v>>
      <4>1. \A u \in Nibble : <<u>> \in Seq(Nibble)
        OBVIOUS
      <4> QED
        BY <4>1, Zenon
    <3>2. \A u \in Seq(Nibble) : Append(u, v) = u \o one
      BY <3>1, AppendIsConcat
    <3>3. first \o s \in Seq(Nibble) /\ (first \o s) \o one = first \o (s \o one)
      BY SetOfConcat, ConcatAssociative, SMTT(30)
    <3> QED
      BY <3>2, <3>3, Zenon
  <2> QED
    BY <2>1, <2>2, <2>3, <2>4, <1>1, <1>2, Zenon DEF Accesses
<1> QED
  BY <1>4, <1>5, <1>6

LEMMA HitIs ==
  ASSUME x \in [1 .. 4 -> Nibble], NEW n \in 0 .. 3, NEW cache \in Seq(Nibble), IsCache(cache, Accesses(n))
  PROVE  Hit(n) <=> x[n + 1] \in ToSet(cache)
<1>1. PICK past \in Seq(Nibble) : past = Accesses(n)
  BY AccessesAre, SMTT(30)
<1>2. PICK k \in Nibble : k = x[n + 1]
  BY AccessesAre, SMTT(30)
<1>3. k \in ToSet(cache) <=> k \in ToSet(past) /\ Cardinality(UsedAfter(past, k)) < 4
  BY <1>1, CacheHits
<1>4. {m \in DOMAIN past : past[m] = k} = {} <=> k \notin ToSet(past)
  BY DEF ToSet
<1>5. DistinctSince(n) = IF k \notin ToSet(past) THEN 4 ELSE Cardinality(UsedAfter(past, k))
  BY <1>1, <1>2, <1>4 DEF DistinctSince, UsedAfter, LastUseIn
<1>6. ~ (4 < 4)
  OBVIOUS
<1> QED
  BY <1>2, <1>3, <1>5, <1>6 DEF Hit

LEMMA CacheInvIs ==
  CacheInv <=> /\ IsCache(locals.cache, Accesses(locals.i))
               /\ locals.hits = [k \in 1 .. locals.i |-> BoolToInt(Hit(k - 1))]
BY DEF CacheInv, IsCache, LastUseIn, i

LEMMA LruInit ==
  ASSUME task = "lru_cache_4", x \in RandomWords(task), locals = Locals(task, x)
  PROVE  LruInv
<1>1. x \in [1 .. 4 -> Nibble] /\ locals = [i |-> 0, cache |-> <<0, 1, 2, 3>>, hits |-> << >>]
  BY DEF RandomWords, Locals
<1>2. PICK cache \in Seq(Nibble) : cache = <<0, 1, 2, 3>>
  <2>1. 0 \in Nibble /\ 1 \in Nibble /\ 2 \in Nibble /\ 3 \in Nibble
    BY DEF Nibble
  <2>2. \A a, b, c, d \in Nibble : <<a, b, c, d>> \in Seq(Nibble)
    OBVIOUS
  <2> QED
    BY <2>1, <2>2, Zenon
<1>3. PICK hits \in Seq({0, 1}) : hits = << >>
  BY EmptySeq, Zenon
<1>4. PICK past : past = <<3, 2, 1, 0>>
  BY Zenon
<1>5. \A m \in 1 .. 4 : LastUseIn(past, cache[m]) = 5 - m
  <2> TAKE m \in 1 .. 4
  <2>1. DOMAIN past = 1 .. 4 /\ \A l \in 1 .. 4 : past[l] = 4 - l
    BY <1>4
  <2>2. cache[m] = m - 1
    BY <1>2
  <2> DEFINE uses == {l \in DOMAIN past : past[l] = cache[m]}
  <2>3. uses \subseteq Int /\ 5 - m \in uses /\ \A l \in uses : l <= 5 - m
    BY <2>1, <2>2
  <2>4. LastUseIn(past, cache[m]) = Max(uses)
    BY DEF LastUseIn
  <2> HIDE DEF uses
  <2> QED
    BY <2>3, <2>4, MaxIs, Zenon
<1>6. ToSet(cache) = {0, 1, 2, 3} /\ ToSet(past) = {0, 1, 2, 3} /\ Len(cache) = 4
  BY <1>2, <1>4 DEF ToSet
<1>7. IsCache(cache, past)
  <2>1. \A k, m \in 1 .. 4 : k < m => 5 - k > 5 - m
    OBVIOUS
  <2> QED
    BY <2>1, <1>5, <1>6 DEF IsCache
<1>8. [k \in 1 .. 0 |-> BoolToInt(Hit(k - 1))] = << >>
  OBVIOUS
<1>9. locals.cache = cache /\ locals.hits = << >> /\ locals.i = 0 /\ Accesses(0) = past
  BY <1>1, <1>2, <1>4, AccessesAre, SMTT(30)
<1>10. locals \in [i : 0 .. 4, cache : Seq(Nibble), hits : Seq({0, 1})]
  <2>1. locals = [i |-> 0, cache |-> cache, hits |-> hits] /\ 0 \in 0 .. 4
    BY <1>1, <1>2, <1>3
  <2> QED
    BY <2>1
<1> QED
  BY <1>1, <1>7, <1>8, <1>9, <1>10, CacheInvIs DEF LruInv

LEMMA LruStep ==
  ASSUME LruInv, LruCache4
  PROVE  LruInv' /\ (pc' = "returned" => LruAnswer')
<1> USE DEF i
<1>1. /\ x' = x /\ x \in [1 .. 4 -> Nibble] /\ pc = "loop"
      /\ i \in 0 .. 4 /\ locals.cache \in Seq(Nibble) /\ locals.hits \in Seq({0, 1})
      /\ IsCache(locals.cache, Accesses(i)) /\ locals.hits = [k \in 1 .. i |-> BoolToInt(Hit(k - 1))]
  BY CacheInvIs DEF LruInv, LruCache4, Continue, Return, In
<1>2. PICK n \in 0 .. 4 : n = i
  BY <1>1
<1>3. PICK cache \in Seq(Nibble) : cache = locals.cache
  BY <1>1
<1>4. PICK hits \in Seq({0, 1}) : hits = locals.hits
  BY <1>1
<1>5. \A m : Accesses(m)' = Accesses(m) /\ Hit(m)' = Hit(m)
  BY <1>1 DEF Accesses, Hit, DistinctSince
<1>6. CacheInv' <=> /\ IsCache(locals.cache, Accesses(locals.i))'
                    /\ (locals.hits = [k \in 1 .. locals.i |-> BoolToInt(Hit(k - 1))])'
  BY CacheInvIs, PTL
<1>7. CASE n = 4
  <2>1. locals' = locals /\ result' = hits
    BY <1>2, <1>4, <1>7 DEF LruCache4, Return
  <2>2. hits = [k \in 1 .. 4 |-> BoolToInt(Hit(k - 1))]
    BY <1>1, <1>2, <1>4, <1>7
  <2>3. hits = [k \in 1 .. 4 |-> BoolToInt(Hit(k - 1)')]
    BY <2>2, <1>5
  <2>4. Len(hits) * 1 = 4
    <3>1. Len(hits) = 4
      BY <2>2
    <3> QED
      BY ONLY <3>1
  <2>5. \A k \in DOMAIN hits : hits[k] \in 0 .. 2 ^ 1 - 1
    <3>1. 0 .. 2 ^ 1 - 1 = {0, 1}
      BY PowersOfTwo
    <3>2. \A k \in DOMAIN hits : hits[k] \in {0, 1}
      OBVIOUS
    <3> QED
      BY <3>1, <3>2
  <2>6. LruAnswer'
    BY <2>1, <2>3, <2>4, <2>5 DEF LruAnswer
  <2>7. CacheInv'
    <3>1. IsCache(locals.cache, Accesses(locals.i))'
      BY <2>1, <1>1, ZenonT(60) DEF Accesses, IsCache, LastUseIn
    <3>2. (locals.hits = [k \in 1 .. locals.i |-> BoolToInt(Hit(k - 1))])'
      BY <2>1, <1>1, <1>5
    <3> QED
      BY <3>1, <3>2, <1>6, SMTT(30)
  <2> QED
    BY <2>1, <2>6, <2>7, <1>1 DEF LruInv
<1>8. CASE n \in 0 .. 3
  <2>1. PICK k \in Nibble : k = x[n + 1]
    <3>1. n + 1 \in 1 .. 4
      BY <1>8
    <3> QED
      BY <3>1, <1>1
  <2>2. PICK past \in Seq(Nibble) : past = Accesses(n)
    BY <1>1, AccessesAre, Zenon
  <2>3. PICK new \in Seq(Nibble) : new = Accessed(cache, k)
    BY <1>1, <1>3, AccessedIs DEF IsCache, MovedToFront
  <2>4. PICK bit \in {0, 1} : bit = BoolToInt(k \in ToSet(cache))
    BY DEF BoolToInt
  <2>5. PICK more \in Seq({0, 1}) : more = Append(hits, bit)
    BY AppendProperties, Zenon
  <2>6. locals' = [i |-> n + 1, cache |-> new, hits |-> more] /\ pc' = pc
    <3>1. n # 4
      BY <1>8
    <3> QED
      BY <3>1, <2>1, <2>3, <2>4, <2>5, <1>2, <1>3, <1>4 DEF LruCache4, Continue
  <2>7. IsCache(new, Accesses(n + 1))
    <3>1. IsCache(cache, past)
      BY <2>2, <1>1, <1>2, <1>3
    <3>2. IsCache(new, Append(past, k))
      BY <3>1, <2>3, CacheNext
    <3>3. n < 4
      BY <1>8
    <3> QED
      BY <3>2, <3>3, <2>1, <2>2, <1>1, AccessesAre, Zenon
  <2>8. bit = BoolToInt(Hit(n))
    <3>1. Hit(n) <=> k \in ToSet(cache)
      BY <2>1, <1>1, <1>2, <1>3, <1>8, HitIs, Zenon
    <3> QED
      BY <3>1, <2>4 DEF BoolToInt
  <2>9. more = [j \in 1 .. n + 1 |-> BoolToInt(Hit(j - 1))]
    <3>1. hits = [j \in 1 .. n |-> BoolToInt(Hit(j - 1))] /\ Len(hits) = n
      BY <1>1, <1>2, <1>4
    <3>2. more = [j \in 1 .. n + 1 |-> IF j = n + 1 THEN bit ELSE hits[j]]
      BY <3>1, <2>5
    <3>3. \A j \in 1 .. n + 1 : (j # n + 1 => j \in 1 .. n) /\ (n + 1) - 1 = n
      OBVIOUS
    <3> QED
      BY <3>1, <3>2, <3>3, <2>8
  <2>10. locals' \in [i : 0 .. 4, cache : Seq(Nibble), hits : Seq({0, 1})]
    <3>1. n + 1 \in 0 .. 4
      BY <1>8
    <3> QED
      BY <3>1, <2>6
  <2>11. CacheInv'
    <3>1. locals'.i = n + 1 /\ locals'.cache = new /\ locals'.hits = more
      BY <2>6
    <3>2. PICK now : now = Accesses(n + 1)
      OBVIOUS
    <3>3. Accesses(locals.i)' = now
      BY <3>1, <3>2, <1>1 DEF Accesses
    <3>4. IsCache(locals.cache, Accesses(locals.i))'
      BY <3>1, <3>2, <3>3, <2>7, ZenonT(60) DEF IsCache, LastUseIn
    <3>5. (locals.hits = [j \in 1 .. locals.i |-> BoolToInt(Hit(j - 1))])'
      BY <3>1, <2>9, <1>5
    <3> QED
      BY <3>4, <3>5, <1>6
  <2> QED
    BY <2>6, <2>10, <2>11, <1>1 DEF LruInv
<1> QED
  BY <1>2, <1>7, <1>8

-----------------------------------------------------------------------------
\* pipeline_hazard_3: no loop.
PipelineInv ==
  x \in [1 .. 3 -> {0, 1} \X (0 .. 7) \X (0 .. 7) \X (0 .. 7)] /\ locals \in [i : {0}]
PipelineAnswer ==
  /\ result = [k \in 1 .. 2 |-> BoolToInt(\E m \in 1 .. k : Reads(x[k + 1]) \cap Writes(x[m]) # {})]
  /\ Len(result) * 1 = 2 /\ \A k \in DOMAIN result : result[k] \in 0 .. 2 ^ 1 - 1

LEMMA PipelineCase ==
  task = "pipeline_hazard_3" =>
    /\ Kept <=> Running /\ PipelineInv
    /\ Answer <=> PipelineAnswer
<1>1. ASSUME task = "pipeline_hazard_3"
      PROVE  Kept <=> Running /\ PipelineInv
  BY <1>1 DEF Kept, TypeOK, RandomWords, LocalsOf, LoopInv, TASK_REGISTRY, Running, PipelineInv
<1>2. ASSUME task = "pipeline_hazard_3"
      PROVE  Answer <=> PipelineAnswer
  <2>1. TASK_REGISTRY[task].out_bits = 2
    BY <1>2 DEF TASK_REGISTRY, PIPELINE_HAZARD_3
  <2> QED
    BY <1>2, <2>1, PowersOfTwo DEF Answer, Described, Fits, Digits, PipelineAnswer
<1> QED
  BY <1>1, <1>2

LEMMA PipelineInit ==
  ASSUME task = "pipeline_hazard_3", x \in RandomWords(task), locals = Locals(task, x)
  PROVE  PipelineInv
BY DEF RandomWords, Locals, PipelineInv

\* An instruction depends on another one when it reads what that one writes.
LEMMA DependsOnReads ==
  ASSUME NEW later \in {0, 1} \X (0 .. 7) \X (0 .. 7) \X (0 .. 7),
         NEW earlier \in {0, 1} \X (0 .. 7) \X (0 .. 7) \X (0 .. 7)
  PROVE  Depends(later, earlier) <=> Reads(later) \cap Writes(earlier) # {}
BY DEF Depends, Reads, Writes

LEMMA PipelineStep ==
  ASSUME PipelineInv, PipelineHazard3
  PROVE  PipelineInv' /\ (pc' = "returned" => PipelineAnswer')
<1> DEFINE Hazard(k) == \E m \in 1 .. k : Reads(x[k + 1]) \cap Writes(x[m]) # {}
<1>1. /\ x' = x /\ locals' = locals
      /\ result' = <<BoolToInt(Depends(x[2], x[1])),
                     BoolToInt(Depends(x[3], x[2]) \/ Depends(x[3], x[1]))>>
  BY DEF PipelineHazard3, Return
<1>2. /\ Depends(x[2], x[1]) <=> Hazard(1)
      /\ Depends(x[3], x[2]) \/ Depends(x[3], x[1]) <=> Hazard(2)
  <2>1. \A k, m \in 1 .. 3 : Depends(x[k], x[m]) <=> Reads(x[k]) \cap Writes(x[m]) # {}
    BY DependsOnReads DEF PipelineInv
  <2>2. 1 .. 1 = {1} /\ 1 .. 2 = {1, 2} /\ 1 + 1 = 2 /\ 2 + 1 = 3
    OBVIOUS
  <2> QED
    BY <2>1, <2>2
<1>3. result' = [k \in 1 .. 2 |-> BoolToInt(Hazard(k))]
  <2> HIDE DEF Hazard
  <2> QED
    BY <1>1, <1>2 DEF BoolToInt
<1>4. \A b : BoolToInt(b) \in 0 .. 2 ^ 1 - 1
  BY PowersOfTwo DEF BoolToInt
<1>5. Len(result') * 1 = 2 /\ \A k \in DOMAIN result' : result'[k] \in 0 .. 2 ^ 1 - 1
  <2> HIDE DEF Hazard
  <2> QED
    BY <1>3, <1>4
<1> QED
  BY <1>1, <1>3, <1>5, Zenon DEF PipelineInv, PipelineAnswer

-----------------------------------------------------------------------------
(***************************************************************************)
(* The whole: one lemma per task says that the invariant of the module is  *)
(* the one of its task.                                                    *)
(***************************************************************************)
IInv == Kept /\ (pc = "returned" => Answer)

\* The tasks of the registry.
LEMMA TheTasks ==
  DOMAIN TASK_REGISTRY = {"graph_reach_4", "graph_triangle_5", "graph_bipartite_6", "binsearch_8x4", "kth_smallest_4x8", "argmax_8x8", "heap_check_7", "ll_traverse_4", "merge_2x4", "prime_check_u8", "modexp_small", "seq_detect_1011", "palindrome_8n", "subset_sum_4x6", "inversion_4x4", "histogram_4bin", "argmax_argmin_4x8", "stream_packet_fsm", "weighted_scheduler", "sliding_window_max_4", "lru_cache_4", "pipeline_hazard_3"}
BY DEF TASK_REGISTRY

\* What an oracle starts with: the word and the locals before its loop.
LEMMA InitKept == Init => IInv
<1> SUFFICES ASSUME Init PROVE IInv
  OBVIOUS
<1>1. task \in DOMAIN TASK_REGISTRY /\ locals = Locals(task, x) /\ pc = "loop" /\ x \in RandomWords(task)
  BY OraclesAssumption DEF Init
<1>2. Running
  BY <1>1 DEF Running
<1>3. ASSUME task = "graph_reach_4" PROVE Kept
  BY <1>3, <1>1, <1>2, GraphReachInit, GraphReachCase
<1>4. ASSUME task = "graph_triangle_5" PROVE Kept
  BY <1>4, <1>1, <1>2, TriangleInit, TriangleCase
<1>5. ASSUME task = "graph_bipartite_6" PROVE Kept
  BY <1>5, <1>1, <1>2, BipartiteInit, BipartiteCase
<1>6. ASSUME task = "binsearch_8x4" PROVE Kept
  BY <1>6, <1>1, <1>2, BinsearchInit, BinsearchCase
<1>7. ASSUME task = "kth_smallest_4x8" PROVE Kept
  BY <1>7, <1>1, <1>2, KthInit, KthCase
<1>8. ASSUME task = "argmax_8x8" PROVE Kept
  BY <1>8, <1>1, <1>2, ArgmaxInit, ArgmaxCase
<1>9. ASSUME task = "heap_check_7" PROVE Kept
  BY <1>9, <1>1, <1>2, HeapInit, HeapCase
<1>10. ASSUME task = "ll_traverse_4" PROVE Kept
  BY <1>10, <1>1, <1>2, TraverseInit, TraverseCase
<1>11. ASSUME task = "merge_2x4" PROVE Kept
  BY <1>11, <1>1, <1>2, MergeTwoInit, MergeTwoCase
<1>12. ASSUME task = "prime_check_u8" PROVE Kept
  BY <1>12, <1>1, <1>2, PrimeInit, PrimeCase
<1>13. ASSUME task = "modexp_small" PROVE Kept
  BY <1>13, <1>1, <1>2, ModexpInit, ModexpCase
<1>14. ASSUME task = "seq_detect_1011" PROVE Kept
  BY <1>14, <1>1, <1>2, SeqCountInit, SeqCountCase
<1>15. ASSUME task = "palindrome_8n" PROVE Kept
  BY <1>15, <1>1, <1>2, PalindromeInit, PalindromeCase
<1>16. ASSUME task = "subset_sum_4x6" PROVE Kept
  BY <1>16, <1>1, <1>2, SubsetSumInit, SubsetSumCase
<1>17. ASSUME task = "inversion_4x4" PROVE Kept
  BY <1>17, <1>1, <1>2, InversionInit, InversionCase
<1>18. ASSUME task = "histogram_4bin" PROVE Kept
  BY <1>18, <1>1, <1>2, HistogramInit, HistogramCase
<1>19. ASSUME task = "argmax_argmin_4x8" PROVE Kept
  BY <1>19, <1>1, <1>2, ArgmaxArgminInit, ArgmaxArgminCase
<1>20. ASSUME task = "stream_packet_fsm" PROVE Kept
  BY <1>20, <1>1, <1>2, StreamInit, StreamCase
<1>21. ASSUME task = "weighted_scheduler" PROVE Kept
  BY <1>21, <1>1, <1>2, WeightedInit, WeightedCase
<1>22. ASSUME task = "sliding_window_max_4" PROVE Kept
  BY <1>22, <1>1, <1>2, SlidingInit, SlidingCase
<1>23. ASSUME task = "lru_cache_4" PROVE Kept
  BY <1>23, <1>1, <1>2, LruInit, LruCase
<1>24. ASSUME task = "pipeline_hazard_3" PROVE Kept
  BY <1>24, <1>1, <1>2, PipelineInit, PipelineCase
<1> QED
  BY <1>1, <1>3, <1>4, <1>5, <1>6, <1>7, <1>8, <1>9, <1>10, <1>11, <1>12, <1>13, <1>14, <1>15, <1>16, <1>17, <1>18, <1>19, <1>20, <1>21, <1>22, <1>23, <1>24, TheTasks DEF IInv

\* One lemma per task: a step of its action keeps IInv.
LEMMA GraphReachNext ==
  ASSUME Kept, GraphReach4
  PROVE  IInv'
<1>1. task = "graph_reach_4" /\ pc = "loop"
  BY DEF GraphReach4, In
<1>2. GraphReachInv
  BY <1>1, GraphReachCase
<1>3. GraphReachInv' /\ (pc' = "returned" => GraphReachAnswer')
  BY <1>2, GraphReachStep
<1>4. task' = task /\ Running'
  BY <1>1, <1>2 DEF GraphReach4, Continue, Return, Running
<1>5. (task = "graph_reach_4" => (Kept <=> Running /\ GraphReachInv) /\ (Answer <=> GraphReachAnswer))'
  BY GraphReachCase, PTL
<1> QED
  BY <1>1, <1>3, <1>4, <1>5 DEF IInv

LEMMA TriangleNext ==
  ASSUME Kept, GraphTriangle5
  PROVE  IInv'
<1>1. task = "graph_triangle_5" /\ pc = "loop"
  BY DEF GraphTriangle5, In
<1>2. TriangleInv
  BY <1>1, TriangleCase
<1>3. TriangleInv' /\ (pc' = "returned" => TriangleAnswer')
  BY <1>2, TriangleStep
<1>4. task' = task /\ Running'
  BY <1>1, <1>2 DEF GraphTriangle5, Continue, Return, Running
<1>5. (task = "graph_triangle_5" => (Kept <=> Running /\ TriangleInv) /\ (Answer <=> TriangleAnswer))'
  BY TriangleCase, PTL
<1> QED
  BY <1>1, <1>3, <1>4, <1>5 DEF IInv

LEMMA BipartiteNext ==
  ASSUME Kept, GraphBipartite6
  PROVE  IInv'
<1>1. task = "graph_bipartite_6" /\ pc = "loop"
  BY DEF GraphBipartite6, In
<1>2. BipartiteInv
  BY <1>1, BipartiteCase
<1>3. BipartiteInv' /\ (pc' = "returned" => BipartiteAnswer')
  BY <1>2, BipartiteStep
<1>4. task' = task /\ Running'
  BY <1>1, <1>2 DEF GraphBipartite6, Continue, Return, Running
<1>5. (task = "graph_bipartite_6" => (Kept <=> Running /\ BipartiteInv) /\ (Answer <=> BipartiteAnswer))'
  BY BipartiteCase, PTL
<1> QED
  BY <1>1, <1>3, <1>4, <1>5 DEF IInv

LEMMA BinsearchNext ==
  ASSUME Kept, Binsearch8x4
  PROVE  IInv'
<1>1. task = "binsearch_8x4" /\ pc = "loop"
  BY DEF Binsearch8x4, In
<1>2. BinsearchInv
  BY <1>1, BinsearchCase
<1>3. BinsearchInv' /\ (pc' = "returned" => BinsearchAnswer')
  BY <1>2, BinsearchStep
<1>4. task' = task /\ Running'
  BY <1>1, <1>2 DEF Binsearch8x4, Continue, Return, Running
<1>5. (task = "binsearch_8x4" => (Kept <=> Running /\ BinsearchInv) /\ (Answer <=> BinsearchAnswer))'
  BY BinsearchCase, PTL
<1> QED
  BY <1>1, <1>3, <1>4, <1>5 DEF IInv

LEMMA KthNext ==
  ASSUME Kept, KthSmallest4x8
  PROVE  IInv'
<1>1. task = "kth_smallest_4x8" /\ pc = "loop"
  BY DEF KthSmallest4x8, In
<1>2. KthInv
  BY <1>1, KthCase
<1>3. KthInv' /\ (pc' = "returned" => KthAnswer')
  BY <1>2, KthStep
<1>4. task' = task /\ Running'
  BY <1>1, <1>2 DEF KthSmallest4x8, Continue, Return, Running
<1>5. (task = "kth_smallest_4x8" => (Kept <=> Running /\ KthInv) /\ (Answer <=> KthAnswer))'
  BY KthCase, PTL
<1> QED
  BY <1>1, <1>3, <1>4, <1>5 DEF IInv

LEMMA ArgmaxNext ==
  ASSUME Kept, Argmax8x8
  PROVE  IInv'
<1>1. task = "argmax_8x8" /\ pc = "loop"
  BY DEF Argmax8x8, In
<1>2. ArgmaxInv
  BY <1>1, ArgmaxCase
<1>3. ArgmaxInv' /\ (pc' = "returned" => ArgmaxAnswer')
  BY <1>2, ArgmaxStep
<1>4. task' = task /\ Running'
  BY <1>1, <1>2 DEF Argmax8x8, Continue, Return, Running
<1>5. (task = "argmax_8x8" => (Kept <=> Running /\ ArgmaxInv) /\ (Answer <=> ArgmaxAnswer))'
  BY ArgmaxCase, PTL
<1> QED
  BY <1>1, <1>3, <1>4, <1>5 DEF IInv

LEMMA HeapNext ==
  ASSUME Kept, HeapCheck7
  PROVE  IInv'
<1>1. task = "heap_check_7" /\ pc = "loop"
  BY DEF HeapCheck7, In
<1>2. HeapInv
  BY <1>1, HeapCase
<1>3. HeapInv' /\ (pc' = "returned" => HeapAnswer')
  BY <1>2, HeapStep
<1>4. task' = task /\ Running'
  BY <1>1, <1>2 DEF HeapCheck7, Continue, Return, Running
<1>5. (task = "heap_check_7" => (Kept <=> Running /\ HeapInv) /\ (Answer <=> HeapAnswer))'
  BY HeapCase, PTL
<1> QED
  BY <1>1, <1>3, <1>4, <1>5 DEF IInv

LEMMA TraverseNext ==
  ASSUME Kept, LlTraverse4
  PROVE  IInv'
<1>1. task = "ll_traverse_4" /\ pc = "loop"
  BY DEF LlTraverse4, In
<1>2. TraverseInv
  BY <1>1, TraverseCase
<1>3. TraverseInv' /\ (pc' = "returned" => TraverseAnswer')
  BY <1>2, TraverseStep
<1>4. task' = task /\ Running'
  BY <1>1, <1>2 DEF LlTraverse4, Continue, Return, Running
<1>5. (task = "ll_traverse_4" => (Kept <=> Running /\ TraverseInv) /\ (Answer <=> TraverseAnswer))'
  BY TraverseCase, PTL
<1> QED
  BY <1>1, <1>3, <1>4, <1>5 DEF IInv

LEMMA MergeTwoNext ==
  ASSUME Kept, Merge2x4
  PROVE  IInv'
<1>1. task = "merge_2x4" /\ pc = "loop"
  BY DEF Merge2x4, In
<1>2. MergeTwoInv
  BY <1>1, MergeTwoCase
<1>3. MergeTwoInv' /\ (pc' = "returned" => MergeTwoAnswer')
  BY <1>2, MergeTwoStep
<1>4. task' = task /\ Running'
  BY <1>1, <1>2 DEF Merge2x4, Continue, Return, Running
<1>5. (task = "merge_2x4" => (Kept <=> Running /\ MergeTwoInv) /\ (Answer <=> MergeTwoAnswer))'
  BY MergeTwoCase, PTL
<1> QED
  BY <1>1, <1>3, <1>4, <1>5 DEF IInv

LEMMA PrimeNext ==
  ASSUME Kept, PrimeU8
  PROVE  IInv'
<1>1. task = "prime_check_u8" /\ pc = "loop"
  BY DEF PrimeU8, In
<1>2. PrimeInv
  BY <1>1, PrimeCase
<1>3. PrimeInv' /\ (pc' = "returned" => PrimeAnswer')
  BY <1>2, PrimeStep
<1>4. task' = task /\ Running'
  BY <1>1, <1>2 DEF PrimeU8, Continue, Return, Running
<1>5. (task = "prime_check_u8" => (Kept <=> Running /\ PrimeInv) /\ (Answer <=> PrimeAnswer))'
  BY PrimeCase, PTL
<1> QED
  BY <1>1, <1>3, <1>4, <1>5 DEF IInv

LEMMA ModexpNext ==
  ASSUME Kept, ModexpSmall
  PROVE  IInv'
<1>1. task = "modexp_small" /\ pc = "loop"
  BY DEF ModexpSmall, In
<1>2. ModexpInv
  BY <1>1, ModexpCase
<1>3. ModexpInv' /\ (pc' = "returned" => ModexpAnswer')
  BY <1>2, ModexpStep
<1>4. task' = task /\ Running'
  BY <1>1, <1>2 DEF ModexpSmall, Continue, Return, Running
<1>5. (task = "modexp_small" => (Kept <=> Running /\ ModexpInv) /\ (Answer <=> ModexpAnswer))'
  BY ModexpCase, PTL
<1> QED
  BY <1>1, <1>3, <1>4, <1>5 DEF IInv

LEMMA SeqCountNext ==
  ASSUME Kept, SeqCount1011
  PROVE  IInv'
<1>1. task = "seq_detect_1011" /\ pc = "loop"
  BY DEF SeqCount1011, In
<1>2. SeqCountInv
  BY <1>1, SeqCountCase
<1>3. SeqCountInv' /\ (pc' = "returned" => SeqCountAnswer')
  BY <1>2, SeqCountStep
<1>4. task' = task /\ Running'
  BY <1>1, <1>2 DEF SeqCount1011, Continue, Return, Running
<1>5. (task = "seq_detect_1011" => (Kept <=> Running /\ SeqCountInv) /\ (Answer <=> SeqCountAnswer))'
  BY SeqCountCase, PTL
<1> QED
  BY <1>1, <1>3, <1>4, <1>5 DEF IInv

LEMMA PalindromeNext ==
  ASSUME Kept, Palindrome8
  PROVE  IInv'
<1>1. task = "palindrome_8n" /\ pc = "loop"
  BY DEF Palindrome8, In
<1>2. PalindromeInv
  BY <1>1, PalindromeCase
<1>3. PalindromeInv' /\ (pc' = "returned" => PalindromeAnswer')
  BY <1>2, PalindromeStep
<1>4. task' = task /\ Running'
  BY <1>1, <1>2 DEF Palindrome8, Continue, Return, Running
<1>5. (task = "palindrome_8n" => (Kept <=> Running /\ PalindromeInv) /\ (Answer <=> PalindromeAnswer))'
  BY PalindromeCase, PTL
<1> QED
  BY <1>1, <1>3, <1>4, <1>5 DEF IInv

LEMMA SubsetSumNext ==
  ASSUME Kept, SubsetSum4x6
  PROVE  IInv'
<1>1. task = "subset_sum_4x6" /\ pc = "loop"
  BY DEF SubsetSum4x6, In
<1>2. SubsetSumInv
  BY <1>1, SubsetSumCase
<1>3. SubsetSumInv' /\ (pc' = "returned" => SubsetSumAnswer')
  BY <1>2, SubsetSumStep
<1>4. task' = task /\ Running'
  BY <1>1, <1>2 DEF SubsetSum4x6, Continue, Return, Running
<1>5. (task = "subset_sum_4x6" => (Kept <=> Running /\ SubsetSumInv) /\ (Answer <=> SubsetSumAnswer))'
  BY SubsetSumCase, PTL
<1> QED
  BY <1>1, <1>3, <1>4, <1>5 DEF IInv

LEMMA InversionNext ==
  ASSUME Kept, Inversion4x4
  PROVE  IInv'
<1>1. task = "inversion_4x4" /\ pc = "loop"
  BY DEF Inversion4x4, In
<1>2. InversionInv
  BY <1>1, InversionCase
<1>3. InversionInv' /\ (pc' = "returned" => InversionAnswer')
  BY <1>2, InversionStep
<1>4. task' = task /\ Running'
  BY <1>1, <1>2 DEF Inversion4x4, Continue, Return, Running
<1>5. (task = "inversion_4x4" => (Kept <=> Running /\ InversionInv) /\ (Answer <=> InversionAnswer))'
  BY InversionCase, PTL
<1> QED
  BY <1>1, <1>3, <1>4, <1>5 DEF IInv

LEMMA HistogramNext ==
  ASSUME Kept, Histogram4bin
  PROVE  IInv'
<1>1. task = "histogram_4bin" /\ pc = "loop"
  BY DEF Histogram4bin, In
<1>2. HistogramInv
  BY <1>1, HistogramCase
<1>3. HistogramInv' /\ (pc' = "returned" => HistogramAnswer')
  BY <1>2, HistogramStep
<1>4. task' = task /\ Running'
  BY <1>1, <1>2 DEF Histogram4bin, Continue, Return, Running
<1>5. (task = "histogram_4bin" => (Kept <=> Running /\ HistogramInv) /\ (Answer <=> HistogramAnswer))'
  BY HistogramCase, PTL
<1> QED
  BY <1>1, <1>3, <1>4, <1>5 DEF IInv

LEMMA ArgmaxArgminNext ==
  ASSUME Kept, ArgmaxArgmin4x8
  PROVE  IInv'
<1>1. task = "argmax_argmin_4x8" /\ pc = "loop"
  BY DEF ArgmaxArgmin4x8, In
<1>2. ArgmaxArgminInv
  BY <1>1, ArgmaxArgminCase
<1>3. ArgmaxArgminInv' /\ (pc' = "returned" => ArgmaxArgminAnswer')
  BY <1>2, ArgmaxArgminStep
<1>4. task' = task /\ Running'
  BY <1>1, <1>2 DEF ArgmaxArgmin4x8, Continue, Return, Running
<1>5. (task = "argmax_argmin_4x8" => (Kept <=> Running /\ ArgmaxArgminInv) /\ (Answer <=> ArgmaxArgminAnswer))'
  BY ArgmaxArgminCase, PTL
<1> QED
  BY <1>1, <1>3, <1>4, <1>5 DEF IInv

LEMMA StreamNext ==
  ASSUME Kept, StreamPacketFsm
  PROVE  IInv'
<1>1. task = "stream_packet_fsm" /\ pc = "loop"
  BY DEF StreamPacketFsm, In
<1>2. StreamInv
  BY <1>1, StreamCase
<1>3. StreamInv' /\ (pc' = "returned" => StreamAnswer')
  BY <1>2, StreamStep
<1>4. task' = task /\ Running'
  BY <1>1, <1>2, Zenon DEF StreamPacketFsm, Continue, Return, Running, Takes, StreamInv
<1>5. (task = "stream_packet_fsm" => (Kept <=> Running /\ StreamInv) /\ (Answer <=> StreamAnswer))'
  BY StreamCase, PTL
<1> QED
  BY <1>1, <1>3, <1>4, <1>5 DEF IInv

LEMMA WeightedNext ==
  ASSUME Kept, WeightedScheduler
  PROVE  IInv'
<1>1. task = "weighted_scheduler" /\ pc = "loop"
  BY DEF WeightedScheduler, In
<1>2. WeightedInv
  BY <1>1, WeightedCase
<1>3. WeightedInv' /\ (pc' = "returned" => WeightedAnswer')
  BY <1>2, WeightedStep
<1>4. task' = task /\ Running'
  BY <1>1, <1>2 DEF WeightedScheduler, Continue, Return, Running
<1>5. (task = "weighted_scheduler" => (Kept <=> Running /\ WeightedInv) /\ (Answer <=> WeightedAnswer))'
  BY WeightedCase, PTL
<1> QED
  BY <1>1, <1>3, <1>4, <1>5 DEF IInv

LEMMA SlidingNext ==
  ASSUME Kept, SlidingWindowMax4
  PROVE  IInv'
<1>1. task = "sliding_window_max_4" /\ pc = "loop"
  BY DEF SlidingWindowMax4, In
<1>2. SlidingInv
  BY <1>1, SlidingCase
<1>3. SlidingInv' /\ (pc' = "returned" => SlidingAnswer')
  BY <1>2, SlidingStep
<1>4. task' = task /\ Running'
  BY <1>1, <1>2 DEF SlidingWindowMax4, Continue, Return, Running
<1>5. (task = "sliding_window_max_4" => (Kept <=> Running /\ SlidingInv) /\ (Answer <=> SlidingAnswer))'
  BY SlidingCase, PTL
<1> QED
  BY <1>1, <1>3, <1>4, <1>5 DEF IInv

LEMMA LruNext ==
  ASSUME Kept, LruCache4
  PROVE  IInv'
<1>1. task = "lru_cache_4" /\ pc = "loop"
  BY DEF LruCache4, In
<1>2. LruInv
  BY <1>1, LruCase
<1>3. LruInv' /\ (pc' = "returned" => LruAnswer')
  BY <1>2, LruStep
<1>4. task' = task /\ Running'
  BY <1>1, <1>2 DEF LruCache4, Continue, Return, Running
<1>5. (task = "lru_cache_4" => (Kept <=> Running /\ LruInv) /\ (Answer <=> LruAnswer))'
  BY LruCase, PTL
<1> QED
  BY <1>1, <1>3, <1>4, <1>5 DEF IInv

LEMMA PipelineNext ==
  ASSUME Kept, PipelineHazard3
  PROVE  IInv'
<1>1. task = "pipeline_hazard_3" /\ pc = "loop"
  BY DEF PipelineHazard3, In
<1>2. PipelineInv
  BY <1>1, PipelineCase
<1>3. PipelineInv' /\ (pc' = "returned" => PipelineAnswer')
  BY <1>2, PipelineStep
<1>4. task' = task /\ Running'
  BY <1>1, <1>2 DEF PipelineHazard3, Continue, Return, Running
<1>5. (task = "pipeline_hazard_3" => (Kept <=> Running /\ PipelineInv) /\ (Answer <=> PipelineAnswer))'
  BY PipelineCase, PTL
<1> QED
  BY <1>1, <1>3, <1>4, <1>5 DEF IInv

LEMMA NextKept == IInv /\ Next => IInv'
<1> SUFFICES ASSUME IInv, Next PROVE IInv'
  OBVIOUS
<1>1. Kept
  BY DEF IInv
<1>2. CASE GraphReach4
  BY <1>1, <1>2, GraphReachNext
<1>3. CASE GraphTriangle5
  BY <1>1, <1>3, TriangleNext
<1>4. CASE GraphBipartite6
  BY <1>1, <1>4, BipartiteNext
<1>5. CASE Binsearch8x4
  BY <1>1, <1>5, BinsearchNext
<1>6. CASE KthSmallest4x8
  BY <1>1, <1>6, KthNext
<1>7. CASE Argmax8x8
  BY <1>1, <1>7, ArgmaxNext
<1>8. CASE HeapCheck7
  BY <1>1, <1>8, HeapNext
<1>9. CASE LlTraverse4
  BY <1>1, <1>9, TraverseNext
<1>10. CASE Merge2x4
  BY <1>1, <1>10, MergeTwoNext
<1>11. CASE PrimeU8
  BY <1>1, <1>11, PrimeNext
<1>12. CASE ModexpSmall
  BY <1>1, <1>12, ModexpNext
<1>13. CASE SeqCount1011
  BY <1>1, <1>13, SeqCountNext
<1>14. CASE Palindrome8
  BY <1>1, <1>14, PalindromeNext
<1>15. CASE SubsetSum4x6
  BY <1>1, <1>15, SubsetSumNext
<1>16. CASE Inversion4x4
  BY <1>1, <1>16, InversionNext
<1>17. CASE Histogram4bin
  BY <1>1, <1>17, HistogramNext
<1>18. CASE ArgmaxArgmin4x8
  BY <1>1, <1>18, ArgmaxArgminNext
<1>19. CASE StreamPacketFsm
  BY <1>1, <1>19, StreamNext
<1>20. CASE WeightedScheduler
  BY <1>1, <1>20, WeightedNext
<1>21. CASE SlidingWindowMax4
  BY <1>1, <1>21, SlidingNext
<1>22. CASE LruCache4
  BY <1>1, <1>22, LruNext
<1>23. CASE PipelineHazard3
  BY <1>1, <1>23, PipelineNext
<1> QED
  BY <1>2, <1>3, <1>4, <1>5, <1>6, <1>7, <1>8, <1>9, <1>10, <1>11, <1>12, <1>13, <1>14, <1>15, <1>16, <1>17, <1>18, <1>19, <1>20, <1>21, <1>22, <1>23 DEF Next

LEMMA GraphReachStays == GraphReachInv /\ UNCHANGED vars => GraphReachInv' /\ (GraphReachAnswer => GraphReachAnswer')
BY DEF vars, GraphReachInv, GraphReachAnswer, ReachInv

LEMMA TriangleStays == TriangleInv /\ UNCHANGED vars => TriangleInv' /\ (TriangleAnswer => TriangleAnswer')
BY DEF vars, TriangleInv, TriangleAnswer, i

LEMMA BipartiteStays == BipartiteInv /\ UNCHANGED vars => BipartiteInv' /\ (BipartiteAnswer => BipartiteAnswer')
BY DEF vars, BipartiteInv, BipartiteAnswer, ColourInv, Neighbours

LEMMA BinsearchStays == BinsearchInv /\ UNCHANGED vars => BinsearchInv' /\ (BinsearchAnswer => BinsearchAnswer')
BY DEF vars, BinsearchInv, BinsearchAnswer, i

LEMMA KthStays == KthInv /\ UNCHANGED vars => KthInv' /\ (KthAnswer => KthAnswer')
BY DEF vars, KthInv, KthAnswer, i

LEMMA ArgmaxStays == ArgmaxInv /\ UNCHANGED vars => ArgmaxInv' /\ (ArgmaxAnswer => ArgmaxAnswer')
BY DEF vars, ArgmaxInv, ArgmaxAnswer, i

LEMMA HeapStays == HeapInv /\ UNCHANGED vars => HeapInv' /\ (HeapAnswer => HeapAnswer')
BY DEF vars, HeapInv, HeapAnswer, i

LEMMA TraverseStays == TraverseInv /\ UNCHANGED vars => TraverseInv' /\ (TraverseAnswer => TraverseAnswer')
BY DEF vars, TraverseInv, TraverseAnswer, i

LEMMA MergeTwoStays == MergeTwoInv /\ UNCHANGED vars => MergeTwoInv' /\ (MergeTwoAnswer => MergeTwoAnswer')
BY DEF vars, MergeTwoInv, MergeTwoAnswer, i, MergeInv

LEMMA PrimeStays == PrimeInv /\ UNCHANGED vars => PrimeInv' /\ (PrimeAnswer => PrimeAnswer')
BY DEF vars, PrimeInv, PrimeAnswer, i

LEMMA ModexpStays == ModexpInv /\ UNCHANGED vars => ModexpInv' /\ (ModexpAnswer => ModexpAnswer')
BY DEF vars, ModexpInv, ModexpAnswer, i

LEMMA SeqCountStays == SeqCountInv /\ UNCHANGED vars => SeqCountInv' /\ (SeqCountAnswer => SeqCountAnswer')
BY DEF vars, SeqCountInv, SeqCountAnswer, i, Occurs1011

LEMMA PalindromeStays == PalindromeInv /\ UNCHANGED vars => PalindromeInv' /\ (PalindromeAnswer => PalindromeAnswer')
BY DEF vars, PalindromeInv, PalindromeAnswer, i

LEMMA SubsetSumStays == SubsetSumInv /\ UNCHANGED vars => SubsetSumInv' /\ (SubsetSumAnswer => SubsetSumAnswer')
BY DEF vars, SubsetSumInv, SubsetSumAnswer, i, MaskSum

LEMMA InversionStays == InversionInv /\ UNCHANGED vars => InversionInv' /\ (InversionAnswer => InversionAnswer')
BY DEF vars, InversionInv, InversionAnswer, i

LEMMA HistogramStays == HistogramInv /\ UNCHANGED vars => HistogramInv' /\ (HistogramAnswer => HistogramAnswer')
BY DEF vars, HistogramInv, HistogramAnswer, i

LEMMA ArgmaxArgminStays == ArgmaxArgminInv /\ UNCHANGED vars => ArgmaxArgminInv' /\ (ArgmaxArgminAnswer => ArgmaxArgminAnswer')
BY DEF vars, ArgmaxArgminInv, ArgmaxArgminAnswer, i

LEMMA StreamStays == StreamInv /\ UNCHANGED vars => StreamInv' /\ (StreamAnswer => StreamAnswer')
<1> SUFFICES ASSUME StreamInv, UNCHANGED vars PROVE StreamInv' /\ (StreamAnswer => StreamAnswer')
  OBVIOUS
<1>1. x' = x /\ locals' = locals /\ result' = result
  BY DEF vars
<1>2. Starts' = Starts /\ (\A p : EndOfPacket(p)' = EndOfPacket(p)) /\ \A n : PayloadBytes(n)' = PayloadBytes(n)
  BY <1>1, StreamSame
<1>3. PacketInv'
  BY <1>1, <1>2, Zenon DEF StreamInv, PacketInv, i
<1> QED
  BY <1>1, <1>2, <1>3 DEF StreamInv, StreamAnswer

LEMMA WeightedStays == WeightedInv /\ UNCHANGED vars => WeightedInv' /\ (WeightedAnswer => WeightedAnswer')
BY DEF vars, WeightedInv, WeightedAnswer, i, SchedulerInv, Beats

LEMMA SlidingStays == SlidingInv /\ UNCHANGED vars => SlidingInv' /\ (SlidingAnswer => SlidingAnswer')
<1> SUFFICES ASSUME SlidingInv, UNCHANGED vars PROVE SlidingInv' /\ (SlidingAnswer => SlidingAnswer')
  OBVIOUS
<1>1. x' = x /\ locals' = locals /\ result' = result
  BY DEF vars
<1>2. \A k : WindowMax(k)' = WindowMax(k)
  BY <1>1 DEF WindowMax
<1> QED
  BY <1>1, <1>2, Zenon DEF SlidingInv, SlidingAnswer, i

LEMMA LruStays == LruInv /\ UNCHANGED vars => LruInv' /\ (LruAnswer => LruAnswer')
<1> SUFFICES ASSUME LruInv, UNCHANGED vars PROVE LruInv' /\ (LruAnswer => LruAnswer')
  OBVIOUS
<1>1. x' = x /\ locals' = locals /\ result' = result
  BY DEF vars
<1>2. \A m : Accesses(m)' = Accesses(m) /\ Hit(m)' = Hit(m)
  BY <1>1 DEF Accesses, Hit, DistinctSince
<1>3. CacheInv' <=> /\ IsCache(locals.cache, Accesses(locals.i))'
                    /\ (locals.hits = [k \in 1 .. locals.i |-> BoolToInt(Hit(k - 1))])'
  BY CacheInvIs, PTL
<1>4. IsCache(locals.cache, Accesses(locals.i)) /\ locals.hits = [k \in 1 .. locals.i |-> BoolToInt(Hit(k - 1))]
  BY CacheInvIs, SMTT(30) DEF LruInv
<1>5. IsCache(locals.cache, Accesses(locals.i))'
  BY <1>1, <1>4, ZenonT(60) DEF Accesses, IsCache, LastUseIn
<1>6. (locals.hits = [k \in 1 .. locals.i |-> BoolToInt(Hit(k - 1))])'
  BY <1>1, <1>2, <1>4
<1> QED
  BY <1>1, <1>2, <1>3, <1>5, <1>6 DEF LruInv, LruAnswer

LEMMA PipelineStays == PipelineInv /\ UNCHANGED vars => PipelineInv' /\ (PipelineAnswer => PipelineAnswer')
BY Zenon DEF vars, PipelineInv, PipelineAnswer, i

LEMMA StutterKept == IInv /\ UNCHANGED vars => IInv'
<1> SUFFICES ASSUME IInv, UNCHANGED vars PROVE IInv'
  OBVIOUS
<1>1. Kept /\ task' = task /\ pc' = pc /\ Running /\ Running' /\ task \in DOMAIN TASK_REGISTRY
  BY DEF IInv, vars, Kept, TypeOK, Running
<1>2. CASE task = "graph_reach_4"
  <2>1. GraphReachInv /\ (pc = "returned" => GraphReachAnswer)
    BY <1>1, <1>2, GraphReachCase DEF IInv
  <2>2. GraphReachInv' /\ (GraphReachAnswer => GraphReachAnswer')
    BY <2>1, GraphReachStays
  <2>3. (task = "graph_reach_4" => (Kept <=> Running /\ GraphReachInv) /\ (Answer <=> GraphReachAnswer))'
    BY GraphReachCase, PTL
  <2> QED
    BY <1>1, <1>2, <2>1, <2>2, <2>3 DEF IInv
<1>3. CASE task = "graph_triangle_5"
  <2>1. TriangleInv /\ (pc = "returned" => TriangleAnswer)
    BY <1>1, <1>3, TriangleCase DEF IInv
  <2>2. TriangleInv' /\ (TriangleAnswer => TriangleAnswer')
    BY <2>1, TriangleStays
  <2>3. (task = "graph_triangle_5" => (Kept <=> Running /\ TriangleInv) /\ (Answer <=> TriangleAnswer))'
    BY TriangleCase, PTL
  <2> QED
    BY <1>1, <1>3, <2>1, <2>2, <2>3 DEF IInv
<1>4. CASE task = "graph_bipartite_6"
  <2>1. BipartiteInv /\ (pc = "returned" => BipartiteAnswer)
    BY <1>1, <1>4, BipartiteCase DEF IInv
  <2>2. BipartiteInv' /\ (BipartiteAnswer => BipartiteAnswer')
    BY <2>1, BipartiteStays
  <2>3. (task = "graph_bipartite_6" => (Kept <=> Running /\ BipartiteInv) /\ (Answer <=> BipartiteAnswer))'
    BY BipartiteCase, PTL
  <2> QED
    BY <1>1, <1>4, <2>1, <2>2, <2>3 DEF IInv
<1>5. CASE task = "binsearch_8x4"
  <2>1. BinsearchInv /\ (pc = "returned" => BinsearchAnswer)
    BY <1>1, <1>5, BinsearchCase DEF IInv
  <2>2. BinsearchInv' /\ (BinsearchAnswer => BinsearchAnswer')
    BY <2>1, BinsearchStays
  <2>3. (task = "binsearch_8x4" => (Kept <=> Running /\ BinsearchInv) /\ (Answer <=> BinsearchAnswer))'
    BY BinsearchCase, PTL
  <2> QED
    BY <1>1, <1>5, <2>1, <2>2, <2>3 DEF IInv
<1>6. CASE task = "kth_smallest_4x8"
  <2>1. KthInv /\ (pc = "returned" => KthAnswer)
    BY <1>1, <1>6, KthCase DEF IInv
  <2>2. KthInv' /\ (KthAnswer => KthAnswer')
    BY <2>1, KthStays
  <2>3. (task = "kth_smallest_4x8" => (Kept <=> Running /\ KthInv) /\ (Answer <=> KthAnswer))'
    BY KthCase, PTL
  <2> QED
    BY <1>1, <1>6, <2>1, <2>2, <2>3 DEF IInv
<1>7. CASE task = "argmax_8x8"
  <2>1. ArgmaxInv /\ (pc = "returned" => ArgmaxAnswer)
    BY <1>1, <1>7, ArgmaxCase DEF IInv
  <2>2. ArgmaxInv' /\ (ArgmaxAnswer => ArgmaxAnswer')
    BY <2>1, ArgmaxStays
  <2>3. (task = "argmax_8x8" => (Kept <=> Running /\ ArgmaxInv) /\ (Answer <=> ArgmaxAnswer))'
    BY ArgmaxCase, PTL
  <2> QED
    BY <1>1, <1>7, <2>1, <2>2, <2>3 DEF IInv
<1>8. CASE task = "heap_check_7"
  <2>1. HeapInv /\ (pc = "returned" => HeapAnswer)
    BY <1>1, <1>8, HeapCase DEF IInv
  <2>2. HeapInv' /\ (HeapAnswer => HeapAnswer')
    BY <2>1, HeapStays
  <2>3. (task = "heap_check_7" => (Kept <=> Running /\ HeapInv) /\ (Answer <=> HeapAnswer))'
    BY HeapCase, PTL
  <2> QED
    BY <1>1, <1>8, <2>1, <2>2, <2>3 DEF IInv
<1>9. CASE task = "ll_traverse_4"
  <2>1. TraverseInv /\ (pc = "returned" => TraverseAnswer)
    BY <1>1, <1>9, TraverseCase DEF IInv
  <2>2. TraverseInv' /\ (TraverseAnswer => TraverseAnswer')
    BY <2>1, TraverseStays
  <2>3. (task = "ll_traverse_4" => (Kept <=> Running /\ TraverseInv) /\ (Answer <=> TraverseAnswer))'
    BY TraverseCase, PTL
  <2> QED
    BY <1>1, <1>9, <2>1, <2>2, <2>3 DEF IInv
<1>10. CASE task = "merge_2x4"
  <2>1. MergeTwoInv /\ (pc = "returned" => MergeTwoAnswer)
    BY <1>1, <1>10, MergeTwoCase DEF IInv
  <2>2. MergeTwoInv' /\ (MergeTwoAnswer => MergeTwoAnswer')
    BY <2>1, MergeTwoStays
  <2>3. (task = "merge_2x4" => (Kept <=> Running /\ MergeTwoInv) /\ (Answer <=> MergeTwoAnswer))'
    BY MergeTwoCase, PTL
  <2> QED
    BY <1>1, <1>10, <2>1, <2>2, <2>3 DEF IInv
<1>11. CASE task = "prime_check_u8"
  <2>1. PrimeInv /\ (pc = "returned" => PrimeAnswer)
    BY <1>1, <1>11, PrimeCase DEF IInv
  <2>2. PrimeInv' /\ (PrimeAnswer => PrimeAnswer')
    BY <2>1, PrimeStays
  <2>3. (task = "prime_check_u8" => (Kept <=> Running /\ PrimeInv) /\ (Answer <=> PrimeAnswer))'
    BY PrimeCase, PTL
  <2> QED
    BY <1>1, <1>11, <2>1, <2>2, <2>3 DEF IInv
<1>12. CASE task = "modexp_small"
  <2>1. ModexpInv /\ (pc = "returned" => ModexpAnswer)
    BY <1>1, <1>12, ModexpCase DEF IInv
  <2>2. ModexpInv' /\ (ModexpAnswer => ModexpAnswer')
    BY <2>1, ModexpStays
  <2>3. (task = "modexp_small" => (Kept <=> Running /\ ModexpInv) /\ (Answer <=> ModexpAnswer))'
    BY ModexpCase, PTL
  <2> QED
    BY <1>1, <1>12, <2>1, <2>2, <2>3 DEF IInv
<1>13. CASE task = "seq_detect_1011"
  <2>1. SeqCountInv /\ (pc = "returned" => SeqCountAnswer)
    BY <1>1, <1>13, SeqCountCase DEF IInv
  <2>2. SeqCountInv' /\ (SeqCountAnswer => SeqCountAnswer')
    BY <2>1, SeqCountStays
  <2>3. (task = "seq_detect_1011" => (Kept <=> Running /\ SeqCountInv) /\ (Answer <=> SeqCountAnswer))'
    BY SeqCountCase, PTL
  <2> QED
    BY <1>1, <1>13, <2>1, <2>2, <2>3 DEF IInv
<1>14. CASE task = "palindrome_8n"
  <2>1. PalindromeInv /\ (pc = "returned" => PalindromeAnswer)
    BY <1>1, <1>14, PalindromeCase DEF IInv
  <2>2. PalindromeInv' /\ (PalindromeAnswer => PalindromeAnswer')
    BY <2>1, PalindromeStays
  <2>3. (task = "palindrome_8n" => (Kept <=> Running /\ PalindromeInv) /\ (Answer <=> PalindromeAnswer))'
    BY PalindromeCase, PTL
  <2> QED
    BY <1>1, <1>14, <2>1, <2>2, <2>3 DEF IInv
<1>15. CASE task = "subset_sum_4x6"
  <2>1. SubsetSumInv /\ (pc = "returned" => SubsetSumAnswer)
    BY <1>1, <1>15, SubsetSumCase DEF IInv
  <2>2. SubsetSumInv' /\ (SubsetSumAnswer => SubsetSumAnswer')
    BY <2>1, SubsetSumStays
  <2>3. (task = "subset_sum_4x6" => (Kept <=> Running /\ SubsetSumInv) /\ (Answer <=> SubsetSumAnswer))'
    BY SubsetSumCase, PTL
  <2> QED
    BY <1>1, <1>15, <2>1, <2>2, <2>3 DEF IInv
<1>16. CASE task = "inversion_4x4"
  <2>1. InversionInv /\ (pc = "returned" => InversionAnswer)
    BY <1>1, <1>16, InversionCase DEF IInv
  <2>2. InversionInv' /\ (InversionAnswer => InversionAnswer')
    BY <2>1, InversionStays
  <2>3. (task = "inversion_4x4" => (Kept <=> Running /\ InversionInv) /\ (Answer <=> InversionAnswer))'
    BY InversionCase, PTL
  <2> QED
    BY <1>1, <1>16, <2>1, <2>2, <2>3 DEF IInv
<1>17. CASE task = "histogram_4bin"
  <2>1. HistogramInv /\ (pc = "returned" => HistogramAnswer)
    BY <1>1, <1>17, HistogramCase DEF IInv
  <2>2. HistogramInv' /\ (HistogramAnswer => HistogramAnswer')
    BY <2>1, HistogramStays
  <2>3. (task = "histogram_4bin" => (Kept <=> Running /\ HistogramInv) /\ (Answer <=> HistogramAnswer))'
    BY HistogramCase, PTL
  <2> QED
    BY <1>1, <1>17, <2>1, <2>2, <2>3 DEF IInv
<1>18. CASE task = "argmax_argmin_4x8"
  <2>1. ArgmaxArgminInv /\ (pc = "returned" => ArgmaxArgminAnswer)
    BY <1>1, <1>18, ArgmaxArgminCase DEF IInv
  <2>2. ArgmaxArgminInv' /\ (ArgmaxArgminAnswer => ArgmaxArgminAnswer')
    BY <2>1, ArgmaxArgminStays
  <2>3. (task = "argmax_argmin_4x8" => (Kept <=> Running /\ ArgmaxArgminInv) /\ (Answer <=> ArgmaxArgminAnswer))'
    BY ArgmaxArgminCase, PTL
  <2> QED
    BY <1>1, <1>18, <2>1, <2>2, <2>3 DEF IInv
<1>19. CASE task = "stream_packet_fsm"
  <2>1. StreamInv /\ (pc = "returned" => StreamAnswer)
    BY <1>1, <1>19, StreamCase DEF IInv
  <2>2. StreamInv' /\ (StreamAnswer => StreamAnswer')
    BY <2>1, StreamStays
  <2>3. (task = "stream_packet_fsm" => (Kept <=> Running /\ StreamInv) /\ (Answer <=> StreamAnswer))'
    BY StreamCase, PTL
  <2> QED
    BY <1>1, <1>19, <2>1, <2>2, <2>3 DEF IInv
<1>20. CASE task = "weighted_scheduler"
  <2>1. WeightedInv /\ (pc = "returned" => WeightedAnswer)
    BY <1>1, <1>20, WeightedCase DEF IInv
  <2>2. WeightedInv' /\ (WeightedAnswer => WeightedAnswer')
    BY <2>1, WeightedStays
  <2>3. (task = "weighted_scheduler" => (Kept <=> Running /\ WeightedInv) /\ (Answer <=> WeightedAnswer))'
    BY WeightedCase, PTL
  <2> QED
    BY <1>1, <1>20, <2>1, <2>2, <2>3 DEF IInv
<1>21. CASE task = "sliding_window_max_4"
  <2>1. SlidingInv /\ (pc = "returned" => SlidingAnswer)
    BY <1>1, <1>21, SlidingCase DEF IInv
  <2>2. SlidingInv' /\ (SlidingAnswer => SlidingAnswer')
    BY <2>1, SlidingStays
  <2>3. (task = "sliding_window_max_4" => (Kept <=> Running /\ SlidingInv) /\ (Answer <=> SlidingAnswer))'
    BY SlidingCase, PTL
  <2> QED
    BY <1>1, <1>21, <2>1, <2>2, <2>3 DEF IInv
<1>22. CASE task = "lru_cache_4"
  <2>1. LruInv /\ (pc = "returned" => LruAnswer)
    BY <1>1, <1>22, LruCase DEF IInv
  <2>2. LruInv' /\ (LruAnswer => LruAnswer')
    BY <2>1, LruStays
  <2>3. (task = "lru_cache_4" => (Kept <=> Running /\ LruInv) /\ (Answer <=> LruAnswer))'
    BY LruCase, PTL
  <2> QED
    BY <1>1, <1>22, <2>1, <2>2, <2>3 DEF IInv
<1>23. CASE task = "pipeline_hazard_3"
  <2>1. PipelineInv /\ (pc = "returned" => PipelineAnswer)
    BY <1>1, <1>23, PipelineCase DEF IInv
  <2>2. PipelineInv' /\ (PipelineAnswer => PipelineAnswer')
    BY <2>1, PipelineStays
  <2>3. (task = "pipeline_hazard_3" => (Kept <=> Running /\ PipelineInv) /\ (Answer <=> PipelineAnswer))'
    BY PipelineCase, PTL
  <2> QED
    BY <1>1, <1>23, <2>1, <2>2, <2>3 DEF IInv
<1> QED
  BY <1>1, <1>2, <1>3, <1>4, <1>5, <1>6, <1>7, <1>8, <1>9, <1>10, <1>11, <1>12, <1>13, <1>14, <1>15, <1>16, <1>17, <1>18, <1>19, <1>20, <1>21, <1>22, <1>23, TheTasks

\* IInv is inductive: Init gives it, the action of every task keeps it, and no
\* step of another kind disturbs it.
THEOREM InductiveInvariant == Spec => []IInv
<1>1. IInv /\ [Next]_vars => IInv'
  BY NextKept, StutterKept
<1> QED
  BY <1>1, InitKept, PTL DEF Spec


-----------------------------------------------------------------------------
\* The corner words of every task, counted.
LEMMA ArgmaxCornersCounted == Len(Argmax8x8Corners) = 12
<1> DEFINE s == <<Repeated(0, 8), Repeated(255, 8)>>
           t == [pos \in 1 .. 8 |-> [Repeated(0, 8) EXCEPT ![pos] = 255]]
           u == <<[k \in 1 .. 8 |-> k], [k \in 1 .. 8 |-> 9 - k]>>
<1>1. PICK B : s \in Seq(B) /\ t \in Seq(B) /\ u \in Seq(B) /\ Len(s) = 2 /\ Len(t) = 8 /\ Len(u) = 2
  <2> DEFINE B == {s[1], s[2], u[1], u[2]} \cup {t[k] : k \in 1 .. 8}
  <2>1. s \in Seq(B) /\ Len(s) = 2
    OBVIOUS
  <2>2. u \in Seq(B) /\ Len(u) = 2
    OBVIOUS
  <2>3. t \in Seq(B) /\ Len(t) = 8
    <3>1. PICK n \in Nat : n = 8
      OBVIOUS
    <3>2. DOMAIN t = 1 .. n /\ \A k \in 1 .. n : t[k] \in B
      BY <3>1
    <3>3. t = [k \in 1 .. n |-> t[k]]
      BY <3>1
    <3> HIDE DEF t, B
    <3>4. t \in [1 .. n -> B]
      BY <3>2, <3>3
    <3>5. t \in Seq(B) /\ Len(t) = n
      BY <3>4
    <3> QED
      BY <3>1, <3>5
  <2> QED
    BY <2>1, <2>2, <2>3, ZenonT(60)
<1>2. Argmax8x8Corners = (s \o t) \o u
  BY DEF Argmax8x8Corners
<1> HIDE DEF s, t, u
<1>3. s \o t \in Seq(B) /\ Len(s \o t) = Len(s) + Len(t)
  BY <1>1, ConcatProperties, Zenon
<1>4. Len((s \o t) \o u) = Len(s \o t) + Len(u)
  BY <1>1, <1>3, ConcatProperties, Zenon
<1> QED
  BY <1>1, <1>2, <1>3, <1>4

LEMMA CornersCounted ==
  /\ Len(Argmax8x8Corners) = 12
  /\ Len(GraphReach4Corners) = 9
  /\ Len(GraphTriangle5Corners) = 5
  /\ Len(GraphBipartite6Corners) = 6
  /\ Len(Binsearch8x4Corners) = 8
  /\ Len(KthSmallestCorners) = 10
  /\ Len(HeapCheck7Corners) = 8
  /\ Len(LlTraverseCorners) = 7
  /\ Len(Merge2x4Corners) = 7
  /\ Len(PrimeU8Corners) = 20
  /\ Len(ModexpCorners) = 10
  /\ Len(SeqCount1011Corners) = 8
  /\ Len(PalindromeCorners) = 6
  /\ Len(SubsetSumCorners) = 9
  /\ Len(InversionCorners) = 8
  /\ Len(HistogramCorners) = 7
  /\ Len(ArgmaxArgminCorners) = 7
  /\ Len(StreamPacketCorners) = 6
  /\ Len(WeightedSchedulerCorners) = 6
  /\ Len(SlidingWindowCorners) = 5
  /\ Len(LruCacheCorners) = 6
  /\ Len(PipelineHazardCorners) = 5
<1>1. Len(Argmax8x8Corners) = 12
  BY ArgmaxCornersCounted
<1>2. Len(GraphReach4Corners) = 9
  BY DEF GraphReach4Corners
<1>3. Len(GraphTriangle5Corners) = 5
  BY DEF GraphTriangle5Corners
<1>4. Len(GraphBipartite6Corners) = 6
  BY DEF GraphBipartite6Corners
<1>5. Len(Binsearch8x4Corners) = 8
  BY DEF Binsearch8x4Corners
<1>6. Len(KthSmallestCorners) = 10
  BY DEF KthSmallestCorners
<1>7. Len(HeapCheck7Corners) = 8
  BY DEF HeapCheck7Corners
<1>8. Len(LlTraverseCorners) = 7
  BY DEF LlTraverseCorners
<1>9. Len(Merge2x4Corners) = 7
  BY DEF Merge2x4Corners
<1>10. Len(PrimeU8Corners) = 20
  BY DEF PrimeU8Corners
<1>11. Len(ModexpCorners) = 10
  BY DEF ModexpCorners
<1>12. Len(SeqCount1011Corners) = 8
  BY DEF SeqCount1011Corners
<1>13. Len(PalindromeCorners) = 6
  BY DEF PalindromeCorners
<1>14. Len(SubsetSumCorners) = 9
  BY DEF SubsetSumCorners
<1>15. Len(InversionCorners) = 8
  BY DEF InversionCorners
<1>16. Len(HistogramCorners) = 7
  BY DEF HistogramCorners
<1>17. Len(ArgmaxArgminCorners) = 7
  BY DEF ArgmaxArgminCorners
<1>18. Len(StreamPacketCorners) = 6
  BY DEF StreamPacketCorners
<1>19. Len(WeightedSchedulerCorners) = 6
  BY DEF WeightedSchedulerCorners
<1>20. Len(SlidingWindowCorners) = 5
  BY DEF SlidingWindowCorners
<1>21. Len(LruCacheCorners) = 6
  BY DEF LruCacheCorners
<1>22. Len(PipelineHazardCorners) = 5
  BY DEF PipelineHazardCorners
<1> QED
  BY <1>1, <1>2, <1>3, <1>4, <1>5, <1>6, <1>7, <1>8, <1>9, <1>10, <1>11, <1>12, <1>13, <1>14, <1>15, <1>16, <1>17, <1>18, <1>19, <1>20, <1>21, <1>22

\* Every baseline is in reach.
LEMMA BaselineInReach ==
  ASSUME NEW t \in DOMAIN TASK_REGISTRY
  PROVE  TASK_REGISTRY[t].baseline_cycles \in Cases(t) .. Cases(t) * TASK_REGISTRY[t].max_cycles_per_case
<1>1. ASSUME t = "graph_reach_4"
      PROVE  TASK_REGISTRY[t].baseline_cycles \in Cases(t) .. Cases(t) * TASK_REGISTRY[t].max_cycles_per_case
  <2>1. TASK_REGISTRY[t] = GRAPH_REACH_4 /\ CornerWords[t] = GraphReach4Corners
    BY <1>1 DEF TASK_REGISTRY, CornerWords
  <2>2. Cases(t) = 9 + GRAPH_REACH_4.random
    BY <2>1, CornersCounted DEF Cases
  <2> QED
    BY <2>1, <2>2 DEF GRAPH_REACH_4
<1>2. ASSUME t = "graph_triangle_5"
      PROVE  TASK_REGISTRY[t].baseline_cycles \in Cases(t) .. Cases(t) * TASK_REGISTRY[t].max_cycles_per_case
  <2>1. TASK_REGISTRY[t] = GRAPH_TRIANGLE_5 /\ CornerWords[t] = GraphTriangle5Corners
    BY <1>2 DEF TASK_REGISTRY, CornerWords
  <2>2. Cases(t) = 5 + GRAPH_TRIANGLE_5.random
    BY <2>1, CornersCounted DEF Cases
  <2> QED
    BY <2>1, <2>2 DEF GRAPH_TRIANGLE_5
<1>3. ASSUME t = "graph_bipartite_6"
      PROVE  TASK_REGISTRY[t].baseline_cycles \in Cases(t) .. Cases(t) * TASK_REGISTRY[t].max_cycles_per_case
  <2>1. TASK_REGISTRY[t] = GRAPH_BIPARTITE_6 /\ CornerWords[t] = GraphBipartite6Corners
    BY <1>3 DEF TASK_REGISTRY, CornerWords
  <2>2. Cases(t) = 6 + GRAPH_BIPARTITE_6.random
    BY <2>1, CornersCounted DEF Cases
  <2> QED
    BY <2>1, <2>2 DEF GRAPH_BIPARTITE_6
<1>4. ASSUME t = "binsearch_8x4"
      PROVE  TASK_REGISTRY[t].baseline_cycles \in Cases(t) .. Cases(t) * TASK_REGISTRY[t].max_cycles_per_case
  <2>1. TASK_REGISTRY[t] = BINSEARCH_8X4 /\ CornerWords[t] = Binsearch8x4Corners
    BY <1>4 DEF TASK_REGISTRY, CornerWords
  <2>2. Cases(t) = 8 + BINSEARCH_8X4.random
    BY <2>1, CornersCounted DEF Cases
  <2> QED
    BY <2>1, <2>2 DEF BINSEARCH_8X4
<1>5. ASSUME t = "kth_smallest_4x8"
      PROVE  TASK_REGISTRY[t].baseline_cycles \in Cases(t) .. Cases(t) * TASK_REGISTRY[t].max_cycles_per_case
  <2>1. TASK_REGISTRY[t] = KTH_SMALLEST_4X8 /\ CornerWords[t] = KthSmallestCorners
    BY <1>5 DEF TASK_REGISTRY, CornerWords
  <2>2. Cases(t) = 10 + KTH_SMALLEST_4X8.random
    BY <2>1, CornersCounted DEF Cases
  <2> QED
    BY <2>1, <2>2 DEF KTH_SMALLEST_4X8
<1>6. ASSUME t = "argmax_8x8"
      PROVE  TASK_REGISTRY[t].baseline_cycles \in Cases(t) .. Cases(t) * TASK_REGISTRY[t].max_cycles_per_case
  <2>1. TASK_REGISTRY[t] = ARGMAX_8X8 /\ CornerWords[t] = Argmax8x8Corners
    BY <1>6 DEF TASK_REGISTRY, CornerWords
  <2>2. Cases(t) = 12 + ARGMAX_8X8.random
    BY <2>1, CornersCounted DEF Cases
  <2> QED
    BY <2>1, <2>2 DEF ARGMAX_8X8
<1>7. ASSUME t = "heap_check_7"
      PROVE  TASK_REGISTRY[t].baseline_cycles \in Cases(t) .. Cases(t) * TASK_REGISTRY[t].max_cycles_per_case
  <2>1. TASK_REGISTRY[t] = HEAP_CHECK_7 /\ CornerWords[t] = HeapCheck7Corners
    BY <1>7 DEF TASK_REGISTRY, CornerWords
  <2>2. Cases(t) = 8 + HEAP_CHECK_7.random
    BY <2>1, CornersCounted DEF Cases
  <2> QED
    BY <2>1, <2>2 DEF HEAP_CHECK_7
<1>8. ASSUME t = "ll_traverse_4"
      PROVE  TASK_REGISTRY[t].baseline_cycles \in Cases(t) .. Cases(t) * TASK_REGISTRY[t].max_cycles_per_case
  <2>1. TASK_REGISTRY[t] = LL_TRAVERSE_4 /\ CornerWords[t] = LlTraverseCorners
    BY <1>8 DEF TASK_REGISTRY, CornerWords
  <2>2. Cases(t) = 7 + LL_TRAVERSE_4.random
    BY <2>1, CornersCounted DEF Cases
  <2> QED
    BY <2>1, <2>2 DEF LL_TRAVERSE_4
<1>9. ASSUME t = "merge_2x4"
      PROVE  TASK_REGISTRY[t].baseline_cycles \in Cases(t) .. Cases(t) * TASK_REGISTRY[t].max_cycles_per_case
  <2>1. TASK_REGISTRY[t] = MERGE_2X4 /\ CornerWords[t] = Merge2x4Corners
    BY <1>9 DEF TASK_REGISTRY, CornerWords
  <2>2. Cases(t) = 7 + MERGE_2X4.random
    BY <2>1, CornersCounted DEF Cases
  <2> QED
    BY <2>1, <2>2 DEF MERGE_2X4
<1>10. ASSUME t = "prime_check_u8"
      PROVE  TASK_REGISTRY[t].baseline_cycles \in Cases(t) .. Cases(t) * TASK_REGISTRY[t].max_cycles_per_case
  <2>1. TASK_REGISTRY[t] = PRIME_CHECK_U8 /\ CornerWords[t] = PrimeU8Corners
    BY <1>10 DEF TASK_REGISTRY, CornerWords
  <2>2. Cases(t) = 20 + PRIME_CHECK_U8.random
    BY <2>1, CornersCounted DEF Cases
  <2> QED
    BY <2>1, <2>2 DEF PRIME_CHECK_U8
<1>11. ASSUME t = "modexp_small"
      PROVE  TASK_REGISTRY[t].baseline_cycles \in Cases(t) .. Cases(t) * TASK_REGISTRY[t].max_cycles_per_case
  <2>1. TASK_REGISTRY[t] = MODEXP_SMALL /\ CornerWords[t] = ModexpCorners
    BY <1>11 DEF TASK_REGISTRY, CornerWords
  <2>2. Cases(t) = 10 + MODEXP_SMALL.random
    BY <2>1, CornersCounted DEF Cases
  <2> QED
    BY <2>1, <2>2 DEF MODEXP_SMALL
<1>12. ASSUME t = "seq_detect_1011"
      PROVE  TASK_REGISTRY[t].baseline_cycles \in Cases(t) .. Cases(t) * TASK_REGISTRY[t].max_cycles_per_case
  <2>1. TASK_REGISTRY[t] = SEQ_DETECT_1011 /\ CornerWords[t] = SeqCount1011Corners
    BY <1>12 DEF TASK_REGISTRY, CornerWords
  <2>2. Cases(t) = 8 + SEQ_DETECT_1011.random
    BY <2>1, CornersCounted DEF Cases
  <2> QED
    BY <2>1, <2>2 DEF SEQ_DETECT_1011
<1>13. ASSUME t = "palindrome_8n"
      PROVE  TASK_REGISTRY[t].baseline_cycles \in Cases(t) .. Cases(t) * TASK_REGISTRY[t].max_cycles_per_case
  <2>1. TASK_REGISTRY[t] = PALINDROME_8N /\ CornerWords[t] = PalindromeCorners
    BY <1>13 DEF TASK_REGISTRY, CornerWords
  <2>2. Cases(t) = 6 + PALINDROME_8N.random
    BY <2>1, CornersCounted DEF Cases
  <2> QED
    BY <2>1, <2>2 DEF PALINDROME_8N
<1>14. ASSUME t = "subset_sum_4x6"
      PROVE  TASK_REGISTRY[t].baseline_cycles \in Cases(t) .. Cases(t) * TASK_REGISTRY[t].max_cycles_per_case
  <2>1. TASK_REGISTRY[t] = SUBSET_SUM_4X6 /\ CornerWords[t] = SubsetSumCorners
    BY <1>14 DEF TASK_REGISTRY, CornerWords
  <2>2. Cases(t) = 9 + SUBSET_SUM_4X6.random
    BY <2>1, CornersCounted DEF Cases
  <2> QED
    BY <2>1, <2>2 DEF SUBSET_SUM_4X6
<1>15. ASSUME t = "inversion_4x4"
      PROVE  TASK_REGISTRY[t].baseline_cycles \in Cases(t) .. Cases(t) * TASK_REGISTRY[t].max_cycles_per_case
  <2>1. TASK_REGISTRY[t] = INVERSION_4X4 /\ CornerWords[t] = InversionCorners
    BY <1>15 DEF TASK_REGISTRY, CornerWords
  <2>2. Cases(t) = 8 + INVERSION_4X4.random
    BY <2>1, CornersCounted DEF Cases
  <2> QED
    BY <2>1, <2>2 DEF INVERSION_4X4
<1>16. ASSUME t = "histogram_4bin"
      PROVE  TASK_REGISTRY[t].baseline_cycles \in Cases(t) .. Cases(t) * TASK_REGISTRY[t].max_cycles_per_case
  <2>1. TASK_REGISTRY[t] = HISTOGRAM_4BIN /\ CornerWords[t] = HistogramCorners
    BY <1>16 DEF TASK_REGISTRY, CornerWords
  <2>2. Cases(t) = 7 + HISTOGRAM_4BIN.random
    BY <2>1, CornersCounted DEF Cases
  <2> QED
    BY <2>1, <2>2 DEF HISTOGRAM_4BIN
<1>17. ASSUME t = "argmax_argmin_4x8"
      PROVE  TASK_REGISTRY[t].baseline_cycles \in Cases(t) .. Cases(t) * TASK_REGISTRY[t].max_cycles_per_case
  <2>1. TASK_REGISTRY[t] = ARGMAX_ARGMIN_4X8 /\ CornerWords[t] = ArgmaxArgminCorners
    BY <1>17 DEF TASK_REGISTRY, CornerWords
  <2>2. Cases(t) = 7 + ARGMAX_ARGMIN_4X8.random
    BY <2>1, CornersCounted DEF Cases
  <2> QED
    BY <2>1, <2>2 DEF ARGMAX_ARGMIN_4X8
<1>18. ASSUME t = "stream_packet_fsm"
      PROVE  TASK_REGISTRY[t].baseline_cycles \in Cases(t) .. Cases(t) * TASK_REGISTRY[t].max_cycles_per_case
  <2>1. TASK_REGISTRY[t] = STREAM_PACKET_FSM /\ CornerWords[t] = StreamPacketCorners
    BY <1>18 DEF TASK_REGISTRY, CornerWords
  <2>2. Cases(t) = 6 + STREAM_PACKET_FSM.random
    BY <2>1, CornersCounted DEF Cases
  <2> QED
    BY <2>1, <2>2 DEF STREAM_PACKET_FSM
<1>19. ASSUME t = "weighted_scheduler"
      PROVE  TASK_REGISTRY[t].baseline_cycles \in Cases(t) .. Cases(t) * TASK_REGISTRY[t].max_cycles_per_case
  <2>1. TASK_REGISTRY[t] = WEIGHTED_SCHEDULER /\ CornerWords[t] = WeightedSchedulerCorners
    BY <1>19 DEF TASK_REGISTRY, CornerWords
  <2>2. Cases(t) = 6 + WEIGHTED_SCHEDULER.random
    BY <2>1, CornersCounted DEF Cases
  <2> QED
    BY <2>1, <2>2 DEF WEIGHTED_SCHEDULER
<1>20. ASSUME t = "sliding_window_max_4"
      PROVE  TASK_REGISTRY[t].baseline_cycles \in Cases(t) .. Cases(t) * TASK_REGISTRY[t].max_cycles_per_case
  <2>1. TASK_REGISTRY[t] = SLIDING_WINDOW_MAX_4 /\ CornerWords[t] = SlidingWindowCorners
    BY <1>20 DEF TASK_REGISTRY, CornerWords
  <2>2. Cases(t) = 5 + SLIDING_WINDOW_MAX_4.random
    BY <2>1, CornersCounted DEF Cases
  <2> QED
    BY <2>1, <2>2 DEF SLIDING_WINDOW_MAX_4
<1>21. ASSUME t = "lru_cache_4"
      PROVE  TASK_REGISTRY[t].baseline_cycles \in Cases(t) .. Cases(t) * TASK_REGISTRY[t].max_cycles_per_case
  <2>1. TASK_REGISTRY[t] = LRU_CACHE_4 /\ CornerWords[t] = LruCacheCorners
    BY <1>21 DEF TASK_REGISTRY, CornerWords
  <2>2. Cases(t) = 6 + LRU_CACHE_4.random
    BY <2>1, CornersCounted DEF Cases
  <2> QED
    BY <2>1, <2>2 DEF LRU_CACHE_4
<1>22. ASSUME t = "pipeline_hazard_3"
      PROVE  TASK_REGISTRY[t].baseline_cycles \in Cases(t) .. Cases(t) * TASK_REGISTRY[t].max_cycles_per_case
  <2>1. TASK_REGISTRY[t] = PIPELINE_HAZARD_3 /\ CornerWords[t] = PipelineHazardCorners
    BY <1>22 DEF TASK_REGISTRY, CornerWords
  <2>2. Cases(t) = 5 + PIPELINE_HAZARD_3.random
    BY <2>1, CornersCounted DEF Cases
  <2> QED
    BY <2>1, <2>2 DEF PIPELINE_HAZARD_3
<1> QED
  BY <1>1, <1>2, <1>3, <1>4, <1>5, <1>6, <1>7, <1>8, <1>9, <1>10, <1>11, <1>12, <1>13, <1>14, <1>15, <1>16, <1>17, <1>18, <1>19, <1>20, <1>21, <1>22, TheTasks

-----------------------------------------------------------------------------
(***************************************************************************)
(* The locals stay in the ranges of the loops: no array is read beyond its *)
(* end, no count outgrows its result.                                      *)
(***************************************************************************)
THEOREM TypeCorrect == Spec => []TypeOK
<1>1. IInv => TypeOK
  BY DEF IInv, Kept
<1> QED
  BY <1>1, InductiveInvariant, PTL

(***************************************************************************)
(* Where the loops stand, whatever the word.                               *)
(***************************************************************************)
THEOREM OraclesLoopInv == Spec => []LoopInv
<1>1. IInv => LoopInv
  BY DEF IInv, Kept
<1> QED
  BY <1>1, InductiveInvariant, PTL

(***************************************************************************)
(* Every oracle returns what the prompt of its task asks for, for every    *)
(* word the generators can draw.                                           *)
(***************************************************************************)
THEOREM OraclesAsDescribed == Spec => []AsDescribed
<1>1. IInv => AsDescribed
  BY DEF IInv, Answer, AsDescribed
<1> QED
  BY <1>1, InductiveInvariant, PTL

(***************************************************************************)
(* No expected word is cut off by the testbench, and every baseline is in  *)
(* reach.                                                                  *)
(***************************************************************************)
THEOREM OraclesFit == Spec => []OutputFits
<1>1. IInv => OutputFits
  BY BaselineInReach DEF IInv, Kept, TypeOK, Answer, OutputFits
<1> QED
  BY <1>1, InductiveInvariant, PTL
=============================================================================
