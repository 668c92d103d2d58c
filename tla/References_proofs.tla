-------------------------- MODULE References_proofs --------------------------
(***************************************************************************)
(* The reference designs answer as the oracles do, for every width up to   *)
(* the real one and every vector set a generator can draw.  TLC follows    *)
(* single runs of the designs; here every iteration of every design is     *)
(* shown to keep what the next one needs.                                  *)
(*                                                                         *)
(*   1. the oracles of Tasks, which are recursive functions and folds:     *)
(*      what they return, for every width and every input                  *)
(*   2. XMid: what the registers of design X hold after n iterations;      *)
(*      IInv, the inductive invariant, says that of every state            *)
(*   3. for each design, XBegins, XIterates and XEnds: about its           *)
(*      operators alone, with no state                                     *)
(*   4. XIs and XRight: the same of the state variables, for the one       *)
(*      design of the run                                                  *)
(*   5. every action keeps IInv, and what follows from it: TypeOK,         *)
(*      Correct, ChargedAsBaseline, LoopInv, AsDescribed, DrivenByHarness  *)
(***************************************************************************)
EXTENDS References, Mathematics_proofs

-----------------------------------------------------------------------------
\* Words of bits.

\* The digits of x >> 1,
LEMMA ShiftedRightBits ==
  ASSUME NEW B, 0 \in B, NEW w \in Nat \ {0}, NEW x \in [1 .. w -> B]
  PROVE  /\ ShiftedRight(x) \in [1 .. w -> B]
         /\ \A i \in 1 .. w : ShiftedRight(x)[i] = IF i = w THEN 0 ELSE x[i + 1]
<1>1. x \in Seq(B) /\ Len(x) = w
  OBVIOUS
<1>2. Tail(x) \in Seq(B) /\ Len(Tail(x)) = w - 1 /\ \A i \in 1 .. w - 1 : Tail(x)[i] = x[i + 1]
  BY <1>1
<1>3. <<0>> \in Seq(B) /\ Len(<<0>>) = 1 /\ <<0>>[1] = 0
  OBVIOUS
<1>4. ShiftedRight(x) \in [1 .. w -> B]
  <2>1. ShiftedRight(x) \in Seq(B) /\ Len(ShiftedRight(x)) = w
    BY <1>2, <1>3 DEF ShiftedRight
  <2> QED
    BY <2>1, SequencesAsBits
<1>5. ASSUME NEW i \in 1 .. w
      PROVE  ShiftedRight(x)[i] = IF i = w THEN 0 ELSE x[i + 1]
  BY <1>2, <1>3 DEF ShiftedRight
<1> QED
  BY <1>4, <1>5

\* and of x << 1 with b shifted in.
LEMMA ShiftedInBits ==
  ASSUME NEW B, NEW b \in B, NEW w \in Nat \ {0}, NEW x \in [1 .. w -> B]
  PROVE  /\ <<b>> \o Front(x) \in [1 .. w -> B]
         /\ \A i \in 1 .. w : (<<b>> \o Front(x))[i] = IF i = 1 THEN b ELSE x[i - 1]
<1>1. x \in Seq(B) /\ Len(x) = w
  OBVIOUS
<1>2. Front(x) \in Seq(B) /\ Len(Front(x)) = w - 1 /\ \A i \in 1 .. w - 1 : Front(x)[i] = x[i]
  BY <1>1 DEF Front
<1>3. <<b>> \in Seq(B) /\ Len(<<b>>) = 1 /\ <<b>>[1] = b
  OBVIOUS
<1>4. <<b>> \o Front(x) \in [1 .. w -> B]
  <2>1. <<b>> \o Front(x) \in Seq(B) /\ Len(<<b>> \o Front(x)) = w
    BY <1>2, <1>3
  <2> QED
    BY <2>1, SequencesAsBits
<1>5. ASSUME NEW i \in 1 .. w
      PROVE  (<<b>> \o Front(x))[i] = IF i = 1 THEN b ELSE x[i - 1]
  BY <1>2, <1>3
<1> QED
  BY <1>4, <1>5

\* A remainder by 2 is a bit.
LEMMA ModTwo == \A n \in Int : n % 2 \in Bit
BY DEF Bit

\* The bits of an exclusive or.
LEMMA XorBits ==
  ASSUME NEW w \in Nat, NEW x \in Bits(w), NEW key, \A i \in 1 .. w : key[i] \in Bit
  PROVE  Xor(x, key) \in Bits(w) /\ \A i \in 1 .. w : Xor(x, key)[i] = (x[i] + key[i]) % 2
<1>1. DOMAIN x = 1 .. w /\ \A i \in 1 .. w : x[i] \in Bit
  BY DEF Bits
<1>2. \A i \in 1 .. w : (x[i] + key[i]) % 2 \in Bit
  BY <1>1 DEF Bit
<1> QED
  BY <1>1, <1>2 DEF Xor, Bits

-----------------------------------------------------------------------------
\* crc8, adler32 and bitrev16: their oracles are folds over the input.

\* A crc stays a crc (eight bits),
LEMMA CrcBitType ==
  ASSUME NEW crc \in Bits(8), NEW bit
  PROVE  CrcBit(crc, bit) \in Bits(8)
<1>1. ShiftedRight(crc) \in Bits(8)
  <2>1. crc \in [1 .. 8 -> Bit] /\ 0 \in Bit /\ 8 \in Nat \ {0}
    BY DEF Bits, Bit
  <2> QED
    BY <2>1, ShiftedRightBits DEF Bits
<1>2. \A i \in 1 .. 8 : CrcPoly[i] \in Bit
  BY DEF CrcPoly, Bit
<1>3. Xor(ShiftedRight(crc), CrcPoly) \in Bits(8)
  BY <1>1, <1>2, XorBits
<1> QED
  BY <1>1, <1>3 DEF CrcBit

\* and the oracle of crc8 is what any sequence F of crcs arrives at that takes in
\* one bit after the other: the design is such a sequence.
LEMMA FoldLeftCrc ==
  ASSUME NEW n \in Nat, NEW x \in [1 .. n -> Bit], NEW F,
         F[0] \in Bits(8), \A k \in 0 .. n - 1 : F[k + 1] = CrcBit(F[k], x[k + 1])
  PROVE  FoldLeft(CrcBit, F[0], x) = F[n]
<1> DEFINE Fold(it) == [s \in SUBSET (DOMAIN x) |->
                          IF s = {} THEN F[0] ELSE CrcBit(it[s \ {Max(s)}], x[Max(s)])]
           c == CHOOSE it : it = Fold(it)
           h == [p \in (1 .. n) \X Bits(8) |-> CrcBit(p[2], x[p[1]])]
<1>1. FoldLeft(CrcBit, F[0], x) = c[DOMAIN x]
  BY DEF FoldLeft, MapThenFoldSet
<1>2. DOMAIN x = 1 .. n
  OBVIOUS
<1>3. \A k \in 1 .. n, s \in Bits(8) : h[<<k, s>>] = CrcBit(s, x[k])
  OBVIOUS
<1>4. \A k \in 1 .. n, s \in Bits(8) : h[<<k, s>>] \in Bits(8)
  BY <1>3, CrcBitType
<1> HIDE DEF h
<1>5. PICK it \in [SUBSET (1 .. n) -> Bits(8)] : it = FoldStep(n, Bits(8), F[0], h, it)
  BY <1>4, FoldExists
<1>6. it = Fold(it)
  <2>1. ASSUME NEW s \in SUBSET (1 .. n), s # {}
        PROVE  h[<<Max(s), it[s \ {Max(s)}]>>] = CrcBit(it[s \ {Max(s)}], x[Max(s)])
    <3>1. Max(s) \in 1 .. n /\ s \ {Max(s)} \in SUBSET (1 .. n)
      BY <2>1, MaxOfIndices
    <3>2. it[s \ {Max(s)}] \in Bits(8)
      BY <3>1
    <3> QED
      BY <1>3, <3>1, <3>2
  <2> QED
    BY <1>2, <1>5, <2>1 DEF FoldStep
<1>7. c = Fold(c)
  BY <1>6
<1> HIDE DEF c
<1>8. c[{}] = F[0]
  BY <1>7
<1>9. ASSUME NEW k \in 0 .. n - 1, c[1 .. k] = F[k]
      PROVE  c[1 .. k + 1] = F[k + 1]
  <2>1. 1 .. k + 1 \in SUBSET (DOMAIN x)
    BY <1>2
  <2>2. 1 .. k + 1 # {} /\ Max(1 .. k + 1) = k + 1 /\ (1 .. k + 1) \ {k + 1} = 1 .. k
    <3>1. k \in Nat
      OBVIOUS
    <3> QED
      BY <3>1, IndicesNext
  <2>3. c[1 .. k + 1] = CrcBit(c[1 .. k], x[k + 1])
    <3> DEFINE s == 1 .. k + 1
    <3>1. c[s] = IF s = {} THEN F[0] ELSE CrcBit(c[s \ {Max(s)}], x[Max(s)])
      <4> HIDE DEF s
      <4> QED
        BY <1>7, <2>1 DEF s
    <3> QED
      BY <2>2, <3>1
  <2> QED
    BY <1>9, <2>3
<1>10. c[1 .. n] = F[n]
  BY <1>8, <1>9, FoldOfIndices
<1> QED
  BY <1>1, <1>2, <1>10

\* Remainders and quotients are numbers.
LEMMA ModType ==
  ASSUME NEW n \in Nat, NEW m \in Nat, 0 < m
  PROVE  n % m \in 0 .. m - 1 /\ n % m \in Nat /\ n \div m \in Nat
OBVIOUS

\* The sums of adler32 are residues,
Residues == (0 .. 250) \X (0 .. 250)

\* stay residues,
LEMMA AdlerByteType ==
  ASSUME NEW s \in Residues, NEW byte \in 0 .. 255
  PROVE  AdlerByte(s, byte) \in Residues
<1>1. s[1] \in 0 .. 250 /\ s[2] \in 0 .. 250
  BY DEF Residues
<1>2. s[1] + byte \in Nat /\ 0 < 251
  BY <1>1
<1>3. (s[1] + byte) % 251 \in 0 .. 250
  BY <1>2, ModType
<1>4. s[2] + ((s[1] + byte) % 251) \in Nat
  <2>1. \A m, n \in 0 .. 250 : m + n \in Nat
    OBVIOUS
  <2> QED
    BY <1>1, <1>3, <2>1, Zenon
<1>5. (s[2] + ((s[1] + byte) % 251)) % 251 \in 0 .. 250
  BY <1>2, <1>4, ModType
<1>6. AdlerByte(s, byte) = <<(s[1] + byte) % 251, (s[2] + ((s[1] + byte) % 251)) % 251>>
  BY DEF AdlerByte, MOD
<1> QED
  BY <1>3, <1>5, <1>6 DEF Residues

\* and its oracle is what any sequence of them arrives at that takes in one byte
\* after the other.
LEMMA FoldLeftAdler ==
  ASSUME NEW n \in Nat, NEW x \in [1 .. n -> 0 .. 255], NEW F,
         F[0] \in Residues, \A k \in 0 .. n - 1 : F[k + 1] = AdlerByte(F[k], x[k + 1])
  PROVE  FoldLeft(AdlerByte, F[0], x) = F[n]
<1> DEFINE Fold(it) == [s \in SUBSET (DOMAIN x) |->
                          IF s = {} THEN F[0] ELSE AdlerByte(it[s \ {Max(s)}], x[Max(s)])]
           c == CHOOSE it : it = Fold(it)
           h == [p \in (1 .. n) \X Residues |-> AdlerByte(p[2], x[p[1]])]
<1>1. FoldLeft(AdlerByte, F[0], x) = c[DOMAIN x]
  BY DEF FoldLeft, MapThenFoldSet
<1>2. DOMAIN x = 1 .. n
  OBVIOUS
<1>3. \A k \in 1 .. n, s \in Residues : h[<<k, s>>] = AdlerByte(s, x[k])
  OBVIOUS
<1>4. \A k \in 1 .. n, s \in Residues : h[<<k, s>>] \in Residues
  BY <1>3, AdlerByteType
<1> HIDE DEF h
<1>5. PICK it \in [SUBSET (1 .. n) -> Residues] : it = FoldStep(n, Residues, F[0], h, it)
  BY <1>4, FoldExists
<1>6. it = Fold(it)
  <2>1. ASSUME NEW s \in SUBSET (1 .. n), s # {}
        PROVE  h[<<Max(s), it[s \ {Max(s)}]>>] = AdlerByte(it[s \ {Max(s)}], x[Max(s)])
    <3>1. Max(s) \in 1 .. n /\ s \ {Max(s)} \in SUBSET (1 .. n)
      BY <2>1, MaxOfIndices
    <3>2. it[s \ {Max(s)}] \in Residues
      BY <3>1
    <3> QED
      BY <1>3, <3>1, <3>2
  <2> QED
    BY <1>2, <1>5, <2>1 DEF FoldStep
<1>7. c = Fold(c)
  BY <1>6
<1> HIDE DEF c
<1>8. c[{}] = F[0]
  BY <1>7
<1>9. ASSUME NEW k \in 0 .. n - 1, c[1 .. k] = F[k]
      PROVE  c[1 .. k + 1] = F[k + 1]
  <2>1. 1 .. k + 1 \in SUBSET (DOMAIN x)
    BY <1>2
  <2>2. 1 .. k + 1 # {} /\ Max(1 .. k + 1) = k + 1 /\ (1 .. k + 1) \ {k + 1} = 1 .. k
    <3>1. k \in Nat
      OBVIOUS
    <3> QED
      BY <3>1, IndicesNext
  <2>3. c[1 .. k + 1] = AdlerByte(c[1 .. k], x[k + 1])
    <3> DEFINE s == 1 .. k + 1
    <3>1. c[s] = IF s = {} THEN F[0] ELSE AdlerByte(c[s \ {Max(s)}], x[Max(s)])
      <4> HIDE DEF s
      <4> QED
        BY <1>7, <2>1 DEF s
    <3> QED
      BY <2>2, <3>1
  <2> QED
    BY <1>9, <2>3
<1>10. c[1 .. n] = F[n]
  BY <1>8, <1>9, FoldOfIndices
<1> QED
  BY <1>1, <1>2, <1>10

\* The same for bitrev16, whose oracle puts one bit after the other in front.
LEMMA PrependType ==
  ASSUME NEW s \in Seq(Bit), NEW bit \in Bit
  PROVE  <<bit>> \o s \in Seq(Bit)
OBVIOUS

LEMMA FoldLeftBitrev ==
  ASSUME NEW n \in Nat, NEW x \in [1 .. n -> Bit], NEW F,
         F[0] \in Seq(Bit), \A k \in 0 .. n - 1 : F[k + 1] = <<x[k + 1]>> \o F[k]
  PROVE  FoldLeft(LAMBDA acc, bit : <<bit>> \o acc, F[0], x) = F[n]
<1> DEFINE Fold(it) == [s \in SUBSET (DOMAIN x) |->
                          IF s = {} THEN F[0] ELSE <<x[Max(s)]>> \o it[s \ {Max(s)}]]
           c == CHOOSE it : it = Fold(it)
           h == [p \in (1 .. n) \X Seq(Bit) |-> <<x[p[1]]>> \o p[2]]
<1>1. FoldLeft(LAMBDA acc, bit : <<bit>> \o acc, F[0], x) = c[DOMAIN x]
  BY DEF FoldLeft, MapThenFoldSet
<1>2. DOMAIN x = 1 .. n
  OBVIOUS
<1>3. \A k \in 1 .. n, s \in Seq(Bit) : h[<<k, s>>] = <<x[k]>> \o s
  OBVIOUS
<1>4. \A k \in 1 .. n, s \in Seq(Bit) : h[<<k, s>>] \in Seq(Bit)
  BY <1>3, PrependType
<1> HIDE DEF h
<1>5. PICK it \in [SUBSET (1 .. n) -> Seq(Bit)] : it = FoldStep(n, Seq(Bit), F[0], h, it)
  BY <1>4, FoldExists
<1>6. it = Fold(it)
  <2>1. ASSUME NEW s \in SUBSET (1 .. n), s # {}
        PROVE  h[<<Max(s), it[s \ {Max(s)}]>>] = <<x[Max(s)]>> \o it[s \ {Max(s)}]
    <3>1. Max(s) \in 1 .. n /\ s \ {Max(s)} \in SUBSET (1 .. n)
      BY <2>1, MaxOfIndices
    <3>2. it[s \ {Max(s)}] \in Seq(Bit)
      BY <3>1
    <3> QED
      BY <1>3, <3>1, <3>2
  <2> QED
    BY <1>2, <1>5, <2>1 DEF FoldStep
<1>7. c = Fold(c)
  BY <1>6
<1> HIDE DEF c
<1>8. c[{}] = F[0]
  BY <1>7
<1>9. ASSUME NEW k \in 0 .. n - 1, c[1 .. k] = F[k]
      PROVE  c[1 .. k + 1] = F[k + 1]
  <2>1. 1 .. k + 1 \in SUBSET (DOMAIN x)
    BY <1>2
  <2>2. 1 .. k + 1 # {} /\ Max(1 .. k + 1) = k + 1 /\ (1 .. k + 1) \ {k + 1} = 1 .. k
    <3>1. k \in Nat
      OBVIOUS
    <3> QED
      BY <3>1, IndicesNext
  <2>3. c[1 .. k + 1] = <<x[k + 1]>> \o c[1 .. k]
    <3> DEFINE s == 1 .. k + 1
    <3>1. c[s] = IF s = {} THEN F[0] ELSE <<x[Max(s)]>> \o c[s \ {Max(s)}]
      <4> HIDE DEF s
      <4> QED
        BY <1>7, <2>1 DEF s
    <3> QED
      BY <2>2, <3>1
  <2> QED
    BY <1>9, <2>3
<1>10. c[1 .. n] = F[n]
  BY <1>8, <1>9, FoldOfIndices
<1> QED
  BY <1>1, <1>2, <1>10

-----------------------------------------------------------------------------
\* gcd16: the oracle.

\* The loop of _gcd,
EuclidStep(F) ==
  [p \in Nat \X Nat |-> LET x == p[1]
                            y == p[2]
                        IN  IF y = 0 THEN x ELSE F[<<y, x % y>>]]

\* which ends: the oracle satisfies its recursion,
LEMMA EuclidIsRecursive == Euclid = EuclidStep(Euclid)
<1> DEFINE P == Nat \X Nat
           stop == {p \in P : p[2] = 0}
           v == [p \in P |-> p[1]]
           next == [p \in P |-> <<p[2], p[1] % p[2]>>]
           m == [p \in P |-> p[2]]
<1>1. \A p \in P : m[p] = p[2] /\ v[p] = p[1] /\ next[p] = <<p[2], p[1] % p[2]>>
  OBVIOUS
<1>2. \A p \in P : p[1] \in Nat /\ p[2] \in Nat /\ (p \in stop <=> p[2] = 0)
  OBVIOUS
<1>3. \A p \in P \ stop : next[p] \in P /\ m[next[p]] < m[p]
  BY ModType
<1>4. \A F : TailStep(P, stop, v, next, F) = EuclidStep(F)
  BY DEF TailStep, EuclidStep
<1>5. \A p \in P : m[p] \in Nat /\ v[p] \in Nat
  BY <1>1, <1>2
<1> HIDE DEF P, stop, v, next, m
<1>6. PICK F : F \in [P -> Nat] /\ F = TailStep(P, stop, v, next, F)
  BY <1>3, <1>5, TailRecursion, Zenon
<1>7. F = EuclidStep(F)
  BY <1>4, <1>6
<1>8. Euclid = CHOOSE E : E = EuclidStep(E)
  BY DEF Euclid, EuclidStep
<1> QED
  BY <1>7, <1>8

\* in the form in which it is used.
LEMMA GcdNext ==
  ASSUME NEW x \in Nat, NEW y \in Nat
  PROVE  Gcd(x, y) = IF y = 0 THEN x ELSE Gcd(y, x % y)
<1>1. Euclid[<<x, y>>] = IF y = 0 THEN x ELSE Euclid[<<y, x % y>>]
  BY EuclidIsRecursive DEF EuclidStep
<1> QED
  BY <1>1 DEF Gcd

\* The oracle of gcd16 is a number.
LEMMA GcdNat == \A y, x \in Nat : Gcd(x, y) \in Nat
<1> DEFINE S == {n \in Nat : \A y, x \in Nat : y <= n => Gcd(x, y) \in Nat}
<1>1. 0 \in S
  BY GcdNext
<1>2. ASSUME NEW n \in Nat, n \in S
      PROVE  n + 1 \in S
  <2>1. ASSUME NEW y \in Nat, NEW x \in Nat, y <= n + 1
        PROVE  Gcd(x, y) \in Nat
    <3>1. CASE y = 0
      BY <3>1, GcdNext
    <3>2. CASE y # 0
      <4>1. x % y \in Nat /\ x % y <= n
        BY <2>1, <3>2, Division
      <4>2. Gcd(y, x % y) \in Nat
        BY <1>2, <4>1
      <4> QED
        BY <3>2, <4>2, GcdNext
    <3> QED
      BY <3>1, <3>2
  <2> QED
    BY <2>1
<1> HIDE DEF S
<1>3. \A n \in Nat : n \in S
  BY <1>1, <1>2, Induction
<1> TAKE y, x \in Nat
<1>4. y \in S
  BY <1>3
<1> QED
  BY <1>4 DEF S

\* An iteration of _gcd keeps the common divisors:
LEMMA DivisorsNext ==
  ASSUME NEW d \in Nat, NEW x \in Nat, NEW y \in Nat, y # 0
  PROVE  Divides(d, x) /\ Divides(d, y) <=> Divides(d, y) /\ Divides(d, x % y)
<1> DEFINE q == x \div y
           r == x % y
<1>1. x = q * y + r /\ q \in Nat /\ r \in Nat
  BY Division
<1> HIDE DEF q, r
<1>2. ASSUME Divides(d, x), Divides(d, y)
      PROVE  Divides(d, r)
  <2>1. Divides(d, q * y)
    BY <1>1, <1>2, DividesProduct
  <2>2. q * y \in Nat /\ q * y <= x /\ x - q * y = r
    BY <1>1
  <2> QED
    BY <1>2, <2>1, <2>2, DividesDifference
<1>3. ASSUME Divides(d, y), Divides(d, r)
      PROVE  Divides(d, x)
  BY <1>1, <1>3, DividesSum
<1> QED
  BY <1>2, <1>3 DEF r

\* those of x and y are the divisors of the oracle.
LEMMA GcdDivisors ==
  \A y, x \in Nat : \A d \in Nat :
    Divides(d, x) /\ Divides(d, y) <=> Divides(d, Gcd(x, y))
<1> DEFINE S == {n \in Nat : \A y, x \in Nat : y <= n =>
                   \A d \in Nat : Divides(d, x) /\ Divides(d, y) <=> Divides(d, Gcd(x, y))}
<1>1. ASSUME NEW d \in Nat, NEW x \in Nat, NEW y \in Nat, y = 0
      PROVE  Divides(d, x) /\ Divides(d, y) <=> Divides(d, Gcd(x, y))
  <2>1. Divides(d, 0)
    <3>1. 0 = 0 * d
      OBVIOUS
    <3> QED
      BY <3>1 DEF Divides
  <2> QED
    BY <1>1, <2>1, GcdNext
<1>2. 0 \in S
  BY <1>1
<1>3. ASSUME NEW n \in Nat, n \in S
      PROVE  n + 1 \in S
  <2>1. ASSUME NEW y \in Nat, NEW x \in Nat, y <= n + 1, NEW d \in Nat
        PROVE  Divides(d, x) /\ Divides(d, y) <=> Divides(d, Gcd(x, y))
    <3>1. CASE y # 0
      <4>1. x % y \in Nat /\ x % y <= n
        BY <2>1, <3>1, Division
      <4>2. Divides(d, y) /\ Divides(d, x % y) <=> Divides(d, Gcd(y, x % y))
        BY <1>3, <4>1
      <4>3. Gcd(x, y) = Gcd(y, x % y)
        BY <3>1, GcdNext
      <4> QED
        BY <3>1, <4>2, <4>3, DivisorsNext
    <3> QED
      BY <3>1, <1>1
  <2> QED
    BY <2>1
<1> HIDE DEF S
<1>4. \A n \in Nat : n \in S
  BY <1>2, <1>3, Induction
<1> QED
  BY <1>4 DEF S

\* Every number divides itself.
LEMMA DividesItself == \A n \in Nat : Divides(n, n)
<1> TAKE n \in Nat
<1>1. n = 1 * n
  OBVIOUS
<1> QED
  BY <1>1 DEF Divides

\* x and y have the common divisors of u and v,
SameCommonDivisors(x, y, u, v) ==
  \A d \in Nat : Divides(d, x) /\ Divides(d, y) <=> Divides(d, u) /\ Divides(d, v)

\* and then also their greatest one: to show that two greatest divisors are equal,
\* no recursion has to be followed.
LEMMA SameDivisors ==
  ASSUME NEW x \in Nat, NEW y \in Nat, NEW u \in Nat, NEW v \in Nat,
         SameCommonDivisors(x, y, u, v)
  PROVE  Gcd(x, y) = Gcd(u, v)
<1> DEFINE g == Gcd(x, y)
           h == Gcd(u, v)
<1>1. g \in Nat /\ h \in Nat
  BY GcdNat
<1>2. \A d \in Nat : Divides(d, g) <=> Divides(d, h)
  BY GcdDivisors DEF SameCommonDivisors
<1> HIDE DEF g, h
<1>3. Divides(g, h) /\ Divides(h, g)
  BY <1>1, <1>2, DividesItself
<1>4. g = 0 \/ h = 0 => g = h
  BY <1>1, <1>3 DEF Divides
<1>5. g # 0 /\ h # 0 => g <= h /\ h <= g
  BY <1>1, <1>3, DividesBounds
<1>6. g = h
  BY <1>1, <1>4, <1>5
<1> QED
  BY <1>6 DEF g, h

\* The steps of the binary algorithm that the design gcd16 takes: two even numbers,
LEMMA GcdDoubled == \A y, x \in Nat : Gcd(2 * x, 2 * y) = 2 * Gcd(x, y)
<1> DEFINE S == {n \in Nat : \A y, x \in Nat : y <= n => Gcd(2 * x, 2 * y) = 2 * Gcd(x, y)}
<1>1. ASSUME NEW x \in Nat, NEW y \in Nat, y = 0
      PROVE  Gcd(2 * x, 2 * y) = 2 * Gcd(x, y)
  <2>1. 2 * x \in Nat /\ 2 * y = 0
    BY <1>1
  <2>2. Gcd(2 * x, 2 * y) = 2 * x
    BY <2>1, GcdNext
  <2>3. Gcd(x, y) = x
    BY <1>1, GcdNext
  <2> QED
    BY <2>2, <2>3
<1>2. 0 \in S
  BY <1>1
<1>3. ASSUME NEW n \in Nat, n \in S
      PROVE  n + 1 \in S
  <2>1. ASSUME NEW y \in Nat, NEW x \in Nat, y <= n + 1, y # 0
        PROVE  Gcd(2 * x, 2 * y) = 2 * Gcd(x, y)
    <3> DEFINE r == x % y
    <3>1. r \in Nat /\ r <= n
      BY <2>1, Division
    <3>2. (2 * x) % (2 * y) = 2 * r
      <4>1. x = (x \div y) * y + r /\ x \div y \in Nat /\ r < y
        BY <2>1, Division
      <4> DEFINE q == x \div y
      <4> HIDE DEF q, r
      <4>2. 2 * x = q * (2 * y) + 2 * r
        BY <4>1, <3>1 DEF q
      <4>3. 0 <= 2 * r /\ 2 * r < 2 * y /\ q \in Nat
        BY <4>1, <3>1 DEF q
      <4>4. \A a, b, c, e \in Nat : a = e * b + c /\ c < b => a % b = c
        OBVIOUS
      <4>5. 2 * x \in Nat /\ 2 * y \in Nat /\ 2 * r \in Nat
        BY <3>1
      <4> QED
        BY <4>2, <4>3, <4>4, <4>5
    <3> HIDE DEF r
    <3>3. Gcd(2 * x, 2 * y) = Gcd(2 * y, 2 * r)
      <4>1. 2 * x \in Nat /\ 2 * y \in Nat /\ 2 * y # 0
        BY <2>1
      <4> QED
        BY <4>1, <3>2, GcdNext
    <3>4. Gcd(2 * y, 2 * r) = 2 * Gcd(y, r)
      BY <1>3, <3>1
    <3>5. Gcd(x, y) = Gcd(y, r)
      BY <2>1, GcdNext DEF r
    <3> QED
      BY <3>3, <3>4, <3>5
  <2> QED
    BY <2>1, <1>1
<1> HIDE DEF S
<1>4. \A n \in Nat : n \in S
  BY <1>2, <1>3, Induction
<1> TAKE y, x \in Nat
<1>5. y \in S
  BY <1>4
<1> QED
  BY <1>5 DEF S

\* (what halving does to even and odd numbers)
LEMMA HalvedOrNot ==
  ASSUME NEW n \in Nat
  PROVE  /\ n \div 2 \in Nat
         /\ n % 2 = 0 => n = 2 * (n \div 2)
         /\ n % 2 # 0 => n % 2 = 1 /\ n = 2 * (n \div 2) + 1
OBVIOUS

\* (a divisor of an odd number divides 2 * x only if it divides x)
LEMMA OddDivisor ==
  ASSUME NEW d \in Nat, NEW x \in Nat, NEW y \in Nat, y % 2 = 1,
         Divides(d, 2 * x), Divides(d, y)
  PROVE  Divides(d, x)
<1>1. PICK i \in Nat : 2 * x = i * d
  BY DEF Divides
<1>2. PICK j \in Nat : y = j * d
  BY DEF Divides
<1>3. PICK c \in Nat : d = 2 * c \/ d = 2 * c + 1
  BY HalvedOrNot
<1>4. d = 2 * c + 1
  <2>1. ASSUME d = 2 * c
        PROVE  FALSE
    <3>1. y = 2 * (j * c) /\ j * c \in Nat
      BY <1>2, <2>1
    <3> QED
      BY <3>1
  <2> QED
    BY <1>3, <2>1
<1>5. PICK k \in Nat : i = 2 * k \/ i = 2 * k + 1
  BY HalvedOrNot
<1>6. CASE i = 2 * k
  <2>1. x = k * d
    BY <1>1, <1>6
  <2> QED
    BY <2>1 DEF Divides
<1>7. CASE i = 2 * k + 1
  <2>1. (2 * k + 1) * (2 * c + 1) = 2 * (2 * (k * c) + k + c) + 1
    OBVIOUS
  <2>2. 2 * (k * c) + k + c \in Nat
    OBVIOUS
  <2>3. \A m, n \in Nat : 2 * m # 2 * n + 1
    OBVIOUS
  <2> QED
    BY <1>1, <1>4, <1>7, <2>1, <2>2, <2>3
<1> QED
  BY <1>5, <1>6, <1>7

\* two numbers in the other order,
LEMMA GcdSymmetric ==
  ASSUME NEW x \in Nat, NEW y \in Nat
  PROVE  Gcd(x, y) = Gcd(y, x)
BY SameDivisors DEF SameCommonDivisors

\* one even number,
LEMMA GcdOddOther ==
  ASSUME NEW x \in Nat, NEW y \in Nat, y % 2 = 1
  PROVE  Gcd(2 * x, y) = Gcd(x, y)
<1>1. PICK u \in Nat : u = 2 * x
  OBVIOUS
<1>2. ASSUME NEW d \in Nat
      PROVE  Divides(d, u) /\ Divides(d, y) <=> Divides(d, x) /\ Divides(d, y)
  <2>1. Divides(d, x) => Divides(d, u)
    BY <1>1, DividesProduct
  <2> QED
    BY <1>1, <2>1, OddDivisor
<1>3. SameCommonDivisors(u, y, x, y)
  BY <1>2 DEF SameCommonDivisors
<1>4. Gcd(u, y) = Gcd(x, y)
  BY <1>3, SameDivisors
<1> QED
  BY <1>1, <1>4

\* and two odd ones.
LEMMA GcdDifference ==
  ASSUME NEW x \in Nat, NEW y \in Nat, y <= x
  PROVE  Gcd(x - y, y) = Gcd(x, y)
<1>1. x - y \in Nat
  OBVIOUS
<1>2. ASSUME NEW d \in Nat
      PROVE  Divides(d, x - y) /\ Divides(d, y) <=> Divides(d, x) /\ Divides(d, y)
  <2>1. ASSUME Divides(d, x), Divides(d, y)
        PROVE  Divides(d, x - y)
    BY <2>1, DividesDifference
  <2>2. ASSUME Divides(d, x - y), Divides(d, y)
        PROVE  Divides(d, x)
    <3>1. Divides(d, 1 * (x - y) + y)
      BY <1>1, <2>2, DividesSum
    <3>2. 1 * (x - y) + y = x
      OBVIOUS
    <3> QED
      BY <3>1, <3>2
  <2> QED
    BY <2>1, <2>2
<1> QED
  BY <1>1, <1>2, SameDivisors DEF SameCommonDivisors

LEMMA GcdOfOdds ==
  ASSUME NEW x \in Nat, NEW y \in Nat, x % 2 = 1, y % 2 = 1, y <= x
  PROVE  Gcd((x - y) \div 2, y) = Gcd(x, y)
<1> DEFINE h == (x - y) \div 2
<1>1. h \in Nat /\ x - y = 2 * h
  OBVIOUS
<1> HIDE DEF h
<1>2. Gcd(h, y) = Gcd(2 * h, y)
  BY <1>1, GcdOddOther, Zenon
<1>3. Gcd(x - y, y) = Gcd(x, y)
  BY GcdDifference
<1> QED
  BY <1>1, <1>2, <1>3 DEF h

\* The greatest common divisor of x is at least 1 and at most x.
LEMMA GcdBounds ==
  ASSUME NEW x \in Nat, NEW y \in Nat, x # 0
  PROVE  1 <= Gcd(x, y) /\ Gcd(x, y) <= x
<1>1. Gcd(x, y) \in Nat
  BY GcdNat
<1>2. Divides(Gcd(x, y), x)
  BY <1>1, GcdDivisors, DividesItself
<1> QED
  BY <1>1, <1>2, DividesBounds

\* The oracle of gcd16 is the greatest of the common divisors (tasks.py: _gcd).
LEMMA GcdIsGreatest ==
  ASSUME NEW x \in Nat, NEW y \in Nat, x # 0
  PROVE  Gcd(x, y) = Max({n \in 1 .. x : x % n = 0 /\ y % n = 0})
<1> DEFINE g == Gcd(x, y)
           D == {n \in 1 .. x : x % n = 0 /\ y % n = 0}
<1>1. g \in 1 .. x
  BY GcdBounds, GcdNat
<1>2. \A n \in 1 .. x : n \in D <=> Divides(n, x) /\ Divides(n, y)
  BY DividesAsMod
<1>3. \A n \in 1 .. x : n \in D <=> Divides(n, g)
  <2>1. \A n \in 1 .. x : n \in Nat
    OBVIOUS
  <2> QED
    BY <1>2, <2>1, GcdDivisors
<1>4. D \subseteq 1 .. x
  OBVIOUS
<1> HIDE DEF g, D
<1>5. g \in D
  BY <1>1, <1>3, DividesItself
<1>6. \A n \in D : n <= g
  BY <1>1, <1>3, <1>4, DividesBounds
<1>7. Max(D) \in D /\ \A n \in D : n <= Max(D)
  <2>1. D \subseteq 0 .. x /\ D # {}
    BY <1>4, <1>5
  <2> QED
    BY <2>1, Greatest, Zenon
<1>8. Max(D) \in Nat /\ g \in Nat /\ g <= Max(D) /\ Max(D) <= g
  <2>1. Max(D) \in 1 .. x
    BY <1>4, <1>7
  <2> QED
    BY <1>1, <1>5, <1>6, <1>7, <2>1
<1>9. g = Max(D)
  BY <1>8
<1> QED
  BY <1>9 DEF g, D

-----------------------------------------------------------------------------
\* isqrt32: the oracle.

\* The loop of _isqrt32
SearchStep(x, F) ==
  [p \in Nat \X Nat |->
     LET lo  == p[1]
         hi  == p[2]
         mid == (lo + hi + 1) \div 2
     IN  IF lo >= hi THEN lo
         ELSE IF mid * mid <= x THEN F[<<mid, hi>>] ELSE F[<<lo, mid - 1>>]]

\* and the function it defines.
Search(x) == CHOOSE F : F = SearchStep(x, F)

\* The middle of an interval is in its upper half.
LEMMA Middle ==
  ASSUME NEW lo \in Nat, NEW hi \in Nat, lo < hi
  PROVE  /\ (lo + hi + 1) \div 2 \in Nat /\ lo < (lo + hi + 1) \div 2
         /\ (lo + hi + 1) \div 2 <= hi
OBVIOUS

\* The loop ends,
LEMMA SearchIsRecursive == \A x : Search(x) = SearchStep(x, Search(x))
<1> TAKE x
<1> DEFINE P == Nat \X Nat
           mid(p) == (p[1] + p[2] + 1) \div 2
           stop == {p \in P : p[1] >= p[2]}
           v == [p \in P |-> p[1]]
           next == [p \in P |-> IF mid(p) * mid(p) <= x THEN <<mid(p), p[2]>>
                                ELSE <<p[1], mid(p) - 1>>]
           m == [p \in P |-> IF p[1] >= p[2] THEN 0 ELSE p[2] - p[1]]
<1>1. \A p \in P : p[1] \in Nat /\ p[2] \in Nat /\ (p \in stop <=> p[1] >= p[2])
  OBVIOUS
<1>2. \A p \in P : m[p] \in Nat /\ v[p] \in Nat
  BY <1>1
<1>3. ASSUME NEW p \in P \ stop
      PROVE  next[p] \in P /\ m[next[p]] < m[p]
  <2>1. p[1] \in Nat /\ p[2] \in Nat /\ p[1] < p[2]
    BY <1>1
  <2>2. mid(p) \in Nat /\ p[1] < mid(p) /\ mid(p) <= p[2]
    BY <2>1, Middle
  <2>3. m[p] = p[2] - p[1]
    BY <2>1
  <2>4. next[p] = <<mid(p), p[2]>> \/ next[p] = <<p[1], mid(p) - 1>>
    OBVIOUS
  <2>5. \A i, j \in Nat : m[<<i, j>>] = IF i >= j THEN 0 ELSE j - i
    OBVIOUS
  <2> HIDE DEF mid, next, m
  <2>6. mid(p) - 1 \in Nat
    BY <2>1, <2>2
  <2>7. m[<<mid(p), p[2]>>] < m[p] /\ m[<<p[1], mid(p) - 1>>] < m[p]
    BY <2>1, <2>2, <2>3, <2>5, <2>6
  <2> QED
    BY <2>1, <2>2, <2>4, <2>6, <2>7
<1>4. \A F : TailStep(P, stop, v, next, F) = SearchStep(x, F)
  <2> TAKE F
  <2>1. ASSUME NEW p \in P
        PROVE  TailStep(P, stop, v, next, F)[p] = SearchStep(x, F)[p]
    BY DEF TailStep, SearchStep
  <2> QED
    BY <2>1 DEF TailStep, SearchStep
<1> HIDE DEF P, stop, v, next, m
<1>5. PICK F : F \in [P -> Nat] /\ F = TailStep(P, stop, v, next, F)
  BY <1>2, <1>3, TailRecursion, Zenon
<1>6. F = SearchStep(x, F)
  BY <1>4, <1>5
<1> QED
  BY <1>6 DEF Search

\* and satisfies its recursion, in the form in which it is used.
LEMMA SearchNext ==
  ASSUME NEW x, NEW lo \in Nat, NEW hi \in Nat
  PROVE  /\ hi <= lo => Search(x)[<<lo, hi>>] = lo
         /\ lo < hi => LET mid == (lo + hi + 1) \div 2
                       IN  Search(x)[<<lo, hi>>] =
                             IF mid * mid <= x THEN Search(x)[<<mid, hi>>]
                             ELSE Search(x)[<<lo, mid - 1>>]
<1> DEFINE mid == (lo + hi + 1) \div 2
<1>1. ASSUME NEW F
      PROVE  SearchStep(x, F)[<<lo, hi>>] =
               IF lo >= hi THEN lo
               ELSE IF mid * mid <= x THEN F[<<mid, hi>>] ELSE F[<<lo, mid - 1>>]
  BY DEF SearchStep
<1> HIDE DEF mid
<1>2. SearchStep(x, Search(x))[<<lo, hi>>] =
        IF lo >= hi THEN lo
        ELSE IF mid * mid <= x THEN Search(x)[<<mid, hi>>] ELSE Search(x)[<<lo, mid - 1>>]
  BY <1>1
<1>3. Search(x)[<<lo, hi>>] = SearchStep(x, Search(x))[<<lo, hi>>]
  <2>1. Search(x) = SearchStep(x, Search(x))
    BY SearchIsRecursive
  <2> QED
    BY <2>1, Zenon
<1> QED
  BY <1>2, <1>3 DEF mid

\* It is the search of the oracle.
LEMMA IsqrtInIsSearch == \A x, lo, hi : IsqrtIn(x, lo, hi) = Search(x)[<<lo, hi>>]
BY DEF IsqrtIn, Search, SearchStep

\* The root of x.
IsRoot(n, x) == n \in Nat /\ n * n <= x /\ x < (n + 1) * (n + 1)

\* Squares grow with their roots,
LEMMA Squares == \A m, n \in Nat : m <= n => m * m <= n * n
<1> TAKE m, n \in Nat
<1> HAVE m <= n
<1>1. m * m <= m * n
  OBVIOUS
<1>2. m * n <= n * n
  OBVIOUS
<1>3. m * m \in Nat /\ m * n \in Nat /\ n * n \in Nat
  OBVIOUS
<1> QED
  BY <1>1, <1>2, <1>3

\* there is only one root,
LEMMA RootIsUnique ==
  ASSUME NEW x \in Nat, NEW m, NEW n, IsRoot(m, x), IsRoot(n, x)
  PROVE  m = n
<1>1. \A i, j \in Nat : IsRoot(i, x) /\ IsRoot(j, x) => i <= j
  <2> SUFFICES ASSUME NEW i \in Nat, NEW j \in Nat, IsRoot(i, x), IsRoot(j, x), j + 1 <= i
               PROVE  FALSE
    OBVIOUS
  <2>1. j + 1 \in Nat /\ (j + 1) * (j + 1) \in Nat /\ i * i \in Nat
    OBVIOUS
  <2>2. (j + 1) * (j + 1) <= i * i
    BY <2>1, Squares
  <2> QED
    BY <2>1, <2>2 DEF IsRoot
<1> QED
  BY <1>1 DEF IsRoot

\* and the search finds it in every interval it is in.
LEMMA SearchFinds ==
  ASSUME NEW x \in Nat
  PROVE  \A lo, hi \in Nat : lo <= hi /\ lo * lo <= x /\ x < (hi + 1) * (hi + 1)
                               => IsRoot(Search(x)[<<lo, hi>>], x)
<1> DEFINE S == {n \in Nat : \A lo, hi \in Nat :
                   hi - lo <= n /\ lo <= hi /\ lo * lo <= x /\ x < (hi + 1) * (hi + 1)
                     => IsRoot(Search(x)[<<lo, hi>>], x)}
<1>1. ASSUME NEW lo \in Nat, NEW hi \in Nat, lo = hi, lo * lo <= x, x < (hi + 1) * (hi + 1)
      PROVE  IsRoot(Search(x)[<<lo, hi>>], x)
  <2>1. hi <= lo => Search(x)[<<lo, hi>>] = lo
    BY SearchNext, Zenon
  <2> QED
    BY <1>1, <2>1 DEF IsRoot
<1>2. 0 \in S
  <2>1. \A lo, hi \in Nat : hi - lo <= 0 /\ lo <= hi => lo = hi
    OBVIOUS
  <2> QED
    BY <1>1, <2>1
<1>3. ASSUME NEW n \in Nat, n \in S
      PROVE  n + 1 \in S
  <2>1. ASSUME NEW lo \in Nat, NEW hi \in Nat, hi - lo <= n + 1, lo < hi,
               lo * lo <= x, x < (hi + 1) * (hi + 1)
        PROVE  IsRoot(Search(x)[<<lo, hi>>], x)
    <3> DEFINE mid == (lo + hi + 1) \div 2
    <3>1. mid \in Nat /\ lo < mid /\ mid <= hi /\ mid - 1 \in Nat /\ (mid - 1) + 1 = mid
      BY <2>1, Middle
    <3>2. Search(x)[<<lo, hi>>] =
            IF mid * mid <= x THEN Search(x)[<<mid, hi>>] ELSE Search(x)[<<lo, mid - 1>>]
      BY <2>1, SearchNext
    <3> HIDE DEF mid
    <3>3. CASE mid * mid <= x
      <4>1. hi - mid <= n
        BY <2>1, <3>1
      <4>2. IsRoot(Search(x)[<<mid, hi>>], x)
        BY <1>3, <2>1, <3>1, <3>3, <4>1
      <4> QED
        BY <3>2, <3>3, <4>2
    <3>4. CASE ~ (mid * mid <= x)
      <4>1. (mid - 1) - lo <= n /\ lo <= mid - 1
        BY <2>1, <3>1
      <4>2. x < ((mid - 1) + 1) * ((mid - 1) + 1)
        BY <3>1, <3>4
      <4>3. IsRoot(Search(x)[<<lo, mid - 1>>], x)
        BY <1>3, <2>1, <3>1, <4>1, <4>2
      <4> QED
        BY <3>2, <3>4, <4>3
    <3> QED
      BY <3>3, <3>4
  <2>2. \A lo, hi \in Nat : lo <= hi => lo = hi \/ lo < hi
    OBVIOUS
  <2> QED
    BY <1>1, <2>1, <2>2
<1> HIDE DEF S
<1>4. \A n \in Nat : n \in S
  BY <1>2, <1>3, Induction
<1> TAKE lo, hi \in Nat
<1> HAVE lo <= hi /\ lo * lo <= x /\ x < (hi + 1) * (hi + 1)
<1>5. PICK n \in Nat : n = hi - lo
  OBVIOUS
<1>6. n \in S
  BY <1>4
<1>7. \A i, j \in Nat : j - i <= n /\ i <= j /\ i * i <= x /\ x < (j + 1) * (j + 1)
                          => IsRoot(Search(x)[<<i, j>>], x)
  BY <1>6, Zenon DEF S
<1>8. hi - lo <= n
  BY <1>5
<1> QED
  BY <1>7, <1>8, Zenon

\* The oracle of isqrt32 returns the root of every word of 2 * w bits (tasks.py:
\* _isqrt32), the comparison of its 32-bit numbers included.
LEMMA IsqrtIsRoot ==
  ASSUME NEW w \in Nat, NEW x \in Nat, x < 2 ^ w * 2 ^ w
  PROVE  IsRoot(Isqrt(x, w), x)
<1>1. 2 ^ w \in Nat /\ 1 <= 2 ^ w
  BY PowPositive
<1>2. CASE x < 2
  <2>1. x = 0 \/ x = 1
    BY <1>2
  <2> QED
    BY <1>2, <2>1 DEF Isqrt, IsRoot
<1>3. CASE ~ (x < 2)
  <2> DEFINE s == 2 ^ w
             r == Search(x)[<<0, s>>]
  <2>1. x < (s + 1) * (s + 1)
    <3>1. \A a \in Nat : a * a <= (a + 1) * (a + 1)
      OBVIOUS
    <3>2. s * s <= (s + 1) * (s + 1) /\ s * s \in Nat /\ (s + 1) * (s + 1) \in Nat
      BY <1>1, <3>1
    <3> QED
      BY <3>2
  <2>2. IsRoot(r, x)
    <3>1. 0 * 0 <= x /\ 0 <= s
      BY <1>1
    <3> QED
      BY <1>1, <2>1, <3>1, SearchFinds
  <2>3. r < s
    <3>1. r \in Nat /\ r * r <= x /\ s \in Nat
      BY <1>1, <2>2 DEF IsRoot
    <3>2. s <= r => s * s <= r * r
      BY <1>1, <3>1, Squares
    <3>3. r * r \in Nat /\ s * s \in Nat
      BY <3>1
    <3> HIDE DEF r
    <3> QED
      BY <3>1, <3>2, <3>3
  <2>4. Isqrt(x, w) = r % s
    BY <1>3, IsqrtInIsSearch DEF Isqrt
  <2>5. r % s = r
    <3>1. r \in Nat /\ s \in Nat
      BY <1>1, <2>2 DEF IsRoot
    <3> HIDE DEF r, s
    <3> QED
      BY <2>3, <3>1
  <2> QED
    BY <2>2, <2>4, <2>5
<1> QED
  BY <1>2, <1>3

-----------------------------------------------------------------------------
\* crc8 and adler32: what they have after n digits, and what is left.

\* F are the crcs of x, after one bit, two bits and so on.
CrcsOf(F, w, x) ==
  /\ F[0] = CrcInit /\ \A k \in 0 .. w : F[k] \in Bits(8)
  /\ \A k \in 0 .. w - 1 : F[k + 1] = CrcBit(F[k], x[k + 1])

LEMMA CrcsExist ==
  ASSUME NEW w \in Nat, NEW x \in [1 .. w -> Bit]
  PROVE  \E F : CrcsOf(F, w, x)
<1> DEFINE S == Bits(8)
           h == [p \in Nat \X S |-> CrcBit(p[2], x[p[1] + 1])]
<1>1. \A n \in Nat, s \in S : h[<<n, s>>] = CrcBit(s, x[n + 1])
  OBVIOUS
<1>2. \A n \in Nat, s \in S : h[<<n, s>>] \in S
  BY <1>1, CrcBitType
<1>3. CrcInit \in S
  BY DEF CrcInit, Zeros, Bits, Bit
<1> HIDE DEF S, h
<1>4. PICK F : Iterates(S, CrcInit, h, F)
  BY <1>2, <1>3, Recursion
<1>5. F \in [Nat -> S] /\ F[0] = CrcInit /\ \A n \in Nat : F[n + 1] = h[<<n, F[n]>>]
  BY <1>4 DEF Iterates
<1>6. \A k \in Nat : F[k] \in S
  BY <1>5
<1>7. \A k \in Nat : F[k + 1] = CrcBit(F[k], x[k + 1])
  BY <1>1, <1>5, <1>6
<1>8. \A k \in 0 .. w : F[k] \in Bits(8)
  BY <1>6 DEF S
<1>9. CrcsOf(F, w, x)
  BY <1>5, <1>7, <1>8 DEF CrcsOf
<1> QED
  BY <1>9

\* They are the crcs of the first bits of x,
LEMMA CrcOfPrefix ==
  ASSUME NEW w \in Nat, NEW x \in [1 .. w -> Bit], NEW F, CrcsOf(F, w, x), NEW n \in 0 .. w
  PROVE  FoldLeft(CrcBit, CrcInit, SubSeq(x, 1, n)) = F[n]
<1> DEFINE y == SubSeq(x, 1, n)
<1>1. y \in [1 .. n -> Bit] /\ \A i \in 1 .. n : y[i] = x[i]
  BY FirstBits
<1> HIDE DEF y
<1>2. F[0] = CrcInit /\ F[0] \in Bits(8)
  BY DEF CrcsOf
<1>3. \A k \in 0 .. n - 1 : F[k + 1] = CrcBit(F[k], y[k + 1])
  BY <1>1 DEF CrcsOf
<1>4. FoldLeft(CrcBit, F[0], y) = F[n]
  <2>1. n \in Nat
    OBVIOUS
  <2> QED
    BY <1>1, <1>2, <1>3, <2>1, FoldLeftCrc
<1> QED
  BY <1>2, <1>4 DEF y

\* the remaining bits lead on to the last one,
LEMMA CrcOfSuffix ==
  ASSUME NEW w \in Nat, NEW x \in [1 .. w -> Bit], NEW F, CrcsOf(F, w, x), NEW n \in 0 .. w,
         NEW y \in [1 .. w - n -> Bit], \A i \in 1 .. w - n : y[i] = x[i + n]
  PROVE  FoldLeft(CrcBit, F[n], y) = F[w]
<1> DEFINE G == [k \in 0 .. w - n |-> F[n + k]]
<1>1. PICK m \in Nat : m = w - n
  OBVIOUS
<1>2. G[0] = F[n] /\ G[m] = F[w]
  BY <1>1
<1>3. G[0] \in Bits(8)
  BY <1>2 DEF CrcsOf
<1>4. ASSUME NEW k \in 0 .. m - 1
      PROVE  G[k + 1] = CrcBit(G[k], y[k + 1])
  <2>1. G[k + 1] = F[(n + k) + 1] /\ G[k] = F[n + k] /\ n + k \in 0 .. w - 1
    BY <1>1
  <2>2. y[k + 1] = x[(n + k) + 1]
    <3>1. k + 1 \in 1 .. w - n /\ (k + 1) + n = (n + k) + 1
      BY <1>1
    <3> QED
      BY <3>1
  <2> QED
    BY <2>1, <2>2 DEF CrcsOf
<1> HIDE DEF G
<1>5. y \in [1 .. m -> Bit]
  BY <1>1
<1>6. FoldLeft(CrcBit, G[0], y) = G[m]
  BY <1>3, <1>4, <1>5, FoldLeftCrc
<1> QED
  BY <1>2, <1>6

\* which is the result of the oracle of crc8.
LEMMA CrcOfAll ==
  ASSUME NEW w \in Nat, NEW x \in [1 .. w -> Bit], NEW F, CrcsOf(F, w, x)
  PROVE  Crc8(x) = F[w]
<1>1. F[0] = CrcInit /\ F[0] \in Bits(8)
  BY DEF CrcsOf
<1>2. \A k \in 0 .. w - 1 : F[k + 1] = CrcBit(F[k], x[k + 1])
  BY DEF CrcsOf
<1>3. FoldLeft(CrcBit, F[0], x) = F[w]
  BY <1>1, <1>2, FoldLeftCrc
<1> QED
  BY <1>1, <1>3 DEF Crc8

\* The same for adler32, whose input is bytes.
Bytes(w) == [1 .. w -> 0 .. 255]

SumsOf(F, w, x) ==
  /\ F[0] = <<1, 0>> /\ \A k \in 0 .. w : F[k] \in Residues
  /\ \A k \in 0 .. w - 1 : F[k + 1] = AdlerByte(F[k], x[k + 1])

LEMMA SumsExist ==
  ASSUME NEW w \in Nat, NEW x \in Bytes(w)
  PROVE  \E F : SumsOf(F, w, x)
<1> DEFINE S == Residues
           byte == [n \in Nat |-> IF n < w THEN x[n + 1] ELSE 0]
           h == [p \in Nat \X S |-> AdlerByte(p[2], byte[p[1]])]
<1>1. \A n \in Nat, s \in S : h[<<n, s>>] = AdlerByte(s, byte[n])
  OBVIOUS
<1>2. \A n \in Nat : byte[n] \in 0 .. 255
  BY DEF Bytes
<1>3. \A k \in 0 .. w - 1 : byte[k] = x[k + 1]
  OBVIOUS
<1>4. \A n \in Nat, s \in S : h[<<n, s>>] \in S
  <2> HIDE DEF h, byte
  <2> QED
    BY <1>1, <1>2, AdlerByteType
<1>5. <<1, 0>> \in S
  BY DEF Residues
<1> HIDE DEF S, h, byte
<1>6. PICK F : Iterates(S, <<1, 0>>, h, F)
  BY <1>4, <1>5, Recursion
<1>7. F \in [Nat -> S] /\ F[0] = <<1, 0>> /\ \A n \in Nat : F[n + 1] = h[<<n, F[n]>>]
  BY <1>6 DEF Iterates
<1>8. \A k \in Nat : F[k] \in S
  BY <1>7
<1>9. \A k \in Nat : F[k + 1] = AdlerByte(F[k], byte[k])
  BY <1>1, <1>7, <1>8
<1>10. \A k \in 0 .. w - 1 : F[k + 1] = AdlerByte(F[k], x[k + 1])
  BY <1>3, <1>9
<1>11. \A k \in 0 .. w : F[k] \in Residues
  BY <1>8 DEF S
<1>12. SumsOf(F, w, x)
  BY <1>7, <1>10, <1>11 DEF SumsOf
<1> QED
  BY <1>12

LEMMA SumsOfPrefix ==
  ASSUME NEW w \in Nat, NEW x \in Bytes(w), NEW F, SumsOf(F, w, x), NEW n \in 0 .. w
  PROVE  FoldLeft(AdlerByte, <<1, 0>>, SubSeq(x, 1, n)) = F[n]
<1> DEFINE y == SubSeq(x, 1, n)
<1>1. y \in [1 .. n -> 0 .. 255] /\ \A i \in 1 .. n : y[i] = x[i]
  <2>1. PICK B : B = 0 .. 255
    OBVIOUS
  <2>2. x \in [1 .. w -> B]
    BY <2>1 DEF Bytes
  <2>3. y \in [1 .. n -> B] /\ \A i \in 1 .. n : y[i] = x[i]
    BY <2>2, FirstBits
  <2> QED
    BY <2>1, <2>3
<1> HIDE DEF y
<1>2. F[0] = <<1, 0>> /\ F[0] \in Residues
  BY DEF SumsOf
<1>3. \A k \in 0 .. n - 1 : F[k + 1] = AdlerByte(F[k], y[k + 1])
  BY <1>1 DEF SumsOf
<1>4. FoldLeft(AdlerByte, F[0], y) = F[n]
  <2>1. n \in Nat
    OBVIOUS
  <2> QED
    BY <1>1, <1>2, <1>3, <2>1, FoldLeftAdler
<1> QED
  BY <1>2, <1>4 DEF y

LEMMA SumsOfSuffix ==
  ASSUME NEW w \in Nat, NEW x \in Bytes(w), NEW F, SumsOf(F, w, x), NEW n \in 0 .. w,
         NEW y \in Bytes(w - n), \A i \in 1 .. w - n : y[i] = x[i + n]
  PROVE  FoldLeft(AdlerByte, F[n], y) = F[w]
<1> DEFINE G == [k \in 0 .. w - n |-> F[n + k]]
<1>1. PICK m \in Nat : m = w - n
  OBVIOUS
<1>2. G[0] = F[n] /\ G[m] = F[w]
  BY <1>1
<1>3. G[0] \in Residues
  BY <1>2 DEF SumsOf
<1>4. ASSUME NEW k \in 0 .. m - 1
      PROVE  G[k + 1] = AdlerByte(G[k], y[k + 1])
  <2>1. G[k + 1] = F[(n + k) + 1] /\ G[k] = F[n + k] /\ n + k \in 0 .. w - 1
    BY <1>1
  <2>2. y[k + 1] = x[(n + k) + 1]
    <3>1. k + 1 \in 1 .. w - n /\ (k + 1) + n = (n + k) + 1
      BY <1>1
    <3> QED
      BY <3>1
  <2> QED
    BY <2>1, <2>2 DEF SumsOf
<1> HIDE DEF G
<1>5. y \in [1 .. m -> 0 .. 255]
  BY <1>1 DEF Bytes
<1>6. FoldLeft(AdlerByte, G[0], y) = G[m]
  BY <1>3, <1>4, <1>5, FoldLeftAdler
<1> QED
  BY <1>2, <1>6

LEMMA SumsOfAll ==
  ASSUME NEW w \in Nat, NEW x \in Bytes(w), NEW F, SumsOf(F, w, x)
  PROVE  Adler(x) = F[w]
<1>1. F[0] = <<1, 0>> /\ F[0] \in Residues
  BY DEF SumsOf
<1>2. \A k \in 0 .. w - 1 : F[k + 1] = AdlerByte(F[k], x[k + 1])
  BY DEF SumsOf
<1>3. x \in [1 .. w -> 0 .. 255]
  BY DEF Bytes
<1>4. FoldLeft(AdlerByte, F[0], x) = F[w]
  BY <1>1, <1>2, <1>3, FoldLeftAdler
<1> QED
  BY <1>1, <1>4 DEF Adler

-----------------------------------------------------------------------------
(***************************************************************************)
(* The designs after n iterations.                                         *)
(***************************************************************************)

\* Digit i + n of v is digit i of x: n shifts to the right have been made.
Shifted(w, x, v, n) == \A i \in 1 .. w - n : x[i] = v[i + n]

\* popcount32: count are the ones among the digits shifted out.
PopcountMid(w, r, v, n) ==
  /\ n \in 0 .. w - 1 /\ r.idx = n
  /\ r.shift \in Bits(w) /\ Shifted(w, r.shift, v, n)
  /\ r.count = Cardinality({i \in 1 .. n : v[i] = 1})

\* bitrev16: the digits shifted out of in_sr are in out_sr, the first one highest.
BitrevMid(w, r, v, n) ==
  /\ n \in 0 .. w - 1 /\ r.idx = n
  /\ r.in_sr \in Bits(w) /\ Shifted(w, r.in_sr, v, n)
  /\ r.out_sr \in Bits(w) /\ \A i \in 1 .. n : r.out_sr[i] = v[n + 1 - i]

\* Every iteration halves a or b: of their 2 * w bits n are gone.
BitsLeft(w, a, b, n) == \E p, q \in 0 .. w : a < 2 ^ p /\ b < 2 ^ q /\ p + q + n <= 2 * w

\* gcd16: the greatest common divisor of a and b, times the 2s counted in k, is that
\* of the input.
GcdHolds(w, a, b, k, v, n) ==
  /\ a \in Nat /\ b \in Nat /\ a + b # 0
  /\ k \in 0 .. w - 1 /\ n \in 0 .. 2 * w
  /\ Gcd(a, b) * 2 ^ k = Gcd(v[1], v[2])
  /\ BitsLeft(w, a, b, n)

\* The same of the registers.
GcdMid(w, r, v, n) == {"a", "b", "k"} \subseteq DOMAIN r /\ GcdHolds(w, r.a, r.b, r.k, v, n)

\* mul8: product, and the product of what is left of the factors, make the answer.
MulMid(w, r, v, n) ==
  /\ n \in 0 .. w - 1 /\ r.idx = n
  /\ r.mcand = v[1] * 2 ^ n
  /\ r.mplier \in 0 .. 2 ^ (w - n) - 1
  /\ r.product \in Nat /\ r.product + r.mcand * r.mplier = v[1] * v[2]

\* d are the bits of the dividend that have not been shifted out.
DivMid(w, r, v, n) ==
  LET d == r.dividend \div 2 ^ n IN
  /\ {"dividend", "divisor", "rem", "quot", "idx"} \subseteq DOMAIN r
  /\ n \in 0 .. w /\ r.idx = n
  /\ r.divisor = v[2]
  /\ r.rem \in 0 .. v[2] - 1 /\ r.rem < 2 ^ n
  /\ r.quot \in 0 .. 2 ^ n - 1
  /\ r.dividend = d * 2 ^ n /\ d \in 0 .. 2 ^ (w - n) - 1
  /\ (r.quot * v[2] + r.rem) * 2 ^ (w - n) + d = v[1]

\* The bits found so far are those of the root, times s.
IsqrtMid(w, r, v, n) ==
  LET s == 2 ^ (w - n)
      root == r.result \div s
  IN  /\ n \in 0 .. w /\ r.idx = n
      /\ r.n \in Nat /\ root \in Nat
      /\ r.result = root * s /\ root % s = 0
      /\ root * root + r.n = v /\ v < (root + s) * (root + s)
      /\ n < w => r.bit_val = 2 ^ (w - n - 1) * 2 ^ (w - n - 1)

\* crc8: crc is the crc of the digits shifted out.
CrcMid(w, r, v, n) ==
  /\ n \in 0 .. w /\ r.idx = n
  /\ r.shift \in Bits(w) /\ Shifted(w, r.shift, v, n)
  /\ r.crc = FoldLeft(CrcBit, CrcInit, SubSeq(v, 1, n))

\* adler32: s1 and s2 are the sums over the bytes shifted out.
AdlerMid(w, r, v, n) ==
  /\ n \in 0 .. w /\ r.byte_idx = n
  /\ r.data \in Bytes(w) /\ Shifted(w, r.data, v, n)
  /\ <<r.s1, r.s2>> = FoldLeft(AdlerByte, <<1, 0>>, SubSeq(v, 1, n))

\* matvec_2x2_int4: the operands stay, the sums have the products added so far.
MatvecMid(r, v, n) ==
  LET s == [i \in 1 .. 6 |-> SignExtended(v[i], 4)] IN
  /\ {"m00", "m01", "m10", "m11", "v0", "v1", "r0", "r1", "step"} \subseteq DOMAIN r
  /\ n \in 0 .. 4 /\ r.step = n
  /\ r.m00 = s[1] /\ r.m01 = s[2] /\ r.m10 = s[3] /\ r.m11 = s[4]
  /\ r.v0 = s[5] /\ r.v1 = s[6]
  /\ n = 1 => r.r0 = Int8(s[1] * s[5])
  /\ n >= 2 => r.r0 = Int8(Int8(s[1] * s[5]) + s[2] * s[6])
  /\ n = 3 => r.r1 = Int8(s[3] * s[5])
  /\ n = 4 => r.r1 = Int8(Int8(s[3] * s[5]) + s[4] * s[6])

\* ray_hit_2d: the operands stay, and each step has left its dot product.
RayMid(r, v, n) ==
  LET ox == SignExtended(v[1], 8)
      oy == SignExtended(v[2], 8)
      dx == SignExtended(v[3], 4)
      dy == SignExtended(v[4], 4)
  IN  /\ {"ox", "oy", "dx", "dy"} \subseteq DOMAIN r
      /\ n \in 0 .. 4 /\ r.step = n
      /\ r.ox = ox /\ r.oy = oy /\ r.dx = dx /\ r.dy = dy
      /\ n >= 1 => "dd" \in DOMAIN r /\ r.dd = dx * dx + dy * dy
      /\ n >= 2 => "od" \in DOMAIN r /\ r.od = ox * dx + oy * dy
      /\ n >= 3 => "oo" \in DOMAIN r /\ r.oo = ox * ox + oy * oy
      /\ n >= 4 => r.disc = r.od * r.od - r.dd * (r.oo - RadiusSquared)

\* arbiter_rr: the indices passed over have no request.
ArbiterMid(r, v, n) ==
  /\ {"last", "req"} \subseteq DOMAIN r
  /\ n \in 0 .. 7 /\ r.offset = n + 1
  /\ r.last = v[1] /\ r.req = v[2] /\ v[2] # {}
  /\ \A k \in 1 .. n : (v[1] + k) % 8 \notin v[2]

\* The registers r of design d, of width w, after n iterations on input v.
Midway(d, w, r, v, n) ==
  /\ d = "popcount32" => PopcountMid(w, r, v, n)
  /\ d = "bitrev16" => BitrevMid(w, r, v, n)
  /\ d = "gcd16" => GcdMid(w, r, v, n)
  /\ d = "mul8" => MulMid(w, r, v, n)
  /\ d = "div16" => DivMid(w, r, v, n)
  /\ d = "isqrt32" => IsqrtMid(w, r, v, n)
  /\ d = "crc8" => CrcMid(w, r, v, n)
  /\ d = "adler32" => AdlerMid(w, r, v, n)
  /\ d = "matvec_2x2_int4" => MatvecMid(r, v, n)
  /\ d = "ray_hit_2d" => RayMid(r, v, n)
  /\ d = "arbiter_rr" => ArbiterMid(r, v, n)

\* The ranges of the registers (RegsFit of References), of any registers r.
Fit(w, r) ==
  LET Fits(field, bound) == field \in DOMAIN r => r[field] \in 0 .. bound - 1 IN
  /\ Fits("count", 2 * w) /\ Fits("k", w) /\ Fits("idx", w + 1)
  /\ Fits("a", 2 ^ w) /\ Fits("b", 2 ^ w)
  /\ Fits("quot", 2 ^ w) /\ Fits("rem", 2 ^ w)
  /\ Fits("s1", 251) /\ Fits("s2", 251)
  /\ Fits("offset", 10) /\ Fits("step", 6)

\* What a case of design d, of width w, may be charged.
Charged(d, w, n) ==
  /\ d \in {"popcount32", "bitrev16", "mul8"} => n = w + 1
  /\ d \in TwoStage => n = w + 2
  /\ d \in {"matvec_2x2_int4", "ray_hit_2d"} => n = 6
  /\ d = "xor_cipher16" => n = 1
  /\ d = "gcd16" => n \in 1 .. 2 * w + 1
  /\ d = "arbiter_rr" => n \in 1 .. 9

(***************************************************************************)
(* The inductive invariant: the run is what ReferencesAssumption says, the *)
(* testbench is where a right design takes it, and the design is Midway    *)
(* through the current case or has answered it right, in the time it may   *)
(* be charged.                                                             *)
(***************************************************************************)
RunFits ==
  /\ \E r \in Runs : design = r[1] /\ width = r[2] /\ vectors = r[3]
  /\ design \in Designs /\ width \in 1 .. TASK_REGISTRY[design].width
  /\ design = "adler32" => width = 4
  /\ vectors \in Seq(RandomWords(design, width))

\* The testbench has not failed a case, and its counters keep to their limits.
BenchFits ==
  /\ pc \in {"start", "case", "wait", "ok"}
  /\ case \in 0 .. Len(vectors) /\ (pc = "wait" => case < Len(vectors))
  /\ total \in Nat /\ cycles \in 0 .. max_cycles_per_case
  /\ pc = "start" => case = 0 /\ total = 0 /\ out = << >>
  /\ pc = "ok" => case = Len(vectors)

\* The design is idle between cases; in one it is busy, n iterations being charged
\* n + 1 cycles, or holds the result for a cycle, or has answered as the oracle does.
DesignFits ==
  /\ state \in {"idle", "busy", "result"} /\ done \in BOOLEAN
  /\ Fit(width, regs)
  /\ pc # "wait" => state = "idle" /\ done = FALSE
  /\ pc = "wait" /\ state = "busy" =>
       /\ done = FALSE /\ cycles >= 1 /\ design # "xor_cipher16"
       /\ design \in TwoStage => cycles <= width
       /\ Midway(design, width, regs, data_in, cycles - 1)
  /\ pc = "wait" /\ state = "result" =>
       /\ done = FALSE /\ design \in TwoStage /\ cycles = width + 1
       /\ Midway(design, width, regs, data_in, width)
  /\ pc = "wait" /\ state = "idle" =>
       /\ done = TRUE /\ data_out = Oracle(design, data_in, width)
       /\ Charged(design, width, cycles)

\* The inductive invariant.
IInv == RunFits /\ BenchFits /\ DesignFits

-----------------------------------------------------------------------------
\* Registers: what is written is there, the rest is left alone.
LEMMA WrittenFields ==
  ASSUME NEW new, NEW old, NEW field
  PROVE  /\ DOMAIN Written(new, old) = DOMAIN new \cup DOMAIN old
         /\ field \in DOMAIN new => Written(new, old)[field] = new[field]
         /\ field \in DOMAIN old \ DOMAIN new => Written(new, old)[field] = old[field]
BY DEF Written

\* Fit of the registers is RegsFit.
LEMMA RegsFitIsFit == \A r : RegsFit(r) <=> Fit(width, r)
BY DEF RegsFit, Fit

\* A field of r is in the range 0 .. bound - 1.
FieldFits(r, field, bound) == field \in DOMAIN r => r[field] \in 0 .. bound - 1

\* Fit is a statement on each field
LEMMA FitIsFields ==
  \A w, r : Fit(w, r) <=>
    /\ FieldFits(r, "count", 2 * w) /\ FieldFits(r, "k", w) /\ FieldFits(r, "idx", w + 1)
    /\ FieldFits(r, "a", 2 ^ w) /\ FieldFits(r, "b", 2 ^ w)
    /\ FieldFits(r, "quot", 2 ^ w) /\ FieldFits(r, "rem", 2 ^ w)
    /\ FieldFits(r, "s1", 251) /\ FieldFits(r, "s2", 251)
    /\ FieldFits(r, "offset", 10) /\ FieldFits(r, "step", 6)
BY DEF Fit, FieldFits

\* which a write keeps,
LEMMA FieldWrittenFits ==
  ASSUME NEW new, NEW old, NEW field, NEW bound,
         FieldFits(new, field, bound), FieldFits(old, field, bound)
  PROVE  FieldFits(Written(new, old), field, bound)
BY DEF FieldFits, Written

\* so that writing what fits over what fits leaves what fits.
LEMMA WrittenFits ==
  ASSUME NEW w, NEW new, NEW old, Fit(w, new), Fit(w, old)
  PROVE  Fit(w, Written(new, old))
BY FitIsFields, FieldWrittenFits, Zenon

\* The digits of x >> 1:
LEMMA BitsShifted ==
  ASSUME NEW w \in Nat \ {0}, NEW x \in Bits(w)
  PROVE  /\ ShiftedRight(x) \in Bits(w)
         /\ \A i \in 1 .. w : ShiftedRight(x)[i] = IF i = w THEN 0 ELSE x[i + 1]
<1>1. Bits(w) = [1 .. w -> Bit] /\ 0 \in Bit
  BY DEF Bits, Bit
<1>2. x \in [1 .. w -> Bit]
  BY <1>1
<1> HIDE DEF Bits, Bit
<1>3. /\ ShiftedRight(x) \in [1 .. w -> Bit]
      /\ \A i \in 1 .. w : ShiftedRight(x)[i] = IF i = w THEN 0 ELSE x[i + 1]
  BY <1>1, <1>2, ShiftedRightBits
<1> QED
  BY <1>1, <1>3

\* one more shift has been made.
LEMMA ShiftedNext ==
  ASSUME NEW w \in Nat \ {0}, NEW x, NEW y, NEW v, NEW n \in 0 .. w, Shifted(w, x, v, n),
         \A i \in 1 .. w : y[i] = IF i = w THEN 0 ELSE x[i + 1]
  PROVE  Shifted(w, y, v, n + 1)
<1> SUFFICES ASSUME NEW i \in 1 .. w - (n + 1)
             PROVE  y[i] = v[i + (n + 1)]
  BY DEF Shifted
<1>1. i \in 1 .. w /\ i # w /\ i + 1 \in 1 .. w - n /\ (i + 1) + n = i + (n + 1)
  OBVIOUS
<1>2. x[i + 1] = v[(i + 1) + n]
  BY <1>1 DEF Shifted
<1> QED
  BY <1>1, <1>2

-----------------------------------------------------------------------------

\* popcount32. The ones among the first n + 1 digits.
LEMMA OnesNext ==
  ASSUME NEW w \in Nat, NEW v \in Bits(w), NEW n \in 0 .. w - 1
  PROVE  /\ Cardinality({i \in 1 .. n : v[i] = 1}) \in 0 .. n
         /\ Cardinality({i \in 1 .. n + 1 : v[i] = 1})
              = Cardinality({i \in 1 .. n : v[i] = 1}) + v[n + 1]
<1> DEFINE S == {i \in 1 .. n : v[i] = 1}
           T == {i \in 1 .. n + 1 : v[i] = 1}
<1>1. IsFiniteSet(1 .. n) /\ Cardinality(1 .. n) = n
  BY FS_Interval
<1>2. IsFiniteSet(S) /\ Cardinality(S) <= n
  BY <1>1, FS_Subset
<1>3. Cardinality(S) \in Nat
  BY <1>2, FS_CardinalityType
<1>4. v[n + 1] \in {0, 1}
  BY DEF Bits, Bit
<1>5. CASE v[n + 1] = 1
  <2>1. T = S \cup {n + 1} /\ n + 1 \notin S
    BY <1>5
  <2>2. Cardinality(T) = Cardinality(S) + 1
    BY <1>2, <2>1, FS_AddElement
  <2> QED
    BY <1>2, <1>3, <1>5, <2>2
<1>6. CASE v[n + 1] = 0
  <2>1. T = S
    BY <1>6
  <2> QED
    BY <1>2, <1>3, <1>6, <2>1
<1> QED
  BY <1>4, <1>5, <1>6

\* The load state reaches PopcountMid,
LEMMA PopcountBegins ==
  ASSUME NEW w \in Nat \ {0}, NEW v \in Bits(w), NEW old
  PROVE  PopcountMid(w, Written(PopcountLoad(v), old), v, 0) /\ Fit(w, PopcountLoad(v))
<1> DEFINE r == Written(PopcountLoad(v), old)
<1>1. r.shift = v /\ r.count = 0 /\ r.idx = 0
  BY DEF Written, PopcountLoad
<1>2. Cardinality({i \in 1 .. 0 : v[i] = 1}) = 0
  <2>1. {i \in 1 .. 0 : v[i] = 1} = {}
    OBVIOUS
  <2> QED
    BY <2>1, FS_EmptySet
<1> HIDE DEF r
<1>3. PopcountMid(w, r, v, 0)
  BY <1>1, <1>2 DEF PopcountMid, Shifted
<1>4. Fit(w, PopcountLoad(v))
  BY DEF Fit, PopcountLoad
<1> QED
  BY <1>3, <1>4 DEF r

\* an iteration goes from one to the next, and the last one gives the answer.
LEMMA PopcountIterates ==
  ASSUME NEW w \in Nat \ {0}, NEW v \in Bits(w), NEW r, NEW n, PopcountMid(w, r, v, n)
  PROVE  /\ r.idx # w - 1 => PopcountMid(w, Written(PopcountLoop(r), r), v, n + 1)
         /\ r.idx = w - 1 => n = w - 1 /\ PopcountLoop(r).count = Popcount(v)
         /\ Fit(w, PopcountLoop(r))
<1> DEFINE s == Written(PopcountLoop(r), r)
           c == Cardinality({i \in 1 .. n : v[i] = 1})
<1>1. s.shift = ShiftedRight(r.shift) /\ s.count = r.count + r.shift[1] /\ s.idx = r.idx + 1
  BY DEF Written, PopcountLoop
<1>2. n \in 0 .. w - 1 /\ r.idx = n /\ r.shift \in Bits(w) /\ r.count = c
  BY DEF PopcountMid
<1>3. r.shift[1] = v[n + 1] /\ v[n + 1] \in 0 .. 1
  BY <1>2 DEF PopcountMid, Shifted, Bits, Bit
<1>4. c \in 0 .. n /\ Cardinality({i \in 1 .. n + 1 : v[i] = 1}) = c + v[n + 1]
  BY <1>2, OnesNext
<1>5. /\ ShiftedRight(r.shift) \in Bits(w)
      /\ \A i \in 1 .. w : ShiftedRight(r.shift)[i] = IF i = w THEN 0 ELSE r.shift[i + 1]
  BY <1>2, BitsShifted
<1>6. Shifted(w, ShiftedRight(r.shift), v, n + 1)
  BY <1>2, <1>5, ShiftedNext DEF PopcountMid
<1>7. Fit(w, PopcountLoop(r))
  <2>1. PopcountLoop(r).count = c + v[n + 1] /\ PopcountLoop(r).idx = n + 1
    BY <1>2, <1>3 DEF PopcountLoop
  <2>2. DOMAIN PopcountLoop(r) = {"shift", "count", "idx"}
    BY DEF PopcountLoop
  <2> QED
    BY <1>2, <1>3, <1>4, <2>1, <2>2 DEF Fit
<1>8. r.idx # w - 1 => PopcountMid(w, s, v, n + 1)
  <2> HIDE DEF s, c
  <2> SUFFICES ASSUME r.idx # w - 1
               PROVE  PopcountMid(w, s, v, n + 1)
    OBVIOUS
  <2> QED
    BY <1>1, <1>2, <1>3, <1>4, <1>5, <1>6 DEF PopcountMid
<1>9. r.idx = w - 1 => n = w - 1 /\ PopcountLoop(r).count = Popcount(v)
  <2>1. PopcountLoop(r).count = c + v[n + 1]
    BY <1>2, <1>3 DEF PopcountLoop
  <2>2. DOMAIN v = 1 .. w
    BY DEF Bits
  <2>3. r.idx = w - 1 => n = w - 1 /\ n + 1 = w
    BY <1>2
  <2>4. r.idx = w - 1 => Popcount(v) = c + v[n + 1]
    BY <1>4, <2>2, <2>3 DEF Popcount
  <2> QED
    BY <2>1, <2>3, <2>4
<1> QED
  BY <1>7, <1>8, <1>9

-----------------------------------------------------------------------------

\* bitrev16. The oracle reverses the word.
LEMMA BitrevIsReverse ==
  ASSUME NEW w \in Nat, NEW v \in Bits(w)
  PROVE  Bitrev(v) = [i \in 1 .. w |-> v[w + 1 - i]]
<1> DEFINE F == [k \in 0 .. w |-> [i \in 1 .. k |-> v[k + 1 - i]]]
<1>1. v \in [1 .. w -> Bit]
  BY DEF Bits
<1>2. F[0] = << >>
  OBVIOUS
<1>3. << >> \in Seq(Bit)
  OBVIOUS
<1>4. ASSUME NEW k \in 0 .. w - 1
      PROVE  F[k + 1] = <<v[k + 1]>> \o F[k]
  <2>1. /\ F[k] = [i \in 1 .. k |-> v[k + 1 - i]]
        /\ F[k + 1] = [i \in 1 .. k + 1 |-> v[(k + 1) + 1 - i]]
    OBVIOUS
  <2>2. \A i \in 1 .. k : v[k + 1 - i] \in Bit
    BY <1>1
  <2>3. F[k] \in Seq(Bit) /\ Len(F[k]) = k
    BY <2>1, <2>2
  <2> HIDE DEF F
  <2>4. v[k + 1] \in Bit
    BY <1>1
  <2>5. \A i \in 1 .. k + 1 : (<<v[k + 1]>> \o F[k])[i] = IF i = 1 THEN v[k + 1] ELSE F[k][i - 1]
    BY <2>3, <2>4
  <2>6. DOMAIN (<<v[k + 1]>> \o F[k]) = 1 .. k + 1 /\ <<v[k + 1]>> \o F[k] \in Seq(Bit)
    BY <2>3, <2>4
  <2>7. \A i \in 1 .. k + 1 : F[k + 1][i] = (<<v[k + 1]>> \o F[k])[i]
    <3> TAKE i \in 1 .. k + 1
    <3>1. CASE i = 1
      BY <2>1, <2>5, <3>1
    <3>2. CASE i # 1
      <4>1. i - 1 \in 1 .. k /\ k + 1 - (i - 1) = (k + 1) + 1 - i
        BY <3>2
      <4> QED
        BY <2>1, <2>5, <3>2, <4>1
    <3> QED
      BY <3>1, <3>2
  <2> QED
    BY <2>1, <2>6, <2>7
<1> HIDE DEF F
<1>5. FoldLeft(LAMBDA acc, bit : <<bit>> \o acc, F[0], v) = F[w]
  <2>1. \A k \in 0 .. w - 1 : F[k + 1] = <<v[k + 1]>> \o F[k]
    BY <1>4
  <2>2. F[0] \in Seq(Bit)
    BY <1>2, <1>3
  <2> QED
    BY <1>1, <2>1, <2>2, FoldLeftBitrev
<1>6. F[w] = [i \in 1 .. w |-> v[w + 1 - i]]
  BY DEF F
<1> QED
  BY <1>2, <1>5, <1>6 DEF Bitrev

\* The load state reaches BitrevMid,
LEMMA BitrevBegins ==
  ASSUME NEW w \in Nat \ {0}, NEW v \in Bits(w), NEW old
  PROVE  BitrevMid(w, Written(BitrevLoad(v, w), old), v, 0) /\ Fit(w, BitrevLoad(v, w))
<1> DEFINE r == Written(BitrevLoad(v, w), old)
<1>1. r.in_sr = v /\ r.out_sr = Zeros(w) /\ r.idx = 0
  BY DEF Written, BitrevLoad
<1>2. Zeros(w) \in Bits(w)
  BY DEF Zeros, Bits, Bit
<1> HIDE DEF r
<1>3. BitrevMid(w, r, v, 0)
  BY <1>1, <1>2 DEF BitrevMid, Shifted
<1>4. Fit(w, BitrevLoad(v, w))
  BY DEF Fit, BitrevLoad
<1> QED
  BY <1>3, <1>4 DEF r

\* an iteration goes from one to the next, and the last one gives the answer.
LEMMA BitrevIterates ==
  ASSUME NEW w \in Nat \ {0}, NEW v \in Bits(w), NEW r, NEW n, BitrevMid(w, r, v, n)
  PROVE  /\ r.idx # w - 1 => BitrevMid(w, Written(BitrevLoop(r), r), v, n + 1)
         /\ r.idx = w - 1 => n = w - 1 /\ BitrevLoop(r).out_sr = Bitrev(v)
         /\ Fit(w, BitrevLoop(r))
<1> DEFINE s == Written(BitrevLoop(r), r)
           shifted == <<r.in_sr[1]>> \o Front(r.out_sr)
<1>1. s.in_sr = ShiftedRight(r.in_sr) /\ s.out_sr = shifted /\ s.idx = r.idx + 1
  BY DEF Written, BitrevLoop
<1>2. n \in 0 .. w - 1 /\ r.idx = n /\ r.in_sr \in Bits(w) /\ r.out_sr \in Bits(w)
  BY DEF BitrevMid
<1>3. r.in_sr[1] = v[n + 1] /\ r.in_sr[1] \in Bit
  BY <1>2 DEF BitrevMid, Shifted, Bits
<1>4. /\ ShiftedRight(r.in_sr) \in Bits(w)
      /\ \A i \in 1 .. w : ShiftedRight(r.in_sr)[i] = IF i = w THEN 0 ELSE r.in_sr[i + 1]
  BY <1>2, BitsShifted
<1>5. Shifted(w, ShiftedRight(r.in_sr), v, n + 1)
  BY <1>2, <1>4, ShiftedNext DEF BitrevMid
<1>6. /\ shifted \in [1 .. w -> Bit]
      /\ \A i \in 1 .. w : shifted[i] = IF i = 1 THEN r.in_sr[1] ELSE r.out_sr[i - 1]
  <2>1. r.out_sr \in [1 .. w -> Bit]
    BY <1>2 DEF Bits
  <2> QED
    BY <1>3, <2>1, ShiftedInBits
<1>7. \A i \in 1 .. n + 1 : shifted[i] = v[(n + 1) + 1 - i]
  <2> HIDE DEF shifted
  <2> TAKE i \in 1 .. n + 1
  <2>1. CASE i = 1
    BY <1>2, <1>3, <1>6, <2>1
  <2>2. CASE i # 1
    <3>1. i - 1 \in 1 .. n /\ n + 1 - (i - 1) = (n + 1) + 1 - i /\ i \in 1 .. w
      BY <1>2, <2>2
    <3>2. r.out_sr[i - 1] = v[n + 1 - (i - 1)]
      BY <3>1 DEF BitrevMid
    <3> QED
      BY <1>6, <2>2, <3>1, <3>2
  <2> QED
    BY <2>1, <2>2
<1>8. Fit(w, BitrevLoop(r))
  <2>1. BitrevLoop(r).idx = n + 1 /\ DOMAIN BitrevLoop(r) = {"in_sr", "out_sr", "idx"}
    BY <1>2 DEF BitrevLoop
  <2> QED
    BY <1>2, <2>1 DEF Fit
<1>9. BitrevLoop(r).out_sr = shifted
  BY DEF BitrevLoop
<1>10. shifted \in Bits(w)
  BY <1>6 DEF Bits
<1> HIDE DEF s, shifted
<1>11. r.idx # w - 1 => BitrevMid(w, s, v, n + 1)
  BY <1>1, <1>2, <1>4, <1>5, <1>7, <1>10 DEF BitrevMid
<1>12. r.idx = w - 1 => n = w - 1 /\ shifted = Bitrev(v)
  <2> SUFFICES ASSUME r.idx = w - 1
               PROVE  shifted = Bitrev(v)
    BY <1>2
  <2>1. n + 1 = w
    BY <1>2
  <2>2. shifted = [i \in 1 .. w |-> v[w + 1 - i]]
    BY <1>6, <1>7, <2>1
  <2> QED
    BY <2>2, BitrevIsReverse
<1> QED
  BY <1>8, <1>9, <1>11, <1>12 DEF s

-----------------------------------------------------------------------------

\* gcd16. An iteration, by the parities of a and b.
LEMMA GcdLoopCases ==
  ASSUME NEW r
  PROVE  /\ GcdZero(r) => GcdLoop(r) = r
         /\ ~GcdZero(r) /\ r.a % 2 = 0 /\ r.b % 2 = 0 =>
              GcdLoop(r) = [r EXCEPT !.a = r.a \div 2, !.b = r.b \div 2, !.k = (r.k + 1) % 16]
         /\ ~GcdZero(r) /\ r.a % 2 = 0 /\ r.b % 2 # 0 =>
              GcdLoop(r) = [r EXCEPT !.a = r.a \div 2]
         /\ ~GcdZero(r) /\ r.a % 2 # 0 /\ r.b % 2 = 0 =>
              GcdLoop(r) = [r EXCEPT !.b = r.b \div 2]
         /\ ~GcdZero(r) /\ r.a % 2 # 0 /\ r.b % 2 # 0 =>
              GcdLoop(r) = IF r.a >= r.b THEN [r EXCEPT !.a = (r.a - r.b) \div 2]
                           ELSE [r EXCEPT !.b = (r.b - r.a) \div 2]
BY Zenon DEF GcdLoop

\* The fields of the registers after an iteration; the others are left alone.
GcdNextIs(r, a, b, k) ==
  LET s == GcdLoop(r) IN
  /\ DOMAIN s = DOMAIN r /\ s.a = a /\ s.b = b /\ s.k = k
  /\ \A x \in DOMAIN r : x \notin {"a", "b", "k"} => s[x] = r[x]

\* The same, field by field.
LEMMA GcdLoopFields ==
  ASSUME NEW r, {"a", "b", "k"} \subseteq DOMAIN r
  PROVE  /\ GcdZero(r) => GcdNextIs(r, r.a, r.b, r.k)
         /\ ~GcdZero(r) /\ r.a % 2 = 0 /\ r.b % 2 = 0 =>
              GcdNextIs(r, r.a \div 2, r.b \div 2, (r.k + 1) % 16)
         /\ ~GcdZero(r) /\ r.a % 2 = 0 /\ r.b % 2 # 0 => GcdNextIs(r, r.a \div 2, r.b, r.k)
         /\ ~GcdZero(r) /\ r.a % 2 # 0 /\ r.b % 2 = 0 => GcdNextIs(r, r.a, r.b \div 2, r.k)
         /\ ~GcdZero(r) /\ r.a % 2 # 0 /\ r.b % 2 # 0 /\ r.a >= r.b =>
              GcdNextIs(r, (r.a - r.b) \div 2, r.b, r.k)
         /\ ~GcdZero(r) /\ r.a % 2 # 0 /\ r.b % 2 # 0 /\ ~(r.a >= r.b) =>
              GcdNextIs(r, r.a, (r.b - r.a) \div 2, r.k)
<1>1. \A s, a, b, k : GcdLoop(r) = s /\ s = [r EXCEPT !.a = a, !.b = b, !.k = k]
                       => GcdNextIs(r, a, b, k)
  BY DEF GcdNextIs
<1>2. \A s, a : GcdLoop(r) = s /\ s = [r EXCEPT !.a = a] => GcdNextIs(r, a, r.b, r.k)
  BY DEF GcdNextIs
<1>3. \A s, b : GcdLoop(r) = s /\ s = [r EXCEPT !.b = b] => GcdNextIs(r, r.a, b, r.k)
  BY DEF GcdNextIs
<1>4. GcdZero(r) => GcdNextIs(r, r.a, r.b, r.k)
  BY GcdLoopCases DEF GcdNextIs
<1> QED
  BY <1>1, <1>2, <1>3, <1>4, GcdLoopCases, Zenon

\* Half of a number has a bit less,
LEMMA HalvedBelow ==
  ASSUME NEW a \in Nat \ {0}, NEW p \in Nat, a < 2 ^ p, NEW c \in Nat, 2 * c <= a
  PROVE  p - 1 \in Nat /\ c < 2 ^ (p - 1)
<1>1. p # 0
  <2>1. 2 ^ 0 = 1
    OBVIOUS
  <2>2. p = 0 => 2 ^ p = 1
    BY <2>1
  <2> QED
    BY <2>2
<1>2. PICK m \in Nat : p = m + 1
  BY <1>1
<1>3. 2 ^ p = 2 * 2 ^ m /\ 2 ^ m \in Nat /\ p - 1 = m
  BY <1>2, PowNext, PowNat
<1> QED
  BY <1>2, <1>3

\* so that an iteration takes one of the bits that are left.
LEMMA BitsLeftNext ==
  ASSUME NEW w \in Nat, NEW a \in Nat \ {0}, NEW b \in Nat \ {0}, NEW n \in Nat,
         BitsLeft(w, a, b, n)
  PROVE  /\ n + 1 \in 0 .. 2 * w
         /\ \A c \in Nat : 2 * c <= a => BitsLeft(w, c, b, n + 1)
         /\ \A c \in Nat : 2 * c <= b => BitsLeft(w, a, c, n + 1)
         /\ \A c, d \in Nat : 2 * c <= a /\ 2 * d <= b => BitsLeft(w, c, d, n + 1)
<1>1. PICK p, q \in 0 .. w : a < 2 ^ p /\ b < 2 ^ q /\ p + q + n <= 2 * w
  BY DEF BitsLeft
<1>2. /\ p - 1 \in Nat /\ q - 1 \in Nat
      /\ \A c \in Nat : 2 * c <= a => c < 2 ^ (p - 1)
      /\ \A c \in Nat : 2 * c <= b => c < 2 ^ (q - 1)
  <2>1. 0 \in Nat /\ 2 * 0 <= a /\ 2 * 0 <= b /\ p \in Nat /\ q \in Nat
    OBVIOUS
  <2>2. \A c \in Nat : 2 * c <= a => p - 1 \in Nat /\ c < 2 ^ (p - 1)
    BY <1>1, <2>1, HalvedBelow
  <2>3. \A c \in Nat : 2 * c <= b => q - 1 \in Nat /\ c < 2 ^ (q - 1)
    BY <1>1, <2>1, HalvedBelow
  <2> QED
    BY <2>1, <2>2, <2>3
<1>3. ASSUME NEW c \in Nat, 2 * c <= a
      PROVE  BitsLeft(w, c, b, n + 1)
  <2>1. c < 2 ^ (p - 1)
    BY <1>2, <1>3
  <2>2. p - 1 \in 0 .. w /\ (p - 1) + q + (n + 1) <= 2 * w
    BY <1>1, <1>2
  <2> QED
    BY <1>1, <2>1, <2>2 DEF BitsLeft
<1>4. ASSUME NEW c \in Nat, 2 * c <= b
      PROVE  BitsLeft(w, a, c, n + 1)
  <2>1. c < 2 ^ (q - 1)
    BY <1>2, <1>4
  <2>2. q - 1 \in 0 .. w /\ p + (q - 1) + (n + 1) <= 2 * w
    BY <1>1, <1>2
  <2> QED
    BY <1>1, <2>1, <2>2 DEF BitsLeft
<1>5. ASSUME NEW c \in Nat, NEW d \in Nat, 2 * c <= a, 2 * d <= b
      PROVE  BitsLeft(w, c, d, n + 1)
  <2>1. c < 2 ^ (p - 1) /\ d < 2 ^ (q - 1)
    BY <1>2, <1>5
  <2>2. p - 1 \in 0 .. w /\ q - 1 \in 0 .. w /\ (p - 1) + (q - 1) + (n + 1) <= 2 * w
    BY <1>1, <1>2
  <2> QED
    BY <2>1, <2>2 DEF BitsLeft
<1>6. n + 1 \in 0 .. 2 * w
  BY <1>1, <1>2
<1> QED
  BY <1>3, <1>4, <1>5, <1>6

\* The operands are words of w bits.
GcdOperands(w, v) == v[1] \in 1 .. 2 ^ w - 1 /\ v[2] \in 1 .. 2 ^ w - 1

\* The answer fits into the output.
LEMMA GcdOfOperands ==
  ASSUME NEW w \in Nat \ {0}, NEW v, GcdOperands(w, v)
  PROVE  Gcd(v[1], v[2]) \in Nat /\ 1 <= Gcd(v[1], v[2]) /\ Gcd(v[1], v[2]) < 2 ^ w
<1>1. v[1] \in Nat /\ v[2] \in Nat /\ v[1] # 0 /\ v[1] < 2 ^ w /\ 2 ^ w \in Nat
  BY PowNat DEF GcdOperands
<1>2. Gcd(v[1], v[2]) \in Nat
  BY <1>1, GcdNat
<1>3. 1 <= Gcd(v[1], v[2]) /\ Gcd(v[1], v[2]) <= v[1]
  BY <1>1, GcdBounds
<1> QED
  BY <1>1, <1>2, <1>3

\* The shifts counted in k fit into the result.
LEMMA GcdFactors ==
  ASSUME NEW w \in Nat \ {0}, NEW g \in Nat, NEW h \in Nat, NEW k \in Nat,
         g * 2 ^ k = h, 1 <= h, h < 2 ^ w
  PROVE  k \in 0 .. w - 1
<1>1. 2 ^ k \in Nat /\ 1 <= 2 ^ k /\ 2 ^ w \in Nat
  BY PowPositive
<1>2. 1 <= g
  BY <1>1
<1>3. 2 ^ k <= h
  <2>1. \A x, y \in Nat : 1 <= x => y <= x * y
    OBVIOUS
  <2> QED
    BY <1>1, <1>2, <2>1
<1>4. w <= k => 2 ^ w <= 2 ^ k
  BY PowGrows
<1> QED
  BY <1>1, <1>3, <1>4

\* Each of the cases keeps GcdHolds: the laws of GcdDoubled, GcdOddOther and
\* GcdDifference are what the binary algorithm rests on.
LEMMA GcdHalved ==
  ASSUME NEW w \in Nat \ {0}, NEW v, GcdOperands(w, v), NEW a, NEW b, NEW k, NEW n,
         GcdHolds(w, a, b, k, v, n), a # 0, b # 0
  PROVE  /\ a % 2 = 0 /\ b % 2 = 0 =>
              GcdHolds(w, a \div 2, b \div 2, k + 1, v, n + 1)
         /\ a % 2 = 0 /\ b % 2 # 0 => GcdHolds(w, a \div 2, b, k, v, n + 1)
         /\ a % 2 # 0 /\ b % 2 = 0 => GcdHolds(w, a, b \div 2, k, v, n + 1)
         /\ a % 2 # 0 /\ b % 2 # 0 /\ a >= b => GcdHolds(w, (a - b) \div 2, b, k, v, n + 1)
         /\ a % 2 # 0 /\ b % 2 # 0 /\ ~(a >= b) => GcdHolds(w, a, (b - a) \div 2, k, v, n + 1)
<1>1. a \in Nat /\ b \in Nat /\ k \in 0 .. w - 1 /\ n \in 0 .. 2 * w /\ BitsLeft(w, a, b, n)
  BY DEF GcdHolds
<1>2. Gcd(a, b) * 2 ^ k = Gcd(v[1], v[2])
  BY DEF GcdHolds
<1>3. /\ n + 1 \in 0 .. 2 * w
      /\ \A c \in Nat : 2 * c <= a => BitsLeft(w, c, b, n + 1)
      /\ \A c \in Nat : 2 * c <= b => BitsLeft(w, a, c, n + 1)
      /\ \A c, d \in Nat : 2 * c <= a /\ 2 * d <= b => BitsLeft(w, c, d, n + 1)
  BY <1>1, BitsLeftNext
<1>4. /\ a \div 2 \in Nat /\ b \div 2 \in Nat
      /\ a % 2 = 0 => a = 2 * (a \div 2)
      /\ b % 2 = 0 => b = 2 * (b \div 2)
      /\ a % 2 # 0 => a % 2 = 1
      /\ b % 2 # 0 => b % 2 = 1
  BY <1>1, HalvedOrNot
<1>5. CASE a % 2 = 0 /\ b % 2 = 0
  <2> DEFINE c == a \div 2  d == b \div 2
  <2>1. c \in Nat /\ d \in Nat /\ a = 2 * c /\ b = 2 * d
    BY <1>4, <1>5
  <2> HIDE DEF c, d
  <2>2. Gcd(a, b) = 2 * Gcd(c, d) /\ Gcd(c, d) \in Nat
    BY <2>1, GcdDoubled, GcdNat
  <2>3. 2 ^ (k + 1) = 2 * 2 ^ k /\ 2 ^ k \in Nat
    BY <1>1, PowNext, PowNat
  <2>4. Gcd(c, d) * 2 ^ (k + 1) = Gcd(v[1], v[2])
    BY <1>2, <2>2, <2>3
  <2>5. k + 1 \in 0 .. w - 1
    BY <1>1, <2>2, <2>4, GcdOfOperands, GcdFactors
  <2>6. BitsLeft(w, c, d, n + 1) /\ c + d # 0
    BY <1>3, <2>1
  <2>7. GcdHolds(w, c, d, k + 1, v, n + 1)
    BY <1>3, <2>1, <2>4, <2>5, <2>6 DEF GcdHolds
  <2> QED
    BY <1>5, <2>7 DEF c, d
<1>6. CASE a % 2 = 0 /\ b % 2 # 0
  <2> DEFINE c == a \div 2
  <2>1. c \in Nat /\ a = 2 * c /\ b % 2 = 1
    BY <1>4, <1>6
  <2> HIDE DEF c
  <2>2. Gcd(c, b) = Gcd(a, b)
    BY <1>1, <2>1, GcdOddOther
  <2>3. BitsLeft(w, c, b, n + 1) /\ c + b # 0
    BY <1>1, <1>3, <2>1
  <2>4. GcdHolds(w, c, b, k, v, n + 1)
    BY <1>1, <1>2, <1>3, <2>1, <2>2, <2>3 DEF GcdHolds
  <2> QED
    BY <1>6, <2>4 DEF c
<1>7. CASE a % 2 # 0 /\ b % 2 = 0
  <2> DEFINE c == b \div 2
  <2>1. c \in Nat /\ b = 2 * c /\ a % 2 = 1
    BY <1>4, <1>7
  <2> HIDE DEF c
  <2>2. Gcd(a, c) = Gcd(a, b)
    <3>1. Gcd(2 * c, a) = Gcd(c, a)
      BY <1>1, <2>1, GcdOddOther
    <3>2. Gcd(a, c) = Gcd(c, a) /\ Gcd(a, b) = Gcd(b, a)
      BY <1>1, <2>1, GcdSymmetric
    <3> QED
      BY <2>1, <3>1, <3>2
  <2>3. BitsLeft(w, a, c, n + 1) /\ a + c # 0
    BY <1>1, <1>3, <2>1
  <2>4. GcdHolds(w, a, c, k, v, n + 1)
    BY <1>1, <1>2, <1>3, <2>1, <2>2, <2>3 DEF GcdHolds
  <2> QED
    BY <1>7, <2>4 DEF c
<1>8. CASE a % 2 # 0 /\ b % 2 # 0 /\ a >= b
  <2> DEFINE c == (a - b) \div 2
  <2>1. c \in Nat /\ 2 * c <= a
    <3>1. PICK m \in Nat : m = a - b
      BY <1>1, <1>8
    <3> QED
      BY <1>1, <3>1
  <2>2. Gcd(c, b) = Gcd(a, b)
    BY <1>1, <1>4, <1>8, GcdOfOdds
  <2> HIDE DEF c
  <2>3. BitsLeft(w, c, b, n + 1) /\ c + b # 0
    BY <1>1, <1>3, <2>1
  <2>4. GcdHolds(w, c, b, k, v, n + 1)
    BY <1>1, <1>2, <1>3, <2>1, <2>2, <2>3 DEF GcdHolds
  <2> QED
    BY <1>8, <2>4 DEF c
<1>9. CASE a % 2 # 0 /\ b % 2 # 0 /\ ~(a >= b)
  <2> DEFINE c == (b - a) \div 2
  <2>1. c \in Nat /\ 2 * c <= b
    <3>1. PICK m \in Nat : m = b - a
      BY <1>1, <1>9
    <3> QED
      BY <1>1, <3>1
  <2>2. Gcd(a, c) = Gcd(a, b)
    <3>1. Gcd(c, a) = Gcd(b, a)
      BY <1>1, <1>4, <1>9, GcdOfOdds
    <3>2. Gcd(a, c) = Gcd(c, a) /\ Gcd(a, b) = Gcd(b, a)
      BY <1>1, <2>1, GcdSymmetric
    <3> QED
      BY <3>1, <3>2
  <2> HIDE DEF c
  <2>3. BitsLeft(w, a, c, n + 1) /\ a + c # 0
    BY <1>1, <1>3, <2>1
  <2>4. GcdHolds(w, a, c, k, v, n + 1)
    BY <1>1, <1>2, <1>3, <2>1, <2>2, <2>3 DEF GcdHolds
  <2> QED
    BY <1>9, <2>4 DEF c
<1> QED
  BY <1>5, <1>6, <1>7, <1>8, <1>9

\* The load state reaches GcdMid,
LEMMA GcdBegins ==
  ASSUME NEW w \in Nat \ {0}, NEW v, GcdOperands(w, v), NEW old
  PROVE  GcdMid(w, Written(GcdLoad(v), old), v, 0) /\ Fit(w, GcdLoad(v))
<1> DEFINE r == Written(GcdLoad(v), old)
<1>1. r.a = v[1] /\ r.b = v[2] /\ r.k = 0 /\ {"a", "b", "k"} \subseteq DOMAIN r
  BY DEF Written, GcdLoad
<1> HIDE DEF r
<1>2. /\ v[1] \in Nat /\ v[2] \in Nat /\ v[1] # 0 /\ 2 ^ w \in Nat
      /\ v[1] < 2 ^ w /\ v[2] < 2 ^ w /\ v[1] \in 0 .. 2 ^ w - 1 /\ v[2] \in 0 .. 2 ^ w - 1
  BY PowNat DEF GcdOperands
<1>3. Gcd(v[1], v[2]) * 2 ^ 0 = Gcd(v[1], v[2])
  <2>1. 2 ^ 0 = 1
    OBVIOUS
  <2>2. Gcd(v[1], v[2]) \in Nat
    BY <1>2, GcdNat
  <2> QED
    BY <2>1, <2>2
<1>4. BitsLeft(w, v[1], v[2], 0)
  <2>1. w \in 0 .. w /\ w + w + 0 <= 2 * w
    OBVIOUS
  <2> QED
    BY <1>2, <2>1 DEF BitsLeft
<1>5. GcdMid(w, r, v, 0)
  BY <1>1, <1>2, <1>3, <1>4 DEF GcdMid, GcdHolds
<1>6. Fit(w, GcdLoad(v))
  BY <1>2 DEF Fit, GcdLoad
<1> QED
  BY <1>5, <1>6 DEF r

\* its a and b fit, and it lasts less than 2 * w iterations:
LEMMA GcdBelow ==
  ASSUME NEW w \in Nat \ {0}, NEW a, NEW b, NEW k, NEW v, NEW n, GcdHolds(w, a, b, k, v, n)
  PROVE  a \in 0 .. 2 ^ w - 1 /\ b \in 0 .. 2 ^ w - 1 /\ n < 2 * w
<1>1. a \in Nat /\ b \in Nat /\ a + b # 0 /\ n \in Nat
  BY DEF GcdHolds
<1>2. PICK p, q \in 0 .. w : a < 2 ^ p /\ b < 2 ^ q /\ p + q + n <= 2 * w
  BY DEF GcdHolds, BitsLeft
<1>3. 2 ^ p <= 2 ^ w /\ 2 ^ q <= 2 ^ w /\ 2 ^ p \in Nat /\ 2 ^ q \in Nat /\ 2 ^ w \in Nat
  BY PowGrows, PowNat
<1>4. ~(p = 0 /\ q = 0)
  <2>1. 2 ^ 0 = 1
    OBVIOUS
  <2>2. p = 0 /\ q = 0 => a < 1 /\ b < 1
    BY <1>2, <2>1
  <2> QED
    BY <1>1, <2>2
<1> QED
  BY <1>1, <1>2, <1>3, <1>4

\* at its end the result is the greatest common divisor,
LEMMA GcdOutIsGcd ==
  ASSUME NEW w \in Nat \ {0}, NEW v, GcdOperands(w, v), NEW r, NEW n, GcdMid(w, r, v, n),
         GcdZero(r)
  PROVE  GcdOut(r, w) = Gcd(v[1], v[2])
<1>1. r.a \in Nat /\ r.b \in Nat /\ Gcd(r.a, r.b) * 2 ^ r.k = Gcd(v[1], v[2])
  BY DEF GcdMid, GcdHolds
<1>2. Gcd(r.a, r.b) = IF r.a = 0 THEN r.b ELSE r.a
  <2>1. \A x \in Nat : Gcd(x, 0) = x
    BY GcdNext
  <2>2. Gcd(r.a, r.b) = Gcd(r.b, r.a)
    BY <1>1, GcdSymmetric
  <2> QED
    BY <1>1, <2>1, <2>2 DEF GcdZero
<1>3. (IF r.a = 0 THEN r.b ELSE r.a) * 2 ^ r.k = Gcd(v[1], v[2])
  BY <1>1, <1>2
<1>4. \A g, m \in Nat : g < m => g % m = g
  OBVIOUS
<1>5. Gcd(v[1], v[2]) % 2 ^ w = Gcd(v[1], v[2])
  BY <1>4, GcdOfOperands, PowNat
<1> QED
  BY <1>3, <1>5, Zenon DEF GcdOut

\* and an iteration goes from one to the next, or ends.
LEMMA GcdIterates ==
  ASSUME NEW w \in 1 .. 16, NEW v, GcdOperands(w, v), NEW r, NEW n, GcdMid(w, r, v, n),
         Fit(w, r)
  PROVE  /\ n < 2 * w
         /\ ~GcdZero(r) => GcdMid(w, Written(GcdLoop(r), r), v, n + 1)
         /\ GcdZero(r) => GcdOut(r, w) = Gcd(v[1], v[2])
         /\ Fit(w, GcdLoop(r))
<1> DEFINE t == GcdLoop(r)
<1>1. {"a", "b", "k"} \subseteq DOMAIN r /\ GcdHolds(w, r.a, r.b, r.k, v, n) /\ w \in Nat \ {0}
  BY DEF GcdMid
<1>2. \A a, b, k : GcdNextIs(r, a, b, k) /\ GcdHolds(w, a, b, k, v, n + 1)
                     => GcdHolds(w, t.a, t.b, t.k, v, n + 1) /\ DOMAIN t = DOMAIN r
  BY DEF GcdNextIs
<1>3. r.k \in 0 .. w - 1
  BY <1>1 DEF GcdHolds
<1>4. GcdZero(r) <=> r.a = 0 \/ r.b = 0
  BY DEF GcdZero
<1>5. ~GcdZero(r) => GcdHolds(w, t.a, t.b, t.k, v, n + 1) /\ DOMAIN t = DOMAIN r
  <2> SUFFICES ASSUME ~GcdZero(r)
               PROVE  GcdHolds(w, t.a, t.b, t.k, v, n + 1) /\ DOMAIN t = DOMAIN r
    OBVIOUS
  <2> HIDE DEF t
  <2>1. CASE r.a % 2 = 0 /\ r.b % 2 = 0
    <3>1. GcdHolds(w, r.a \div 2, r.b \div 2, r.k + 1, v, n + 1)
      BY <1>1, <1>4, <2>1, GcdHalved
    <3>2. (r.k + 1) % 16 = r.k + 1
      <4>1. r.k + 1 \in 0 .. w - 1
        BY <3>1 DEF GcdHolds
      <4> QED
        BY <4>1
    <3>3. GcdNextIs(r, r.a \div 2, r.b \div 2, r.k + 1)
      BY <1>1, <2>1, <3>2, GcdLoopFields
    <3> QED
      BY <1>2, <3>1, <3>3
  <2>2. CASE r.a % 2 = 0 /\ r.b % 2 # 0
    <3>1. GcdHolds(w, r.a \div 2, r.b, r.k, v, n + 1)
      BY <1>1, <1>4, <2>2, GcdHalved
    <3> QED
      BY <1>1, <1>2, <2>2, <3>1, GcdLoopFields
  <2>3. CASE r.a % 2 # 0 /\ r.b % 2 = 0
    <3>1. GcdHolds(w, r.a, r.b \div 2, r.k, v, n + 1)
      BY <1>1, <1>4, <2>3, GcdHalved
    <3> QED
      BY <1>1, <1>2, <2>3, <3>1, GcdLoopFields
  <2>4. CASE r.a % 2 # 0 /\ r.b % 2 # 0 /\ r.a >= r.b
    <3>1. GcdHolds(w, (r.a - r.b) \div 2, r.b, r.k, v, n + 1)
      BY <1>1, <1>4, <2>4, GcdHalved
    <3> QED
      BY <1>1, <1>2, <2>4, <3>1, GcdLoopFields
  <2>5. CASE r.a % 2 # 0 /\ r.b % 2 # 0 /\ ~(r.a >= r.b)
    <3>1. GcdHolds(w, r.a, (r.b - r.a) \div 2, r.k, v, n + 1)
      BY <1>1, <1>4, <2>5, GcdHalved
    <3> QED
      BY <1>1, <1>2, <2>5, <3>1, GcdLoopFields
  <2> QED
    BY <2>1, <2>2, <2>3, <2>4, <2>5
<1>6. ~GcdZero(r) => GcdMid(w, Written(t, r), v, n + 1)
  <2> HIDE DEF t
  <2> SUFFICES ASSUME ~GcdZero(r)
               PROVE  GcdMid(w, Written(t, r), v, n + 1)
    OBVIOUS
  <2>1. DOMAIN t = DOMAIN r /\ GcdHolds(w, t.a, t.b, t.k, v, n + 1)
    BY <1>5
  <2>2. /\ DOMAIN Written(t, r) = DOMAIN r /\ Written(t, r).a = t.a
        /\ Written(t, r).b = t.b /\ Written(t, r).k = t.k
    BY <1>1, <2>1 DEF Written
  <2> QED
    BY <1>1, <2>1, <2>2 DEF GcdMid
<1>7. Fit(w, t)
  <2>1. CASE GcdZero(r)
    <3>1. t = r
      BY <2>1, GcdLoopCases
    <3> QED
      BY <3>1
  <2>2. CASE ~GcdZero(r)
    <3>1. DOMAIN t = DOMAIN r /\ GcdHolds(w, t.a, t.b, t.k, v, n + 1)
      BY <1>5, <2>2
    <3>2. \A x \in DOMAIN r : x \notin {"a", "b", "k"} => t[x] = r[x]
      BY <1>1, <1>4, <2>2, GcdLoopFields, Zenon DEF GcdNextIs
    <3> HIDE DEF t
    <3>3. t.a \in 0 .. 2 ^ w - 1 /\ t.b \in 0 .. 2 ^ w - 1 /\ t.k \in 0 .. w - 1
      BY <1>1, <3>1, GcdBelow DEF GcdHolds
    <3> QED
      BY <3>1, <3>2, <3>3 DEF Fit
  <2> QED
    BY <2>1, <2>2
<1>8. GcdZero(r) => GcdOut(r, w) = Gcd(v[1], v[2])
  BY <1>1, GcdOutIsGcd
<1>9. n < 2 * w
  BY <1>1, GcdBelow
<1> QED
  BY <1>6, <1>7, <1>8, <1>9

-----------------------------------------------------------------------------

\* Two words.
MulOperands(w, v) == v[1] \in 0 .. 2 ^ w - 1 /\ v[2] \in 0 .. 2 ^ w - 1

\* mul8. Nothing is cut off a number below the modulus.
LEMMA BelowItself == \A x, m \in Nat : x < m => x % m = x
OBVIOUS

\* The output has 2 * n bits:
LEMMA Doubled == \A n \in Nat : 2 ^ (2 * n) = 2 ^ n * 2 ^ n
<1> TAKE n \in Nat
<1>1. 2 * n = n + n
  OBVIOUS
<1> QED
  BY <1>1, PowSum

\* products of words fit into it.
LEMMA ProductOfWords ==
  ASSUME NEW w \in Nat, NEW x \in 0 .. 2 ^ w - 1, NEW y \in 0 .. 2 ^ w
  PROVE  x * y \in Nat /\ x * y < 2 ^ (2 * w)
<1>1. PICK m \in Nat : m = 2 ^ w
  BY PowNat
<1>2. 1 <= m /\ x \in Nat /\ y \in Nat /\ x + 1 <= m /\ y <= m
  BY <1>1, PowPositive
<1>3. x * y <= x * m
  BY <1>2
<1>4. (x + 1) * m <= m * m
  BY <1>2
<1>5. (x + 1) * m = x * m + m /\ x * m \in Nat /\ m * m \in Nat /\ x * y \in Nat
  BY <1>2
<1>6. x * y < m * m
  BY <1>2, <1>3, <1>4, <1>5
<1> QED
  BY <1>1, <1>5, <1>6, Doubled

\* The load state reaches MulMid,
LEMMA MulBegins ==
  ASSUME NEW w \in Nat \ {0}, NEW v, MulOperands(w, v), NEW old
  PROVE  MulMid(w, Written(MulLoad(v), old), v, 0) /\ Fit(w, MulLoad(v))
<1> DEFINE r == Written(MulLoad(v), old)
<1>1. r.product = 0 /\ r.mcand = v[1] /\ r.mplier = v[2] /\ r.idx = 0
  BY DEF Written, MulLoad
<1> HIDE DEF r
<1>2. v[1] \in Nat /\ v[2] \in 0 .. 2 ^ w - 1 /\ v[2] \in Nat
  BY PowNat DEF MulOperands
<1>3. v[1] = v[1] * 2 ^ 0 /\ w - 0 = w
  <2>1. 2 ^ 0 = 1
    OBVIOUS
  <2> QED
    BY <1>2, <2>1
<1>4. 0 + v[1] * v[2] = v[1] * v[2]
  BY <1>2
<1>5. MulMid(w, r, v, 0)
  BY <1>1, <1>2, <1>3, <1>4 DEF MulMid
<1>6. Fit(w, MulLoad(v))
  BY DEF Fit, MulLoad
<1> QED
  BY <1>5, <1>6 DEF r

\* The next partial product: no bit of it, and none of mcand, is cut.
LEMMA MulNext ==
  ASSUME NEW w \in Nat \ {0}, NEW v, MulOperands(w, v), NEW r, NEW n, MulMid(w, r, v, n)
  PROVE  /\ r.mplier % 2 # 1 => r.product + (2 * r.mcand) * (r.mplier \div 2) = v[1] * v[2]
         /\ r.mplier % 2 = 1 =>
              /\ (r.product + r.mcand) % 2 ^ (2 * w) = r.product + r.mcand
              /\ r.product + r.mcand + (2 * r.mcand) * (r.mplier \div 2) = v[1] * v[2]
         /\ (2 * r.mcand) % 2 ^ (2 * w) = v[1] * 2 ^ (n + 1)
         /\ r.mplier \div 2 \in 0 .. 2 ^ (w - (n + 1)) - 1
         /\ r.mcand \in Nat /\ 2 * r.mcand = v[1] * 2 ^ (n + 1)
<1>1. n \in 0 .. w - 1 /\ r.mcand = v[1] * 2 ^ n /\ r.product \in Nat
  BY DEF MulMid
<1>2. r.mplier \in 0 .. 2 ^ (w - n) - 1 /\ r.product + r.mcand * r.mplier = v[1] * v[2]
  BY DEF MulMid
<1>3. v[1] \in 0 .. 2 ^ w - 1 /\ v[2] \in 0 .. 2 ^ w /\ 2 ^ w \in Nat
  BY PowNat DEF MulOperands
<1>4. v[1] \in Nat /\ 2 ^ n \in Nat /\ 2 ^ (n + 1) = 2 * 2 ^ n
  BY <1>1, <1>3, PowNat, PowNext
<1>5. r.mcand \in Nat
  BY <1>1, <1>4
<1>6. 2 * r.mcand = v[1] * 2 ^ (n + 1)
  <2>1. \A x, y \in Nat : 2 * (x * y) = x * (2 * y)
    OBVIOUS
  <2> QED
    BY <1>1, <1>4, <2>1
<1>7. r.mplier \in Nat /\ r.mplier \div 2 \in 0 .. 2 ^ (w - (n + 1)) - 1
  <2>1. PICK m \in Nat : m = w - (n + 1)
    BY <1>1
  <2>2. w - n = m + 1
    BY <1>1, <2>1
  <2>3. 2 ^ (w - n) = 2 * 2 ^ m /\ 2 ^ m \in Nat
    BY <2>2, PowNext, PowNat
  <2> QED
    BY <1>2, <2>1, <2>3
<1>8. (2 * r.mcand) % 2 ^ (2 * w) = 2 * r.mcand
  <2>1. 2 ^ (n + 1) \in 0 .. 2 ^ w
    <3>1. n + 1 \in Nat /\ n + 1 <= w
      BY <1>1
    <3>2. 2 ^ (n + 1) <= 2 ^ w /\ 2 ^ (n + 1) \in Nat
      BY <3>1, PowGrows, PowNat
    <3> QED
      BY <1>3, <3>2
  <2>2. v[1] * 2 ^ (n + 1) \in Nat /\ v[1] * 2 ^ (n + 1) < 2 ^ (2 * w)
    BY <1>3, <2>1, ProductOfWords
  <2>3. 2 ^ (2 * w) \in Nat
    BY PowNat
  <2> QED
    BY <1>6, <2>2, <2>3, BelowItself
<1>9. /\ r.mplier % 2 # 1 => r.mplier = 2 * (r.mplier \div 2)
      /\ r.mplier % 2 = 1 => r.mplier = 2 * (r.mplier \div 2) + 1
  BY <1>7, HalvedOrNot
<1>10. \A c, h \in Nat : c * (2 * h) = (2 * c) * h /\ c * (2 * h + 1) = (2 * c) * h + c
  OBVIOUS
<1>11. r.mplier \div 2 \in Nat
  BY <1>7
<1>12. (2 * r.mcand) * (r.mplier \div 2) \in Nat
  BY <1>5, <1>11
<1>13. r.mplier % 2 # 1 => r.mcand * r.mplier = (2 * r.mcand) * (r.mplier \div 2)
  BY <1>5, <1>9, <1>10, <1>11
<1>14. r.mplier % 2 = 1 => r.mcand * r.mplier = (2 * r.mcand) * (r.mplier \div 2) + r.mcand
  BY <1>5, <1>9, <1>10, <1>11
<1>15. r.mplier % 2 = 1 =>
         /\ r.product + r.mcand + (2 * r.mcand) * (r.mplier \div 2) = v[1] * v[2]
         /\ r.product + r.mcand <= v[1] * v[2]
  BY <1>1, <1>2, <1>5, <1>12, <1>14
<1>16. r.mplier % 2 = 1 => (r.product + r.mcand) % 2 ^ (2 * w) = r.product + r.mcand
  <2>1. v[1] * v[2] \in Nat /\ v[1] * v[2] < 2 ^ (2 * w)
    BY <1>3, ProductOfWords
  <2>2. 2 ^ (2 * w) \in Nat
    BY PowNat
  <2>3. r.product + r.mcand \in Nat
    BY <1>1, <1>5
  <2> QED
    BY <1>15, <2>1, <2>2, <2>3, BelowItself
<1> QED
  BY <1>2, <1>5, <1>6, <1>7, <1>8, <1>13, <1>15, <1>16

\* an iteration goes from one to the next, and the last one gives the answer.
LEMMA MulIterates ==
  ASSUME NEW w \in Nat \ {0}, NEW v, MulOperands(w, v), NEW r, NEW n, MulMid(w, r, v, n)
  PROVE  /\ r.idx # w - 1 => MulMid(w, Written(MulLoop(r, w), r), v, n + 1)
         /\ r.idx = w - 1 => n = w - 1 /\ MulLoop(r, w).product = Mul(v[1], v[2], w)
         /\ Fit(w, MulLoop(r, w))
<1> DEFINE t == MulLoop(r, w)
           s == Written(t, r)
<1>1. /\ t.product = IF r.mplier % 2 = 1 THEN (r.product + r.mcand) % 2 ^ (2 * w) ELSE r.product
      /\ t.mcand = (2 * r.mcand) % 2 ^ (2 * w) /\ t.mplier = r.mplier \div 2
      /\ t.idx = r.idx + 1 /\ DOMAIN t = {"product", "mcand", "mplier", "idx"}
  BY DEF MulLoop
<1> HIDE DEF t
<1>2. s.product = t.product /\ s.mcand = t.mcand /\ s.mplier = t.mplier /\ s.idx = t.idx
  BY <1>1 DEF Written
<1> HIDE DEF s
<1>3. n \in 0 .. w - 1 /\ r.idx = n /\ r.product \in Nat
  BY DEF MulMid
<1>4. t.product \in Nat /\ t.product + t.mcand * t.mplier = v[1] * v[2]
  BY <1>1, <1>3, MulNext
<1>5. t.mcand = v[1] * 2 ^ (n + 1) /\ t.mplier \in 0 .. 2 ^ (w - (n + 1)) - 1 /\ t.mcand \in Nat
  BY <1>1, MulNext
<1>6. r.idx # w - 1 => MulMid(w, s, v, n + 1)
  BY <1>1, <1>2, <1>3, <1>4, <1>5 DEF MulMid
<1>7. r.idx = w - 1 => n = w - 1 /\ t.product = Mul(v[1], v[2], w)
  <2> SUFFICES ASSUME r.idx = w - 1
               PROVE  n = w - 1 /\ t.product = Mul(v[1], v[2], w)
    OBVIOUS
  <2>1. 2 ^ (w - (n + 1)) = 1
    <3>1. w - (n + 1) = 0
      BY <1>3
    <3>2. 2 ^ 0 = 1
      OBVIOUS
    <3> QED
      BY <3>1, <3>2
  <2>2. t.mplier = 0
    BY <1>5, <2>1
  <2>3. t.product = v[1] * v[2]
    BY <1>4, <1>5, <2>2
  <2>4. v[1] * v[2] \in Nat /\ v[1] * v[2] < 2 ^ (2 * w)
    <3>1. v[1] \in 0 .. 2 ^ w - 1 /\ v[2] \in 0 .. 2 ^ w
      BY PowNat DEF MulOperands
    <3> QED
      BY <3>1, ProductOfWords
  <2>5. (v[1] * v[2]) % 2 ^ (2 * w) = v[1] * v[2]
    BY <2>4, PowNat, BelowItself
  <2> QED
    BY <1>3, <2>3, <2>5 DEF Mul
<1>8. Fit(w, t)
  BY <1>1, <1>3 DEF Fit
<1> QED
  BY <1>6, <1>7, <1>8 DEF s, t

-----------------------------------------------------------------------------

\* A word and a divisor that is not 0.
DivOperands(w, v) == v[1] \in 0 .. 2 ^ w - 1 /\ v[2] \in 1 .. 2 ^ w - 1

\* div16. The load state reaches DivMid.
LEMMA DivBegins ==
  ASSUME NEW w \in Nat \ {0}, NEW v, DivOperands(w, v), NEW old
  PROVE  DivMid(w, Written(DivLoad(v), old), v, 0) /\ Fit(w, DivLoad(v))
<1> DEFINE r == Written(DivLoad(v), old)
<1>1. /\ {"dividend", "divisor", "rem", "quot", "idx"} \subseteq DOMAIN r
      /\ r.dividend = v[1] /\ r.divisor = v[2] /\ r.rem = 0 /\ r.quot = 0 /\ r.idx = 0
  BY DEF Written, DivLoad
<1> HIDE DEF r
<1>2. 2 ^ 0 = 1 /\ 2 ^ w \in Nat /\ 1 <= 2 ^ w
  <2>1. 2 ^ 0 = 1
    OBVIOUS
  <2> QED
    BY <2>1, PowPositive
<1>3. v[1] \in Nat /\ v[2] \in Nat /\ v[1] < 2 ^ w /\ 1 <= v[2]
  BY <1>2 DEF DivOperands
<1>4. v[1] \div 2 ^ 0 = v[1] /\ v[1] * 2 ^ 0 = v[1] /\ w - 0 = w
  BY <1>2, <1>3
<1>5. (0 * v[2] + 0) * 2 ^ w + v[1] = v[1]
  BY <1>2, <1>3
<1>6. DivMid(w, r, v, 0)
  BY <1>1, <1>2, <1>3, <1>4, <1>5 DEF DivMid
<1>7. Fit(w, DivLoad(v))
  BY <1>2 DEF Fit, DivLoad
<1> QED
  BY <1>6, <1>7 DEF r

\* Quotient and remainder are determined by q * m + e.
LEMMA QuotientIs ==
  ASSUME NEW m \in Nat \ {0}, NEW q \in Nat, NEW e \in Nat, e < m
  PROVE  (q * m + e) \div m = q /\ (q * m + e) % m = e
<1> DEFINE x == q * m + e
           p == x \div m
           f == x % m
<1>1. x \in Nat
  OBVIOUS
<1>2. x = p * m + f /\ p \in Nat /\ f \in Nat /\ f < m
  BY <1>1, Division
<1>3. q * m + e = p * m + f
  BY <1>2
<1> HIDE DEF x, p, f
<1>4. \A i, j \in Nat, g, h \in 0 .. m - 1 : i * m + g = j * m + h => i <= j
  <2> SUFFICES ASSUME NEW i \in Nat, NEW j \in Nat, NEW g \in 0 .. m - 1, NEW h \in 0 .. m - 1,
                      i * m + g = j * m + h, j + 1 <= i
               PROVE  FALSE
    OBVIOUS
  <2>1. (j + 1) * m <= i * m
    OBVIOUS
  <2>2. (j + 1) * m = j * m + m /\ j * m \in Nat /\ i * m \in Nat
    OBVIOUS
  <2> QED
    BY <2>1, <2>2
<1>5. e \in 0 .. m - 1 /\ f \in 0 .. m - 1
  BY <1>2
<1>6. q <= p /\ p <= q
  BY <1>2, <1>3, <1>4, <1>5
<1>7. q = p
  BY <1>2, <1>6
<1>8. e = f
  <2>1. q * m \in Nat
    OBVIOUS
  <2> QED
    BY <1>2, <1>3, <1>7, <2>1
<1> QED
  BY <1>7, <1>8 DEF x, p, f

\* The top bit of the bits left, and the others.
LEMMA TopBit ==
  ASSUME NEW m \in Nat, NEW n \in Nat, NEW d \in 0 .. 2 ^ (m + 1) - 1
  PROVE  \E b \in 0 .. 1 : \E e \in 0 .. 2 ^ m - 1 :
           /\ d = b * 2 ^ m + e
           /\ (d * 2 ^ n) \div 2 ^ (m + n) = b
           /\ (2 * (d * 2 ^ n)) % 2 ^ (m + n + 1) = e * 2 ^ (n + 1)
<1>1. PICK P \in Nat : P = 2 ^ m /\ 1 <= P
  BY PowPositive
<1>2. PICK N \in Nat : N = 2 ^ n /\ 1 <= N
  BY PowPositive
<1>3. 2 ^ (m + 1) = 2 * P /\ 2 ^ (n + 1) = 2 * N
  BY <1>1, <1>2, PowNext
<1>4. 2 ^ (m + n) = P * N /\ 2 ^ (m + n + 1) = 2 * (P * N)
  <2>1. m + n \in Nat
    OBVIOUS
  <2> QED
    BY <1>1, <1>2, <2>1, PowSum, PowNext
<1> DEFINE b == IF d >= P THEN 1 ELSE 0
           e == IF d >= P THEN d - P ELSE d
<1>5. b \in 0 .. 1 /\ e \in 0 .. P - 1 /\ d = b * P + e
  BY <1>1, <1>3
<1> HIDE DEF b, e
<1>6. d * N = b * (P * N) + e * N /\ 2 * (d * N) = b * (2 * (P * N)) + e * (2 * N)
  BY <1>5
<1>7. e * N < P * N /\ e * (2 * N) < 2 * (P * N) /\ e * N \in Nat /\ P * N \in Nat
  <2>1. (e + 1) * N <= P * N
    BY <1>5
  <2>2. (e + 1) * N = e * N + N /\ e * N \in Nat /\ P * N \in Nat /\ e * (2 * N) = 2 * (e * N)
    BY <1>5
  <2> QED
    BY <1>2, <2>1, <2>2
<1>8. (d * N) \div (P * N) = b
  <2>1. P * N \in Nat \ {0} /\ e * N \in Nat /\ b \in Nat
    BY <1>5, <1>7
  <2> QED
    BY <1>6, <1>7, <2>1, QuotientIs
<1>9. (2 * (d * N)) % (2 * (P * N)) = e * (2 * N)
  <2>1. PICK M : M = 2 * (P * N)
    OBVIOUS
  <2>2. PICK f : f = e * (2 * N)
    OBVIOUS
  <2>3. M \in Nat \ {0} /\ f \in Nat /\ b \in Nat /\ f < M
    BY <1>5, <1>7, <2>1, <2>2
  <2>4. (b * M + f) % M = f
    BY <2>3, QuotientIs
  <2>5. 2 * (d * N) = b * M + f
    BY <1>6, <2>1, <2>2
  <2> QED
    BY <2>1, <2>2, <2>4, <2>5
<1> QED
  BY <1>1, <1>2, <1>3, <1>4, <1>5, <1>8, <1>9

\* The registers after one iteration, of which `top` is the bit that comes in.
LEMMA DivLoopFields ==
  ASSUME NEW r, NEW w, NEW top, NEW next,
         {"dividend", "divisor", "rem", "quot", "idx"} \subseteq DOMAIN r,
         top = r.dividend \div 2 ^ (w - 1), next = ((2 * r.rem) % 2 ^ w) + top
  PROVE  LET t == DivLoop(r, w) IN
         /\ DOMAIN t = DOMAIN r
         /\ t.rem = IF next >= r.divisor THEN next - r.divisor ELSE next
         /\ t.quot = ((2 * r.quot) % 2 ^ w) + (IF next >= r.divisor THEN 1 ELSE 0)
         /\ t.dividend = (2 * r.dividend) % 2 ^ w
         /\ t.idx = r.idx + 1 /\ t.divisor = r.divisor
         /\ \A x \in DOMAIN r : x \notin {"dividend", "rem", "quot", "idx"} => t[x] = r[x]
BY DEF DivLoop

\* An iteration of the restoring division goes from one DivMid to the next,
LEMMA DivIterates ==
  ASSUME NEW w \in Nat \ {0}, NEW v, DivOperands(w, v), NEW r, NEW n, DivMid(w, r, v, n),
         n < w, Fit(w, r)
  PROVE  DivMid(w, Written(DivLoop(r, w), r), v, n + 1) /\ Fit(w, DivLoop(r, w))
<1> DEFINE d == r.dividend \div 2 ^ n
           t == DivLoop(r, w)
           s == Written(t, r)
<1>1. /\ {"dividend", "divisor", "rem", "quot", "idx"} \subseteq DOMAIN r
      /\ n \in 0 .. w - 1 /\ n \in Nat /\ r.idx = n /\ r.divisor = v[2]
      /\ r.rem \in 0 .. v[2] - 1 /\ r.rem < 2 ^ n /\ r.quot \in 0 .. 2 ^ n - 1
  BY DEF DivMid
<1>2. /\ r.dividend = d * 2 ^ n /\ d \in 0 .. 2 ^ (w - n) - 1
      /\ (r.quot * v[2] + r.rem) * 2 ^ (w - n) + d = v[1]
  BY DEF DivMid
<1> HIDE DEF d
<1>3. v[2] \in Nat /\ 1 <= v[2] /\ v[2] < 2 ^ w /\ 2 ^ w \in Nat
  BY PowNat DEF DivOperands
<1>4. PICK m \in Nat : m = w - (n + 1)
  BY <1>1
<1>5. w - n = m + 1 /\ w - 1 = m + n /\ w = m + n + 1
  BY <1>1, <1>4
<1>6. PICK b \in 0 .. 1, e \in 0 .. 2 ^ m - 1 :
        /\ d = b * 2 ^ m + e
        /\ (d * 2 ^ n) \div 2 ^ (m + n) = b
        /\ (2 * (d * 2 ^ n)) % 2 ^ (m + n + 1) = e * 2 ^ (n + 1)
  BY <1>1, <1>2, <1>4, <1>5, TopBit
<1>7. r.dividend \div 2 ^ (w - 1) = b /\ (2 * r.dividend) % 2 ^ w = e * 2 ^ (n + 1)
  BY <1>2, <1>5, <1>6
<1>8. 2 ^ (n + 1) = 2 * 2 ^ n /\ 2 ^ n \in Nat /\ 2 ^ (n + 1) <= 2 ^ w /\ 2 ^ (n + 1) \in Nat
  BY <1>1, PowNext, PowNat, PowGrows
<1>9. (2 * r.rem) % 2 ^ w = 2 * r.rem /\ (2 * r.quot) % 2 ^ w = 2 * r.quot
  <2>1. 2 * r.rem \in Nat /\ 2 * r.rem < 2 ^ w /\ 2 * r.quot \in Nat /\ 2 * r.quot < 2 ^ w
    BY <1>1, <1>8, <1>3
  <2> QED
    BY <1>3, <2>1, BelowItself
<1> PICK next : next = 2 * r.rem + b
  OBVIOUS
<1>10. /\ DOMAIN t = DOMAIN r
       /\ t.rem = IF next >= v[2] THEN next - v[2] ELSE next
       /\ t.quot = 2 * r.quot + (IF next >= v[2] THEN 1 ELSE 0)
       /\ t.dividend = e * 2 ^ (n + 1) /\ t.idx = n + 1 /\ t.divisor = v[2]
       /\ \A x \in DOMAIN r : x \notin {"dividend", "rem", "quot", "idx"} => t[x] = r[x]
  <2>1. next = ((2 * r.rem) % 2 ^ w) + b
    BY <1>9
  <2> HIDE DEF t
  <2>2. /\ DOMAIN t = DOMAIN r
        /\ t.rem = IF next >= r.divisor THEN next - r.divisor ELSE next
        /\ t.quot = ((2 * r.quot) % 2 ^ w) + (IF next >= r.divisor THEN 1 ELSE 0)
        /\ t.dividend = (2 * r.dividend) % 2 ^ w
        /\ t.idx = r.idx + 1 /\ t.divisor = r.divisor
        /\ \A x \in DOMAIN r : x \notin {"dividend", "rem", "quot", "idx"} => t[x] = r[x]
    BY <1>1, <1>7, <2>1, DivLoopFields DEF t
  <2> QED
    BY <1>1, <1>7, <1>9, <2>2
<1> HIDE DEF t
<1>11. DOMAIN s = DOMAIN r /\ \A x \in DOMAIN r : s[x] = t[x]
  BY <1>10 DEF Written
<1> HIDE DEF s
<1>12. /\ s.rem = t.rem /\ s.quot = t.quot /\ s.dividend = t.dividend
       /\ s.idx = t.idx /\ s.divisor = t.divisor
  BY <1>1, <1>11
<1>13. t.rem \in 0 .. v[2] - 1 /\ t.rem < 2 ^ (n + 1) /\ t.quot \in 0 .. 2 ^ (n + 1) - 1
  BY <1>1, <1>3, <1>8, <1>10
<1>14. t.quot * v[2] + t.rem = 2 * (r.quot * v[2] + r.rem) + b
  <2>1. CASE next >= v[2]
    <3>1. t.quot = 2 * r.quot + 1 /\ t.rem = 2 * r.rem + b - v[2]
      BY <1>1, <1>3, <1>10, <2>1
    <3>2. (2 * r.quot + 1) * v[2] = 2 * (r.quot * v[2]) + v[2] /\ r.quot * v[2] \in Nat
      BY <1>1, <1>3
    <3> QED
      BY <1>1, <1>3, <3>1, <3>2
  <2>2. CASE ~(next >= v[2])
    <3>1. t.quot = 2 * r.quot /\ t.rem = 2 * r.rem + b
      BY <1>1, <1>10, <2>2
    <3>2. (2 * r.quot) * v[2] = 2 * (r.quot * v[2]) /\ r.quot * v[2] \in Nat
      BY <1>1, <1>3
    <3> QED
      BY <1>1, <1>3, <3>1, <3>2
  <2> QED
    BY <2>1, <2>2
<1>15. (t.quot * v[2] + t.rem) * 2 ^ (w - (n + 1)) + e = v[1]
  <2>1. PICK P \in Nat : P = 2 ^ m
    BY PowNat
  <2>2. 2 ^ (w - n) = 2 * P /\ 2 ^ (w - (n + 1)) = P
    BY <1>4, <1>5, <2>1, PowNext
  <2>3. PICK y \in Nat : y = r.quot * v[2] + r.rem
    BY <1>1, <1>3
  <2>4. y * (2 * P) + (b * P + e) = v[1]
    BY <1>2, <1>6, <2>1, <2>2, <2>3
  <2>5. y * (2 * P) + (b * P + e) = (2 * y + b) * P + e
    BY <1>6
  <2> QED
    BY <1>14, <2>2, <2>3, <2>4, <2>5
<1>16. (e * 2 ^ (n + 1)) \div 2 ^ (n + 1) = e
  <2>1. 2 ^ (n + 1) \in Nat \ {0} /\ 0 < 2 ^ (n + 1)
    BY <1>1, PowPositive
  <2>2. e \in Nat /\ 0 \in Nat
    BY <1>6, PowNat
  <2>3. (e * 2 ^ (n + 1) + 0) \div 2 ^ (n + 1) = e
    BY <2>1, <2>2, QuotientIs
  <2>4. e * 2 ^ (n + 1) \in Nat
    BY <2>1, <2>2
  <2> QED
    BY <2>3, <2>4
<1>17. e \in 0 .. 2 ^ (w - (n + 1)) - 1
  BY <1>4, <1>6
<1>18. DivMid(w, s, v, n + 1)
  <2>1. s.dividend \div 2 ^ (n + 1) = e
    BY <1>10, <1>12, <1>16
  <2>2. n + 1 \in 0 .. w
    BY <1>1
  <2>3. {"dividend", "divisor", "rem", "quot", "idx"} \subseteq DOMAIN s
    BY <1>1, <1>11
  <2> QED
    BY <1>10, <1>12, <1>13, <1>15, <1>17, <2>1, <2>2, <2>3 DEF DivMid
<1>19. Fit(w, t)
  <2>1. t.rem \in 0 .. 2 ^ w - 1 /\ t.quot \in 0 .. 2 ^ w - 1 /\ t.idx \in 0 .. w
    BY <1>1, <1>3, <1>8, <1>10, <1>13
  <2> QED
    BY <1>10, <2>1 DEF Fit
<1> QED
  BY <1>18, <1>19 DEF s, t

\* and after the last one the registers hold the answer.
LEMMA DivEnds ==
  ASSUME NEW w \in Nat \ {0}, NEW v, DivOperands(w, v), NEW r, DivMid(w, r, v, w)
  PROVE  <<r.quot, r.rem>> = Div(v[1], v[2])
<1> DEFINE d == r.dividend \div 2 ^ w
<1>1. 2 ^ (w - w) = 1
  <2>1. w - w = 0
    OBVIOUS
  <2>2. 2 ^ 0 = 1
    OBVIOUS
  <2> QED
    BY <2>1, <2>2
<1>2. /\ d \in 0 .. 2 ^ (w - w) - 1 /\ (r.quot * v[2] + r.rem) * 2 ^ (w - w) + d = v[1]
      /\ r.rem \in 0 .. v[2] - 1 /\ r.quot \in 0 .. 2 ^ w - 1
  BY DEF DivMid
<1> HIDE DEF d
<1>3. v[2] \in Nat \ {0} /\ 2 ^ w \in Nat
  BY PowNat DEF DivOperands
<1>4. r.rem \in Nat /\ r.rem < v[2] /\ r.quot \in Nat
  BY <1>2, <1>3
<1>5. r.quot * v[2] + r.rem = v[1]
  BY <1>1, <1>2, <1>3, <1>4
<1> QED
  BY <1>3, <1>4, <1>5, QuotientIs DEF Div

-----------------------------------------------------------------------------

\* isqrt32. A multiple of m is divisible by m.
LEMMA MultipleIs ==
  ASSUME NEW m \in Nat \ {0}, NEW c \in Nat
  PROVE  (c * m) \div m = c /\ (c * m) % m = 0
<1>1. 0 \in Nat /\ 0 < m
  OBVIOUS
<1>2. (c * m + 0) \div m = c /\ (c * m + 0) % m = 0
  BY <1>1, QuotientIs
<1>3. c * m \in Nat
  OBVIOUS
<1> QED
  BY <1>2, <1>3

\* One iteration, as numbers: t is half of s, root is what has been found.
LEMMA IsqrtDigit ==
  ASSUME NEW t \in Nat \ {0}, NEW root \in Nat, NEW n \in Nat, NEW x \in Nat,
         root * root + n = x, x < (root + 2 * t) * (root + 2 * t)
  PROVE  LET fits == n >= root * (2 * t) + t * t
             found == IF fits THEN root + t ELSE root
             left == IF fits THEN n - (root * (2 * t) + t * t) ELSE n
         IN  /\ found \in Nat /\ left \in Nat
             /\ found * found + left = x /\ x < (found + t) * (found + t)
             /\ (root * (2 * t)) \div 2 + (IF fits THEN t * t ELSE 0) = found * t
<1>1. /\ root * root \in Nat /\ root * t \in Nat /\ t * t \in Nat
      /\ root * (2 * t) = 2 * (root * t)
      /\ (root + t) * (root + t) = root * root + 2 * (root * t) + t * t
      /\ (root + t) * t = root * t + t * t
  OBVIOUS
<1>2. (root + t) + t = root + 2 * t
  OBVIOUS
<1>3. PICK a \in Nat, b \in Nat, c \in Nat : a = root * root /\ b = root * t /\ c = t * t
  BY <1>1
<1>4. (2 * b) \div 2 = b
  OBVIOUS
<1>5. CASE n >= root * (2 * t) + t * t
  <2>1. n >= 2 * b + c /\ n - (2 * b + c) \in Nat
    BY <1>1, <1>3, <1>5
  <2>2. (root + t) * (root + t) + (n - (2 * b + c)) = x
    BY <1>1, <1>3, <2>1
  <2> QED
    BY <1>1, <1>2, <1>3, <1>4, <1>5, <2>1, <2>2
<1>6. CASE ~(n >= root * (2 * t) + t * t)
  <2>1. x < (root + t) * (root + t)
    BY <1>1, <1>3, <1>6
  <2> QED
    BY <1>1, <1>3, <1>4, <1>6, <2>1
<1> QED
  BY <1>5, <1>6

\* The load state reaches IsqrtMid,
LEMMA IsqrtBegins ==
  ASSUME NEW w \in Nat \ {0}, NEW v \in 0 .. 2 ^ (2 * w) - 1, NEW old
  PROVE  IsqrtMid(w, Written(IsqrtLoad(v, w), old), v, 0) /\ Fit(w, IsqrtLoad(v, w))
<1> DEFINE r == Written(IsqrtLoad(v, w), old)
<1>1. r.n = v /\ r.bit_val = 2 ^ (2 * w - 2) /\ r.result = 0 /\ r.idx = 0
  BY DEF Written, IsqrtLoad
<1> HIDE DEF r
<1>2. PICK m \in Nat : m + 1 = w
  <2>1. w - 1 \in Nat /\ (w - 1) + 1 = w
    OBVIOUS
  <2> QED
    BY <2>1
<1>3. PICK s \in Nat \ {0} : s = 2 ^ w
  BY PowPositive
<1>4. 2 ^ (2 * w) = s * s
  BY <1>3, Doubled
<1>5. v \in Nat /\ v < s * s
  BY <1>3, <1>4
<1>6. 2 ^ (2 * w - 2) = 2 ^ (w - 0 - 1) * 2 ^ (w - 0 - 1)
  <2>1. 2 * w - 2 = 2 * m /\ w - 0 - 1 = m
    BY <1>2
  <2> QED
    BY <2>1, Doubled
<1>7. 0 \div s = 0 /\ 0 % s = 0 /\ 0 * s = 0 /\ 0 + s = s /\ 0 * 0 + v = v
  <2>1. (0 * s) \div s = 0 /\ (0 * s) % s = 0
    BY MultipleIs
  <2> QED
    BY <1>5, <2>1
<1>8. w - 0 = w /\ 0 \in 0 .. w
  OBVIOUS
<1>9. IsqrtMid(w, r, v, 0)
  BY <1>1, <1>3, <1>5, <1>6, <1>7, <1>8 DEF IsqrtMid
<1>10. Fit(w, IsqrtLoad(v, w))
  BY DEF Fit, IsqrtLoad
<1> QED
  BY <1>9, <1>10 DEF r

\* an iteration finds one more bit of the root,
LEMMA IsqrtIterates ==
  ASSUME NEW w \in Nat \ {0}, NEW v \in Nat, NEW r, NEW n, IsqrtMid(w, r, v, n), n < w
  PROVE  IsqrtMid(w, Written(IsqrtLoop(r), r), v, n + 1) /\ Fit(w, IsqrtLoop(r))
<1> DEFINE u == IsqrtLoop(r)
           z == Written(u, r)
<1>1. PICK m \in Nat : m = w - (n + 1) /\ w - n = m + 1 /\ n \in Nat /\ n + 1 \in 0 .. w
  BY DEF IsqrtMid
<1>2. PICK t \in Nat \ {0} : t = 2 ^ m
  BY PowPositive
<1>3. 2 ^ (w - n) = 2 * t
  BY <1>1, <1>2, PowNext
<1>4. PICK root : root = r.result \div (2 * t)
  OBVIOUS
<1>5. /\ root \in Nat /\ r.n \in Nat /\ r.idx = n
      /\ r.result = root * (2 * t) /\ root % (2 * t) = 0
      /\ root * root + r.n = v /\ v < (root + 2 * t) * (root + 2 * t)
      /\ r.bit_val = 2 ^ (w - n - 1) * 2 ^ (w - n - 1)
  BY <1>3, <1>4 DEF IsqrtMid
<1>6. r.bit_val = t * t
  <2>1. w - n - 1 = m
    BY <1>1
  <2> QED
    BY <1>2, <1>5, <2>1
<1> DEFINE fits == r.n >= root * (2 * t) + t * t
           found == IF fits THEN root + t ELSE root
           left == IF fits THEN r.n - (root * (2 * t) + t * t) ELSE r.n
<1>7. /\ u.n = left /\ u.result = (root * (2 * t)) \div 2 + (IF fits THEN t * t ELSE 0)
      /\ u.bit_val = (t * t) \div 4 /\ u.idx = n + 1
      /\ DOMAIN u = {"n", "result", "bit_val", "idx"}
  BY <1>5, <1>6 DEF IsqrtLoop
<1>8. /\ found \in Nat /\ left \in Nat
      /\ found * found + left = v /\ v < (found + t) * (found + t)
      /\ (root * (2 * t)) \div 2 + (IF fits THEN t * t ELSE 0) = found * t
  BY <1>5, IsqrtDigit
<1> HIDE DEF u
<1>9. z.n = u.n /\ z.result = u.result /\ z.bit_val = u.bit_val /\ z.idx = u.idx
  BY <1>7 DEF Written
<1> HIDE DEF z
<1>10. \E c \in Nat : found = c * t
  <2>1. PICK c : c = root \div (2 * t)
    OBVIOUS
  <2>2. root = c * (2 * t) /\ c \in Nat
    <3>1. 2 * t \in Nat /\ 2 * t # 0
      OBVIOUS
    <3>2. root = c * (2 * t) + (root % (2 * t)) /\ c \in Nat
      BY <1>5, <2>1, <3>1, Division
    <3>3. c * (2 * t) \in Nat
      BY <3>1, <3>2
    <3> QED
      BY <1>5, <3>2, <3>3
  <2>3. root = (2 * c) * t /\ root + t = (2 * c + 1) * t /\ 2 * c \in Nat /\ 2 * c + 1 \in Nat
    BY <2>2
  <2> QED
    BY <2>3
<1> HIDE DEF found, left, fits
<1>11. found % t = 0
  BY <1>10, MultipleIs
<1>12. (found * t) \div t = found
  BY <1>8, MultipleIs
<1>13. n + 1 < w => (t * t) \div 4 = 2 ^ (w - (n + 1) - 1) * 2 ^ (w - (n + 1) - 1)
  <2> SUFFICES ASSUME n + 1 < w
               PROVE  (t * t) \div 4 = 2 ^ (w - (n + 1) - 1) * 2 ^ (w - (n + 1) - 1)
    OBVIOUS
  <2>1. PICK i \in Nat : i = w - (n + 1) - 1 /\ m = i + 1
    BY <1>1
  <2>2. PICK h \in Nat : h = 2 ^ i /\ t = 2 * h
    BY <1>2, <2>1, PowNext, PowNat
  <2>3. (t * t) \div 4 = h * h
    <3>1. t * t = (h * h) * 4 /\ h * h \in Nat
      BY <2>2
    <3>2. 4 \in Nat \ {0}
      OBVIOUS
    <3> QED
      BY <3>1, <3>2, MultipleIs
  <2> QED
    BY <2>1, <2>2, <2>3
<1>14. IsqrtMid(w, z, v, n + 1)
  <2>1. 2 ^ (w - (n + 1)) = t
    BY <1>1, <1>2
  <2>2. z.result = found * t /\ z.n = left /\ z.bit_val = (t * t) \div 4 /\ z.idx = n + 1
    BY <1>7, <1>8, <1>9
  <2> QED
    BY <1>1, <1>8, <1>11, <1>12, <1>13, <2>1, <2>2 DEF IsqrtMid
<1>15. Fit(w, u)
  BY <1>1, <1>7 DEF Fit
<1> QED
  BY <1>14, <1>15 DEF u, z

\* and after the last one result is the root.
LEMMA IsqrtEnds ==
  ASSUME NEW w \in Nat \ {0}, NEW v \in 0 .. 2 ^ (2 * w) - 1, NEW r, IsqrtMid(w, r, v, w)
  PROVE  r.result % 2 ^ w = Isqrt(v, w)
<1>1. 2 ^ (w - w) = 1
  <2>1. w - w = 0
    OBVIOUS
  <2>2. 2 ^ 0 = 1
    OBVIOUS
  <2> QED
    BY <2>1, <2>2
<1>2. PICK root : root = r.result \div 1
  OBVIOUS
<1>3. /\ root \in Nat /\ r.n \in Nat /\ r.result = root * 1
      /\ root * root + r.n = v /\ v < (root + 1) * (root + 1)
  BY <1>1, <1>2 DEF IsqrtMid
<1>4. r.result = root /\ IsRoot(root, v)
  BY <1>3 DEF IsRoot
<1>5. v \in Nat /\ 2 ^ w \in Nat /\ v < 2 ^ w * 2 ^ w
  <2>1. 2 ^ (2 * w) = 2 ^ w * 2 ^ w /\ 2 ^ (2 * w) \in Nat /\ 2 ^ w \in Nat
    BY Doubled, PowNat
  <2> QED
    BY <2>1
<1>6. Isqrt(v, w) = root
  BY <1>4, <1>5, IsqrtIsRoot, RootIsUnique
<1>7. root < 2 ^ w
  <2>1. 2 ^ w <= root => 2 ^ w * 2 ^ w <= root * root
    BY <1>3, <1>5, Squares
  <2>2. root * root \in Nat /\ 2 ^ w * 2 ^ w \in Nat
    BY <1>3, <1>5
  <2> QED
    BY <1>3, <1>5, <2>1, <2>2
<1> QED
  BY <1>3, <1>4, <1>5, <1>6, <1>7, BelowItself

-----------------------------------------------------------------------------

\* crc8. The load state reaches CrcMid,
LEMMA CrcBegins ==
  ASSUME NEW w \in Nat \ {0}, NEW v \in Bits(w), NEW old
  PROVE  CrcMid(w, Written(CrcLoad(v), old), v, 0) /\ Fit(w, CrcLoad(v))
<1> DEFINE r == Written(CrcLoad(v), old)
<1>1. r.shift = v /\ r.crc = Zeros(8) /\ r.idx = 0
  BY DEF Written, CrcLoad
<1> HIDE DEF r
<1>2. v \in [1 .. w -> Bit]
  BY DEF Bits
<1>3. PICK F : CrcsOf(F, w, v)
  BY <1>2, CrcsExist
<1>4. FoldLeft(CrcBit, CrcInit, SubSeq(v, 1, 0)) = Zeros(8)
  <2>1. 0 \in 0 .. w /\ w \in Nat
    OBVIOUS
  <2>2. FoldLeft(CrcBit, CrcInit, SubSeq(v, 1, 0)) = F[0]
    BY <1>2, <1>3, <2>1, CrcOfPrefix
  <2> QED
    BY <1>3, <2>2 DEF CrcsOf, CrcInit
<1>5. CrcMid(w, r, v, 0)
  BY <1>1, <1>4 DEF CrcMid, Shifted
<1>6. Fit(w, CrcLoad(v))
  BY DEF Fit, CrcLoad
<1> QED
  BY <1>5, <1>6 DEF r

\* an iteration takes in one more bit,
LEMMA CrcIterates ==
  ASSUME NEW w \in Nat \ {0}, NEW v \in Bits(w), NEW r, NEW n, CrcMid(w, r, v, n), n < w
  PROVE  CrcMid(w, Written(CrcLoop(r), r), v, n + 1) /\ Fit(w, CrcLoop(r))
<1> DEFINE t == CrcLoop(r)
           s == Written(t, r)
<1>1. /\ t.shift = ShiftedRight(r.shift) /\ t.crc = CrcBit(r.crc, r.shift[1])
      /\ t.idx = r.idx + 1 /\ DOMAIN t = {"shift", "crc", "idx"}
  BY DEF CrcLoop, CrcBit, CrcPoly
<1> HIDE DEF t
<1>2. s.shift = t.shift /\ s.crc = t.crc /\ s.idx = t.idx
  BY <1>1 DEF Written
<1> HIDE DEF s
<1>3. /\ n \in 0 .. w - 1 /\ n + 1 \in 0 .. w /\ n \in 0 .. w /\ r.idx = n /\ r.shift \in Bits(w)
      /\ Shifted(w, r.shift, v, n) /\ r.crc = FoldLeft(CrcBit, CrcInit, SubSeq(v, 1, n))
  BY DEF CrcMid
<1>4. r.shift[1] = v[n + 1]
  BY <1>3 DEF Shifted
<1>5. /\ ShiftedRight(r.shift) \in Bits(w)
      /\ \A i \in 1 .. w : ShiftedRight(r.shift)[i] = IF i = w THEN 0 ELSE r.shift[i + 1]
  BY <1>3, BitsShifted
<1>6. Shifted(w, ShiftedRight(r.shift), v, n + 1)
  BY <1>3, <1>5, ShiftedNext
<1>7. v \in [1 .. w -> Bit] /\ w \in Nat
  BY DEF Bits
<1>8. PICK F : CrcsOf(F, w, v)
  BY <1>7, CrcsExist
<1>9. r.crc = F[n] /\ FoldLeft(CrcBit, CrcInit, SubSeq(v, 1, n + 1)) = F[n + 1]
  BY <1>3, <1>7, <1>8, CrcOfPrefix
<1>10. F[n + 1] = CrcBit(F[n], v[n + 1])
  BY <1>3, <1>8 DEF CrcsOf
<1>11. t.crc = FoldLeft(CrcBit, CrcInit, SubSeq(v, 1, n + 1))
  BY <1>1, <1>4, <1>9, <1>10
<1>12. CrcMid(w, s, v, n + 1)
  BY <1>1, <1>2, <1>3, <1>5, <1>6, <1>11 DEF CrcMid
<1>13. Fit(w, t)
  BY <1>1, <1>3 DEF Fit
<1> QED
  BY <1>12, <1>13 DEF s, t

\* and after the last one crc is the answer.
LEMMA CrcEnds ==
  ASSUME NEW w \in Nat \ {0}, NEW v \in Bits(w), NEW r, CrcMid(w, r, v, w)
  PROVE  r.crc = Crc8(v)
<1>1. v \in [1 .. w -> Bit] /\ w \in Nat /\ w \in 0 .. w
  BY DEF Bits
<1>2. PICK F : CrcsOf(F, w, v)
  BY <1>1, CrcsExist
<1>3. FoldLeft(CrcBit, CrcInit, SubSeq(v, 1, w)) = F[w]
  BY <1>1, <1>2, CrcOfPrefix
<1>4. Crc8(v) = F[w]
  BY <1>1, <1>2, CrcOfAll
<1> QED
  BY <1>3, <1>4 DEF CrcMid

-----------------------------------------------------------------------------

\* adler32. The bytes of data >> 8.
LEMMA BytesShifted ==
  ASSUME NEW w \in Nat \ {0}, NEW x \in Bytes(w)
  PROVE  /\ ShiftedRight(x) \in Bytes(w)
         /\ \A i \in 1 .. w : ShiftedRight(x)[i] = IF i = w THEN 0 ELSE x[i + 1]
<1>1. PICK B : B = 0 .. 255
  OBVIOUS
<1>2. x \in [1 .. w -> B] /\ 0 \in B
  BY <1>1 DEF Bytes
<1>3. /\ ShiftedRight(x) \in [1 .. w -> B]
      /\ \A i \in 1 .. w : ShiftedRight(x)[i] = IF i = w THEN 0 ELSE x[i + 1]
  BY <1>2, ShiftedRightBits
<1> QED
  BY <1>1, <1>3 DEF Bytes

\* Three conditional subtractions are a remainder by 251,
LEMMA ReducedIsMod == \A sum \in 0 .. 752 : Reduced(sum) = sum % 251
BY DEF Reduced

\* also of a sum that is kept in nine bits;
LEMMA SumReduced ==
  ASSUME NEW x \in 0 .. 250, NEW y \in 0 .. 255
  PROVE  Reduced((x + y) % 512) = (x + y) % 251
<1>1. x + y \in 0 .. 752 /\ (x + y) % 512 = x + y
  OBVIOUS
<1>2. Reduced(x + y) = (x + y) % 251
  BY <1>1, ReducedIsMod
<1> QED
  BY <1>1, <1>2

\* it is a residue
LEMMA SumIsResidue ==
  ASSUME NEW x \in 0 .. 250, NEW y \in 0 .. 255
  PROVE  (x + y) % 251 \in 0 .. 250
OBVIOUS

\* and fits into eight bits.
LEMMA ResidueIsByte == \A x \in 0 .. 250 : x % 256 = x /\ x \in 0 .. 255
OBVIOUS

\* The load state reaches AdlerMid,
LEMMA AdlerBegins ==
  ASSUME NEW w \in Nat \ {0}, NEW v \in Bytes(w), NEW old
  PROVE  AdlerMid(w, Written(AdlerLoad(v), old), v, 0) /\ Fit(w, AdlerLoad(v))
<1> DEFINE r == Written(AdlerLoad(v), old)
<1>1. r.data = v /\ r.s1 = 1 /\ r.s2 = 0 /\ r.byte_idx = 0
  BY DEF Written, AdlerLoad
<1> HIDE DEF r
<1>2. v \in Bytes(w)
  OBVIOUS
<1>3. PICK F : SumsOf(F, w, v)
  BY <1>2, SumsExist
<1>4. FoldLeft(AdlerByte, <<1, 0>>, SubSeq(v, 1, 0)) = <<1, 0>>
  <2>1. 0 \in 0 .. w /\ w \in Nat
    OBVIOUS
  <2>2. FoldLeft(AdlerByte, <<1, 0>>, SubSeq(v, 1, 0)) = F[0]
    BY <1>2, <1>3, <2>1, SumsOfPrefix
  <2> QED
    BY <1>3, <2>2 DEF SumsOf
<1>5. AdlerMid(w, r, v, 0)
  BY <1>1, <1>2, <1>4 DEF AdlerMid, Shifted
<1>6. Fit(w, AdlerLoad(v))
  BY DEF Fit, AdlerLoad
<1> QED
  BY <1>5, <1>6 DEF r

\* an iteration takes in one more byte,
LEMMA AdlerIterates ==
  ASSUME NEW w \in Nat \ {0}, NEW v \in Bytes(w), NEW r, NEW n, AdlerMid(w, r, v, n), n < w
  PROVE  AdlerMid(w, Written(AdlerLoop(r), r), v, n + 1) /\ Fit(w, AdlerLoop(r))
<1> DEFINE t == AdlerLoop(r)
           s == Written(t, r)
<1>1. /\ t.s1 = Reduced((r.s1 + r.data[1]) % 512) % 256
      /\ t.s2 = Reduced((r.s2 + Reduced((r.s1 + r.data[1]) % 512)) % 512) % 256
      /\ t.data = ShiftedRight(r.data) /\ t.byte_idx = r.byte_idx + 1
      /\ DOMAIN t = {"s1", "s2", "data", "byte_idx"}
  BY DEF AdlerLoop
<1> HIDE DEF t
<1>2. s.s1 = t.s1 /\ s.s2 = t.s2 /\ s.data = t.data /\ s.byte_idx = t.byte_idx
  BY <1>1 DEF Written
<1> HIDE DEF s
<1>3. /\ n \in 0 .. w - 1 /\ n + 1 \in 0 .. w /\ n \in 0 .. w
      /\ r.byte_idx = n /\ r.data \in Bytes(w) /\ Shifted(w, r.data, v, n)
      /\ <<r.s1, r.s2>> = FoldLeft(AdlerByte, <<1, 0>>, SubSeq(v, 1, n))
  BY DEF AdlerMid
<1>4. r.data[1] = v[n + 1] /\ v[n + 1] \in 0 .. 255
  BY <1>3 DEF Shifted, Bytes
<1>5. /\ ShiftedRight(r.data) \in Bytes(w)
      /\ \A i \in 1 .. w : ShiftedRight(r.data)[i] = IF i = w THEN 0 ELSE r.data[i + 1]
  BY <1>3, BytesShifted
<1>6. Shifted(w, ShiftedRight(r.data), v, n + 1)
  BY <1>3, <1>5, ShiftedNext
<1>7. w \in Nat
  OBVIOUS
<1>8. PICK F : SumsOf(F, w, v)
  BY <1>7, SumsExist
<1>9. <<r.s1, r.s2>> = F[n] /\ FoldLeft(AdlerByte, <<1, 0>>, SubSeq(v, 1, n + 1)) = F[n + 1]
  BY <1>3, <1>7, <1>8, SumsOfPrefix
<1>10. F[n + 1] = AdlerByte(F[n], v[n + 1]) /\ F[n] \in Residues
  BY <1>3, <1>8 DEF SumsOf
<1>11. r.s1 \in 0 .. 250 /\ r.s2 \in 0 .. 250
  <2>1. <<r.s1, r.s2>> \in (0 .. 250) \X (0 .. 250)
    BY <1>9, <1>10 DEF Residues
  <2> QED
    BY <2>1
<1>12. PICK a \in 0 .. 250, b \in 0 .. 250, c \in 0 .. 255 : a = r.s1 /\ b = r.s2 /\ c = v[n + 1]
  BY <1>4, <1>11
<1> DEFINE x == (a + c) % 251
           y == (b + x) % 251
<1>13. x \in 0 .. 250 /\ Reduced((a + c) % 512) = x
  <2>1. Reduced((a + c) % 512) = x
    BY SumReduced
  <2>2. x \in 0 .. 250
    BY SumIsResidue
  <2> QED
    BY <2>1, <2>2
<1>14. AdlerByte(<<a, b>>, c) = <<x, y>>
  BY DEF AdlerByte, MOD
<1>15. t.s1 = Reduced((a + c) % 512) % 256
       /\ t.s2 = Reduced((b + Reduced((a + c) % 512)) % 512) % 256
  BY <1>1, <1>4, <1>12
<1> HIDE DEF x
<1>16. x \in 0 .. 255
  BY <1>13
<1>17. x % 256 = x
  BY <1>13, ResidueIsByte
<1>18. y \in 0 .. 250 /\ Reduced((b + x) % 512) = y
  <2>1. Reduced((b + x) % 512) = y
    BY <1>16, SumReduced
  <2>2. y \in 0 .. 250
    BY <1>16, SumIsResidue
  <2> QED
    BY <2>1, <2>2
<1> HIDE DEF y
<1>19. y % 256 = y
  BY <1>18, ResidueIsByte
<1>20. t.s1 = x /\ t.s2 = y
  <2>1. Reduced((a + c) % 512) = x
    BY <1>13
  <2>2. Reduced((b + x) % 512) = y
    BY <1>18
  <2>3. t.s1 = x % 256
    BY <1>15, <2>1
  <2>4. t.s2 = y % 256
    BY <1>15, <2>1, <2>2
  <2> QED
    BY <1>19, <1>17, <2>3, <2>4
<1>21. <<t.s1, t.s2>> = FoldLeft(AdlerByte, <<1, 0>>, SubSeq(v, 1, n + 1))
  BY <1>4, <1>9, <1>10, <1>12, <1>14, <1>20
<1>22. AdlerMid(w, s, v, n + 1)
  BY <1>1, <1>2, <1>3, <1>5, <1>6, <1>21 DEF AdlerMid
<1>23. Fit(w, t)
  BY <1>1, <1>3, <1>13, <1>18, <1>20 DEF Fit
<1> QED
  BY <1>22, <1>23 DEF s, t

\* and after the last one the sums are the answer.
LEMMA AdlerEnds ==
  ASSUME NEW w \in Nat \ {0}, NEW v \in Bytes(w), NEW r, AdlerMid(w, r, v, w)
  PROVE  <<r.s1, r.s2>> = Adler(v)
<1>1. w \in Nat /\ w \in 0 .. w
  OBVIOUS
<1>2. PICK F : SumsOf(F, w, v)
  BY <1>1, SumsExist
<1>3. FoldLeft(AdlerByte, <<1, 0>>, SubSeq(v, 1, w)) = F[w]
  BY <1>1, <1>2, SumsOfPrefix
<1>4. Adler(v) = F[w]
  BY <1>1, <1>2, SumsOfAll
<1> QED
  BY <1>3, <1>4 DEF AdlerMid

-----------------------------------------------------------------------------

\* matvec_2x2_int4. Sums may be cut to eight bits at any time,
LEMMA Int8Congruent ==
  ASSUME NEW a \in Int, NEW b \in Int
  PROVE  /\ Int8(a) \in Int /\ Int8(a) % 256 = a % 256
         /\ (Int8(a) + b) % 256 = (a + b) % 256
<1>1. 2 ^ 8 = 256
  OBVIOUS
<1>2. Int8(a) = IF 2 * (a % 256) >= 256 THEN (a % 256) - 256 ELSE a % 256
  BY <1>1 DEF Int8, SignExtended
<1> QED
  BY <1>2

\* once or twice, and have the same low byte.
LEMMA Int8Twice ==
  ASSUME NEW p \in Int, NEW q \in Int
  PROVE  Int8(Int8(p) + q) % 256 = (p + q) % 256
<1>1. Int8(p) \in Int
  BY Int8Congruent
<1>2. Int8(p) + q \in Int
  BY <1>1
<1>3. (Int8(p) + q) % 256 = (p + q) % 256
  BY Int8Congruent
<1>4. Int8(Int8(p) + q) % 256 = (Int8(p) + q) % 256
  BY <1>2, Int8Congruent
<1> QED
  BY <1>3, <1>4

\* A nibble stands for an integer.
LEMMA Int4Type == \A x \in 0 .. 15 : SignExtended(x, 4) \in Int
<1>1. 2 ^ 4 \in Int
  OBVIOUS
<1> QED
  BY <1>1 DEF SignExtended

\* What a step writes into r0 and r1.
R0Next(r) == CASE r.step = 0 -> Int8(r.m00 * r.v0)
               [] r.step = 1 -> Int8(r.r0 + r.m01 * r.v1)
               [] OTHER -> r.r0
\* Written into r1.
R1Next(r) == CASE r.step = 2 -> Int8(r.m10 * r.v0)
               [] r.step = 3 -> Int8(r.r1 + r.m11 * r.v1)
               [] OTHER -> r.r1

\* A step, by its number.
LEMMA MatvecNext ==
  ASSUME NEW r
  PROVE  /\ MatvecStep(r) = [r EXCEPT !.step = r.step + 1, !.r0 = R0Next(r), !.r1 = R1Next(r)]
         /\ r.step = 0 => R0Next(r) = Int8(r.m00 * r.v0)
         /\ r.step = 1 => R0Next(r) = Int8(r.r0 + r.m01 * r.v1)
         /\ r.step # 0 /\ r.step # 1 => R0Next(r) = r.r0
         /\ r.step = 2 => R1Next(r) = Int8(r.m10 * r.v0)
         /\ r.step = 3 => R1Next(r) = Int8(r.r1 + r.m11 * r.v1)
         /\ r.step # 2 /\ r.step # 3 => R1Next(r) = r.r1
<1>1. MatvecStep(r) = [r EXCEPT !.step = r.step + 1, !.r0 = R0Next(r), !.r1 = R1Next(r)]
  BY Zenon DEF MatvecStep, R0Next, R1Next
<1>2. ~(0 = 1) /\ ~(2 = 3)
  OBVIOUS
<1>3. r.step = 0 => R0Next(r) = Int8(r.m00 * r.v0)
  <2>1. r.step = 0 => ~(r.step = 1)
    BY <1>2
  <2> QED
    BY <2>1, Zenon DEF R0Next
<1>4. r.step = 1 => R0Next(r) = Int8(r.r0 + r.m01 * r.v1)
  <2>1. r.step = 1 => ~(r.step = 0)
    BY <1>2
  <2> QED
    BY <2>1, Zenon DEF R0Next
<1>5. r.step # 0 /\ r.step # 1 => R0Next(r) = r.r0
  BY Zenon DEF R0Next
<1>6. r.step = 2 => R1Next(r) = Int8(r.m10 * r.v0)
  <2>1. r.step = 2 => ~(r.step = 3)
    BY <1>2
  <2> QED
    BY <2>1, Zenon DEF R1Next
<1>7. r.step = 3 => R1Next(r) = Int8(r.r1 + r.m11 * r.v1)
  <2>1. r.step = 3 => ~(r.step = 2)
    BY <1>2
  <2> QED
    BY <2>1, Zenon DEF R1Next
<1>8. r.step # 2 /\ r.step # 3 => R1Next(r) = r.r1
  BY Zenon DEF R1Next
<1> QED
  BY <1>1, <1>3, <1>4, <1>5, <1>6, <1>7, <1>8, Zenon

\* The load state reaches MatvecMid.
LEMMA MatvecBegins ==
  ASSUME NEW w \in Nat \ {0}, NEW v, NEW old
  PROVE  MatvecMid(Written(MatvecLoad(v), old), v, 0) /\ Fit(w, MatvecLoad(v))
<1> DEFINE r == Written(MatvecLoad(v), old)
           s == [i \in 1 .. 6 |-> SignExtended(v[i], 4)]
<1>1. /\ r.m00 = s[1] /\ r.m01 = s[2] /\ r.m10 = s[3] /\ r.m11 = s[4]
      /\ r.v0 = s[5] /\ r.v1 = s[6] /\ r.step = 0
      /\ {"m00", "m01", "m10", "m11", "v0", "v1", "r0", "r1", "step"} \subseteq DOMAIN r
  BY DEF Written, MatvecLoad
<1> HIDE DEF r
<1>2. MatvecMid(r, v, 0)
  BY <1>1 DEF MatvecMid
<1>3. Fit(w, MatvecLoad(v))
  BY DEF Fit, MatvecLoad
<1> QED
  BY <1>2, <1>3 DEF r

\* The registers of the design,
MatvecFields == {"m00", "m01", "m10", "m11", "v0", "v1", "r0", "r1", "step"}

\* and its outputs.
MatvecOut(r) == <<r.r0 % 256, r.r1 % 256>>

\* A step goes from one MatvecMid to the next, and the last one gives the answer.
LEMMA MatvecIterates ==
  ASSUME NEW w \in Nat \ {0}, NEW v \in [1 .. 6 -> 0 .. 15], NEW r, NEW n, MatvecMid(r, v, n),
         Fit(w, r)
  PROVE  /\ r.step # 4 => MatvecMid(Written(MatvecStep(r), r), v, n + 1)
         /\ r.step = 4 => n = 4 /\ MatvecOut(r) = Matvec(v)
         /\ Fit(w, MatvecStep(r))
<1> DEFINE s == [i \in 1 .. 6 |-> SignExtended(v[i], 4)]
           t == MatvecStep(r)
           z == Written(t, r)
<1>1. /\ MatvecFields \subseteq DOMAIN r /\ n \in 0 .. 4 /\ r.step = n
      /\ r.m00 = s[1] /\ r.m01 = s[2] /\ r.m10 = s[3] /\ r.m11 = s[4]
      /\ r.v0 = s[5] /\ r.v1 = s[6]
      /\ n = 1 => r.r0 = Int8(s[1] * s[5])
      /\ n >= 2 => r.r0 = Int8(Int8(s[1] * s[5]) + s[2] * s[6])
      /\ n = 3 => r.r1 = Int8(s[3] * s[5])
      /\ n = 4 => r.r1 = Int8(Int8(s[3] * s[5]) + s[4] * s[6])
  BY DEF MatvecMid, MatvecFields
<1>2. \A i \in 1 .. 6 : s[i] \in Int
  BY Int4Type
<1> HIDE DEF s
<1>3. /\ DOMAIN t = DOMAIN r /\ t.step = n + 1 /\ t.r0 = R0Next(r) /\ t.r1 = R1Next(r)
      /\ \A x \in DOMAIN r : x \notin {"step", "r0", "r1"} => t[x] = r[x]
  <2> HIDE DEF t
  <2>1. t = [r EXCEPT !.step = r.step + 1, !.r0 = R0Next(r), !.r1 = R1Next(r)]
    BY MatvecNext, Zenon DEF t
  <2> QED
    BY <1>1, <2>1 DEF MatvecFields
<1> HIDE DEF t
<1>4. DOMAIN z = DOMAIN r /\ \A x \in DOMAIN r : z[x] = t[x]
  BY <1>3 DEF Written
<1> HIDE DEF z
<1>5. /\ z.step = n + 1 /\ z.r0 = R0Next(r) /\ z.r1 = R1Next(r)
      /\ z.m00 = s[1] /\ z.m01 = s[2] /\ z.m10 = s[3] /\ z.m11 = s[4]
      /\ z.v0 = s[5] /\ z.v1 = s[6] /\ MatvecFields \subseteq DOMAIN z
  BY <1>1, <1>3, <1>4 DEF MatvecFields
<1>6. /\ n = 0 => R0Next(r) = Int8(s[1] * s[5])
      /\ n = 1 => R0Next(r) = Int8(Int8(s[1] * s[5]) + s[2] * s[6])
      /\ n >= 2 => R0Next(r) = r.r0
      /\ n = 2 => R1Next(r) = Int8(s[3] * s[5])
      /\ n = 3 => R1Next(r) = Int8(Int8(s[3] * s[5]) + s[4] * s[6])
  <2>1. n = 0 => R0Next(r) = Int8(s[1] * s[5])
    BY <1>1, MatvecNext
  <2>2. n = 1 => R0Next(r) = Int8(Int8(s[1] * s[5]) + s[2] * s[6])
    BY <1>1, MatvecNext
  <2>3. n >= 2 => R0Next(r) = r.r0
    <3>1. n >= 2 => r.step # 0 /\ r.step # 1
      BY <1>1
    <3> QED
      BY <3>1, MatvecNext, Zenon
  <2>4. n = 2 => R1Next(r) = Int8(s[3] * s[5])
    BY <1>1, MatvecNext
  <2>5. n = 3 => R1Next(r) = Int8(Int8(s[3] * s[5]) + s[4] * s[6])
    BY <1>1, MatvecNext
  <2> QED
    BY <2>1, <2>2, <2>3, <2>4, <2>5
<1>7. r.step # 4 => MatvecMid(z, v, n + 1)
  BY <1>1, <1>5, <1>6 DEF MatvecMid, MatvecFields, s
<1>8. n = 4 => MatvecOut(r) = Matvec(v)
  <2> SUFFICES ASSUME n = 4
               PROVE  <<r.r0 % 256, r.r1 % 256>> = Matvec(v)
    BY DEF MatvecOut
  <2>1. r.r0 % 256 = (s[1] * s[5] + s[2] * s[6]) % 256
    <3>1. r.r0 = Int8(Int8(s[1] * s[5]) + s[2] * s[6])
      BY <1>1
    <3>2. PICK p \in Int, q \in Int : p = s[1] * s[5] /\ q = s[2] * s[6]
      <4>1. s[1] \in Int /\ s[5] \in Int /\ s[2] \in Int /\ s[6] \in Int
        BY <1>2
      <4>2. s[1] * s[5] \in Int /\ s[2] * s[6] \in Int
        BY <4>1
      <4> QED
        BY <4>2
    <3>3. Int8(Int8(p) + q) % 256 = (p + q) % 256
      BY Int8Twice
    <3>4. r.r0 = Int8(Int8(p) + q)
      BY <3>1, <3>2
    <3> QED
      BY <3>2, <3>3, <3>4
  <2>2. r.r1 % 256 = (s[3] * s[5] + s[4] * s[6]) % 256
    <3>1. r.r1 = Int8(Int8(s[3] * s[5]) + s[4] * s[6])
      BY <1>1
    <3>2. PICK p \in Int, q \in Int : p = s[3] * s[5] /\ q = s[4] * s[6]
      <4>1. s[3] \in Int /\ s[5] \in Int /\ s[4] \in Int /\ s[6] \in Int
        BY <1>2
      <4>2. s[3] * s[5] \in Int /\ s[4] * s[6] \in Int
        BY <4>1
      <4> QED
        BY <4>2
    <3>3. Int8(Int8(p) + q) % 256 = (p + q) % 256
      BY Int8Twice
    <3>4. r.r1 = Int8(Int8(p) + q)
      BY <3>1, <3>2
    <3> QED
      BY <3>2, <3>3, <3>4
  <2>3. Matvec(v) = <<(s[1] * s[5] + s[2] * s[6]) % 256, (s[3] * s[5] + s[4] * s[6]) % 256>>
    <3>1. DOMAIN v = 1 .. 6
      OBVIOUS
    <3> QED
      BY <3>1 DEF Matvec, s
  <2> QED
    BY <2>1, <2>2, <2>3
<1>9. Fit(w, t)
  <2>1. t.step \in 0 .. 5
    BY <1>1, <1>3
  <2> QED
    BY <1>3, <2>1 DEF Fit
<1> QED
  BY <1>1, <1>7, <1>8, <1>9 DEF t, z

-----------------------------------------------------------------------------

\* ray_hit_2d. A step, by its number.
LEMMA RayNext ==
  ASSUME NEW r
  PROVE  /\ r.step = 0 => RayStep(r) = [step |-> 1, dd |-> r.dx * r.dx + r.dy * r.dy]
         /\ r.step = 1 => RayStep(r) = [step |-> 2, od |-> r.ox * r.dx + r.oy * r.dy]
         /\ r.step = 2 => RayStep(r) = [step |-> 3, oo |-> r.ox * r.ox + r.oy * r.oy]
         /\ r.step = 3 =>
               RayStep(r) = [step |-> 4, disc |-> r.od * r.od - r.dd * (r.oo - RadiusSquared)]
         /\ r.step = 4 => RayStep(r) = [step |-> r.step + 1]
<1>1. r.step = 0 => ~(r.step = 1) /\ ~(r.step = 2) /\ ~(r.step = 3)
  OBVIOUS
<1>2. r.step = 1 => ~(r.step = 0) /\ ~(r.step = 2) /\ ~(r.step = 3)
  OBVIOUS
<1>3. r.step = 2 => ~(r.step = 0) /\ ~(r.step = 1) /\ ~(r.step = 3)
  OBVIOUS
<1>4. r.step = 3 => ~(r.step = 0) /\ ~(r.step = 1) /\ ~(r.step = 2)
  OBVIOUS
<1>5. r.step = 4 => ~(r.step = 0) /\ ~(r.step = 1) /\ ~(r.step = 2) /\ ~(r.step = 3)
  OBVIOUS
<1>6. r.step = 0 => RayStep(r) = [step |-> 1, dd |-> r.dx * r.dx + r.dy * r.dy]
  BY <1>1, Zenon DEF RayStep
<1>7. r.step = 1 => RayStep(r) = [step |-> 2, od |-> r.ox * r.dx + r.oy * r.dy]
  BY <1>2, Zenon DEF RayStep
<1>8. r.step = 2 => RayStep(r) = [step |-> 3, oo |-> r.ox * r.ox + r.oy * r.oy]
  BY <1>3, Zenon DEF RayStep
<1>9. r.step = 3 => RayStep(r) = [step |-> 4, disc |-> r.od * r.od - r.dd * (r.oo - RadiusSquared)]
  BY <1>4, Zenon DEF RayStep
<1>10. r.step = 4 => RayStep(r) = [step |-> r.step + 1]
  BY <1>5, Zenon DEF RayStep
<1> QED
  BY <1>6, <1>7, <1>8, <1>9, <1>10, Zenon

\* The load state reaches RayMid,
LEMMA RayBegins ==
  ASSUME NEW w \in Nat \ {0}, NEW v, NEW old
  PROVE  RayMid(Written(RayLoad(v), old), v, 0) /\ Fit(w, RayLoad(v))
<1> DEFINE r == Written(RayLoad(v), old)
<1>1. /\ r.ox = SignExtended(v[1], 8) /\ r.oy = SignExtended(v[2], 8)
      /\ r.dx = SignExtended(v[3], 4) /\ r.dy = SignExtended(v[4], 4) /\ r.step = 0
      /\ {"ox", "oy", "dx", "dy"} \subseteq DOMAIN r
  BY DEF Written, RayLoad
<1> HIDE DEF r
<1>2. RayMid(r, v, 0)
  BY <1>1 DEF RayMid
<1>3. Fit(w, RayLoad(v))
  BY DEF Fit, RayLoad
<1> QED
  BY <1>2, <1>3 DEF r

\* a step goes from one to the next, and the last one gives the answer.
LEMMA RayIterates ==
  ASSUME NEW w \in Nat \ {0}, NEW v, NEW r, NEW n, RayMid(r, v, n), Fit(w, r)
  PROVE  /\ r.step # 4 => RayMid(Written(RayStep(r), r), v, n + 1)
         /\ r.step = 4 => n = 4 /\ RayOut(r) = RayHit(v)
         /\ Fit(w, RayStep(r))
<1> DEFINE ox == SignExtended(v[1], 8)
           oy == SignExtended(v[2], 8)
           dx == SignExtended(v[3], 4)
           dy == SignExtended(v[4], 4)
           t == RayStep(r)
           z == Written(t, r)
<1>1. /\ {"ox", "oy", "dx", "dy"} \subseteq DOMAIN r /\ n \in 0 .. 4 /\ r.step = n
      /\ r.ox = ox /\ r.oy = oy /\ r.dx = dx /\ r.dy = dy
      /\ n >= 1 => "dd" \in DOMAIN r /\ r.dd = dx * dx + dy * dy
      /\ n >= 2 => "od" \in DOMAIN r /\ r.od = ox * dx + oy * dy
      /\ n >= 3 => "oo" \in DOMAIN r /\ r.oo = ox * ox + oy * oy
      /\ n >= 4 => r.disc = r.od * r.od - r.dd * (r.oo - RadiusSquared)
  BY DEF RayMid
<1> HIDE DEF ox, oy, dx, dy, t, z
<1>2. /\ n = 0 => t = [step |-> 1, dd |-> dx * dx + dy * dy]
      /\ n = 1 => t = [step |-> 2, od |-> ox * dx + oy * dy]
      /\ n = 2 => t = [step |-> 3, oo |-> ox * ox + oy * oy]
      /\ n = 3 => t = [step |-> 4, disc |-> r.od * r.od - r.dd * (r.oo - RadiusSquared)]
      /\ n = 4 => t = [step |-> r.step + 1]
  BY <1>1, RayNext, Zenon DEF t
<1>3. ASSUME n = 0 PROVE RayMid(z, v, n + 1)
  BY <1>1, <1>2, <1>3 DEF RayMid, Written, z, ox, oy, dx, dy
<1>4. ASSUME n = 1 PROVE RayMid(z, v, n + 1)
  BY <1>1, <1>2, <1>4 DEF RayMid, Written, z, ox, oy, dx, dy
<1>5. ASSUME n = 2 PROVE RayMid(z, v, n + 1)
  BY <1>1, <1>2, <1>5 DEF RayMid, Written, z, ox, oy, dx, dy
<1>6. ASSUME n = 3 PROVE RayMid(z, v, n + 1)
  BY <1>1, <1>2, <1>6 DEF RayMid, Written, z, ox, oy, dx, dy
<1>7. r.step # 4 => RayMid(z, v, n + 1)
  BY <1>1, <1>3, <1>4, <1>5, <1>6
<1>8. r.step = 4 => n = 4 /\ RayOut(r) = RayHit(v)
  <2> SUFFICES ASSUME n = 4
               PROVE  RayOut(r) = RayHit(v)
    BY <1>1
  <2> DEFINE dd == dx * dx + dy * dy
             od == ox * dx + oy * dy
             oo == ox * ox + oy * oy
  <2>1. RayHit(v) = IF dd # 0 /\ od * od - dd * (oo - 32 * 32) >= 0 /\ od < 0 THEN 1 ELSE 0
    BY Zenon DEF RayHit, ox, oy, dx, dy
  <2>2. r.dd = dd /\ r.od = od /\ r.oo = oo /\ r.disc = r.od * r.od - r.dd * (r.oo - RadiusSquared)
    <3> HIDE DEF RadiusSquared
    <3> QED
      BY <1>1
  <2> HIDE DEF dd, od, oo
  <2>3. RadiusSquared = 32 * 32
    BY DEF RadiusSquared
  <2>4. r.disc = od * od - dd * (oo - 32 * 32)
    BY <2>2, <2>3, Zenon
  <2> QED
    BY <2>1, <2>2, <2>4, Zenon DEF RayOut
<1>9. Fit(w, t)
  <2>1. t.step \in 0 .. 5
    BY <1>1, <1>2
  <2>2. DOMAIN t \subseteq {"step", "dd", "od", "oo", "disc"}
    BY <1>1, <1>2
  <2> QED
    BY <2>1, <2>2 DEF Fit
<1> QED
  BY <1>7, <1>8, <1>9 DEF t, z

-----------------------------------------------------------------------------

\* The last grant and the requests.
ArbiterOperands(v) == v[1] \in 0 .. 7 /\ v[2] \subseteq 0 .. 7

\* The distances from v[1] at which there is a request.
Wanted(v) == {k \in 1 .. 8 : (v[1] + k) % 8 \in v[2]}

\* Every index is at a distance of 1 .. 8 from every other.
LEMMA IndexReached ==
  ASSUME NEW last \in 0 .. 7, NEW i \in 0 .. 7
  PROVE  \E k \in 1 .. 8 : (last + k) % 8 = i
<1>1. CASE i > last
  <2>1. i - last \in 1 .. 8 /\ (last + (i - last)) % 8 = i
    BY <1>1
  <2> QED
    BY <2>1
<1>2. CASE ~(i > last)
  <2>1. i - last + 8 \in 1 .. 8 /\ (last + (i - last + 8)) % 8 = i
    BY <1>2
  <2> QED
    BY <2>1
<1> QED
  BY <1>1, <1>2

\* If there is a request the arbiter finds one,
LEMMA RequestIsWanted ==
  ASSUME NEW v, ArbiterOperands(v), v[2] # {}
  PROVE  Wanted(v) # {}
<1>1. PICK i \in 0 .. 7 : i \in v[2]
  BY DEF ArbiterOperands
<1>2. PICK k \in 1 .. 8 : (v[1] + k) % 8 = i
  BY IndexReached DEF ArbiterOperands
<1>3. (v[1] + k) % 8 \in v[2]
  BY <1>1, <1>2, Zenon
<1> QED
  BY <1>3, Zenon DEF Wanted

\* at the smallest distance,
LEMMA RoundRobinIs ==
  \A v : RoundRobin(v) = IF Wanted(v) = {} THEN 8 ELSE (v[1] + Min(Wanted(v))) % 8
BY Zenon DEF RoundRobin, Wanted

\* and if there is none it answers at once.
LEMMA NoRequest ==
  ASSUME NEW w \in Nat \ {0}, NEW v, v[2] = {}
  PROVE  RoundRobin(v) = 8 /\ Fit(w, ArbiterLoad(v))
<1>1. Wanted(v) = {}
  BY Zenon DEF Wanted
<1>2. RoundRobin(v) = 8
  BY <1>1, RoundRobinIs, Zenon
<1>3. Fit(w, ArbiterLoad(v))
  BY DEF Fit, ArbiterLoad
<1> QED
  BY <1>2, <1>3

\* The load state reaches ArbiterMid,
LEMMA ArbiterBegins ==
  ASSUME NEW w \in Nat \ {0}, NEW v, v[2] # {}, NEW old
  PROVE  ArbiterMid(Written(ArbiterLoad(v), old), v, 0) /\ Fit(w, ArbiterLoad(v))
<1> DEFINE t == ArbiterLoad(v)
           r == Written(t, old)
<1>1. t = [last |-> v[1], req |-> v[2], offset |-> 1]
  BY DEF ArbiterLoad
<1> HIDE DEF t
<1>2. r.last = v[1] /\ r.req = v[2] /\ r.offset = 1 /\ {"last", "req"} \subseteq DOMAIN r
  BY <1>1 DEF Written
<1> HIDE DEF r
<1>3. ArbiterMid(r, v, 0)
  BY <1>2 DEF ArbiterMid
<1>4. Fit(w, t)
  BY <1>1 DEF Fit
<1> QED
  BY <1>3, <1>4 DEF r, t

\* an index without a request is passed over, and the first one with a request is
\* the answer.
LEMMA ArbiterIterates ==
  ASSUME NEW w \in Nat \ {0}, NEW v, ArbiterOperands(v), NEW r, NEW n, ArbiterMid(r, v, n)
  PROVE  /\ ~ArbiterFound(r) /\ r.offset # 8 =>
              ArbiterMid(Written([offset |-> r.offset + 1], r), v, n + 1)
         /\ ArbiterFound(r) \/ r.offset = 8 => ArbiterOut(r) = RoundRobin(v)
         /\ r.offset = 8 => ArbiterFound(r)
         /\ Fit(w, [offset |-> r.offset + 1])
<1>1. /\ {"last", "req"} \subseteq DOMAIN r /\ n \in 0 .. 7 /\ r.offset = n + 1
      /\ r.last = v[1] /\ r.req = v[2] /\ v[2] # {}
  BY DEF ArbiterMid
<1>2. \A k \in 1 .. n : (v[1] + k) % 8 \notin v[2]
  BY DEF ArbiterMid
<1>3. ArbiterFound(r) <=> (v[1] + (n + 1)) % 8 \in v[2]
  BY <1>1, Zenon DEF ArbiterFound, ScanIdx
<1>4. Wanted(v) # {}
  BY <1>1, RequestIsWanted
<1>5. Min(Wanted(v)) \in Wanted(v) /\ \A k \in Wanted(v) : Min(Wanted(v)) <= k
  <2>1. Wanted(v) \subseteq Nat
    BY DEF Wanted
  <2> QED
    BY <1>4, <2>1, Least
<1>6. \A k \in Wanted(v) : k \in 1 .. 8 /\ k > n
  <2> SUFFICES ASSUME NEW k \in Wanted(v)
               PROVE  k \in 1 .. 8 /\ ~(k \in 1 .. n)
    BY <1>1
  <2>1. k \in 1 .. 8 /\ (v[1] + k) % 8 \in v[2]
    BY Zenon DEF Wanted
  <2> QED
    BY <1>2, <2>1, Zenon
<1>7. r.offset = 8 => ArbiterFound(r)
  <2> SUFFICES ASSUME n = 7
               PROVE  ArbiterFound(r)
    BY <1>1
  <2>1. PICK k \in Wanted(v) : TRUE
    BY <1>4
  <2>2. k = n + 1
    BY <1>6
  <2>3. (v[1] + k) % 8 \in v[2]
    BY Zenon DEF Wanted
  <2> QED
    BY <1>3, <2>2, <2>3, Zenon
<1>8. ArbiterFound(r) => ArbiterOut(r) = RoundRobin(v)
  <2> SUFFICES ASSUME ArbiterFound(r)
               PROVE  ArbiterOut(r) = RoundRobin(v)
    OBVIOUS
  <2>1. n + 1 \in Wanted(v)
    <3>1. n + 1 \in 1 .. 8
      BY <1>1
    <3> QED
      BY <1>3, <3>1, Zenon DEF Wanted
  <2>2. Min(Wanted(v)) = n + 1
    BY <1>1, <1>5, <1>6, <2>1
  <2>3. RoundRobin(v) = (v[1] + (n + 1)) % 8
    BY <1>4, <2>2, RoundRobinIs, Zenon
  <2>4. ArbiterOut(r) = (v[1] + (n + 1)) % 8
    BY <1>1, Zenon DEF ArbiterOut, ScanIdx
  <2> QED
    BY <2>3, <2>4, Zenon
<1>9. ~ArbiterFound(r) /\ r.offset # 8 =>
        ArbiterMid(Written([offset |-> r.offset + 1], r), v, n + 1)
  <2> SUFFICES ASSUME ~ArbiterFound(r), n # 7
               PROVE  ArbiterMid(Written([offset |-> r.offset + 1], r), v, n + 1)
    BY <1>1
  <2> DEFINE z == Written([offset |-> r.offset + 1], r)
  <2>1. /\ z.offset = n + 2 /\ z.last = v[1] /\ z.req = v[2]
        /\ {"last", "req"} \subseteq DOMAIN z
    BY <1>1 DEF Written
  <2> HIDE DEF z
  <2>2. \A k \in 1 .. n + 1 : (v[1] + k) % 8 \notin v[2]
    <3> TAKE k \in 1 .. n + 1
    <3>1. k \in 1 .. n \/ k = n + 1
      BY <1>1
    <3> QED
      BY <1>2, <1>3, <3>1, Zenon
  <2>3. n + 1 \in 0 .. 7 /\ n + 2 = (n + 1) + 1
    BY <1>1
  <2>4. ArbiterMid(z, v, n + 1)
    BY <1>1, <2>1, <2>2, <2>3, Zenon DEF ArbiterMid
  <2> QED
    BY <2>4 DEF z
<1>10. Fit(w, [offset |-> r.offset + 1])
  BY <1>1 DEF Fit
<1> QED
  BY <1>7, <1>8, <1>9, <1>10, Zenon

-----------------------------------------------------------------------------
\* What the registry and the tables of the designs say of a design.
LEMMA Registry ==
  /\ design = "popcount32" => TASK_REGISTRY[design].width = 32 /\ max_cycles_per_case = 128
  /\ design = "bitrev16" => TASK_REGISTRY[design].width = 16 /\ max_cycles_per_case = 64
  /\ design = "gcd16" => TASK_REGISTRY[design].width = 16 /\ max_cycles_per_case = 4096
  /\ design = "mul8" => TASK_REGISTRY[design].width = 8 /\ max_cycles_per_case = 64
  /\ design = "div16" => TASK_REGISTRY[design].width = 16 /\ max_cycles_per_case = 128
  /\ design = "isqrt32" => TASK_REGISTRY[design].width = 16 /\ max_cycles_per_case = 128
  /\ design = "crc8" => TASK_REGISTRY[design].width = 16 /\ max_cycles_per_case = 96
  /\ design = "xor_cipher16" => TASK_REGISTRY[design].width = 16 /\ max_cycles_per_case = 32
  /\ design = "adler32" => TASK_REGISTRY[design].width = 4 /\ max_cycles_per_case = 96
  /\ design = "matvec_2x2_int4" => TASK_REGISTRY[design].width = 4 /\ max_cycles_per_case = 64
  /\ design = "ray_hit_2d" => TASK_REGISTRY[design].width = 8 /\ max_cycles_per_case = 96
  /\ design = "arbiter_rr" => TASK_REGISTRY[design].width = 8 /\ max_cycles_per_case = 32
BY DEF max_cycles_per_case, TASK_REGISTRY, POPCOUNT32, BITREV16, GCD16, MUL8, DIV16, ISQRT32,
       CRC8, XOR_CIPHER16, ADLER32, MATVEC_2X2_INT4, RAY_HIT_2D, ARBITER_RR

\* The twelve designs.
LEMMA DesignNames ==
  Designs = {"popcount32", "bitrev16", "gcd16", "mul8", "div16", "isqrt32", "crc8",
             "xor_cipher16", "adler32", "matvec_2x2_int4", "ray_hit_2d", "arbiter_rr"}
BY DEF Designs, TASK_REGISTRY

\* What References makes of popcount32.
LEMMA PopcountIs ==
  ASSUME design = "popcount32"
  PROVE  /\ \A v : Load(v) = PopcountLoad(v)
         /\ \A r : Loop(r) = PopcountLoop(r)
         /\ \A r : LastLoop(r) <=> r.idx = width - 1
         /\ \A r : Out(r) = PopcountLoop(r).count
         /\ \A v : Oracle(design, v, width) = Popcount(v)
         /\ RandomWords(design, width) = Bits(width)
<1>1. \A v : Load(v) = PopcountLoad(v)
  BY Zenon DEF Load
<1>2. \A r : Loop(r) = PopcountLoop(r)
  BY Zenon DEF Loop
<1>3. \A r : LastLoop(r) <=> r.idx = width - 1
  BY Zenon DEF LastLoop
<1>4. \A r : Out(r) = PopcountLoop(r).count
  BY Zenon DEF Out
<1>5. \A v : Oracle(design, v, width) = Popcount(v)
  BY Zenon DEF Oracle
<1>6. RandomWords(design, width) = Bits(width)
  BY Zenon DEF RandomWords
<1> QED
  BY <1>1, <1>2, <1>3, <1>4, <1>5, <1>6, Zenon

\* What References makes of bitrev16.
LEMMA BitrevIs ==
  ASSUME design = "bitrev16"
  PROVE  /\ \A v : Load(v) = BitrevLoad(v, width)
         /\ \A r : Loop(r) = BitrevLoop(r)
         /\ \A r : LastLoop(r) <=> r.idx = width - 1
         /\ \A r : Out(r) = BitrevLoop(r).out_sr
         /\ \A v : Oracle(design, v, width) = Bitrev(v)
         /\ RandomWords(design, width) = Bits(width)
<1>1. \A v : Load(v) = BitrevLoad(v, width)
  BY Zenon DEF Load
<1>2. \A r : Loop(r) = BitrevLoop(r)
  BY Zenon DEF Loop
<1>3. \A r : LastLoop(r) <=> r.idx = width - 1
  BY Zenon DEF LastLoop
<1>4. \A r : Out(r) = BitrevLoop(r).out_sr
  BY Zenon DEF Out
<1>5. \A v : Oracle(design, v, width) = Bitrev(v)
  BY Zenon DEF Oracle
<1>6. RandomWords(design, width) = Bits(width)
  BY Zenon DEF RandomWords
<1> QED
  BY <1>1, <1>2, <1>3, <1>4, <1>5, <1>6, Zenon

\* What References makes of gcd16.
LEMMA GcdIs ==
  ASSUME design = "gcd16"
  PROVE  /\ \A v : Load(v) = GcdLoad(v)
         /\ \A r : Loop(r) = GcdLoop(r)
         /\ \A r : LastLoop(r) <=> GcdZero(r)
         /\ \A r : Out(r) = GcdOut(r, width)
         /\ \A v : Oracle(design, v, width) = Gcd(v[1], v[2])
         /\ RandomWords(design, width) = (1 .. 2 ^ width - 1) \X (1 .. 2 ^ width - 1)
<1>1. \A v : Load(v) = GcdLoad(v)
  BY Zenon DEF Load
<1>2. \A r : Loop(r) = GcdLoop(r)
  BY Zenon DEF Loop
<1>3. \A r : LastLoop(r) <=> GcdZero(r)
  BY Zenon DEF LastLoop
<1>4. \A r : Out(r) = GcdOut(r, width)
  BY Zenon DEF Out
<1>5. \A v : Oracle(design, v, width) = Gcd(v[1], v[2])
  BY Zenon DEF Oracle
<1>6. RandomWords(design, width) = (1 .. 2 ^ width - 1) \X (1 .. 2 ^ width - 1)
  BY Zenon DEF RandomWords
<1> QED
  BY <1>1, <1>2, <1>3, <1>4, <1>5, <1>6, Zenon

\* What References makes of mul8.
LEMMA MulIs ==
  ASSUME design = "mul8"
  PROVE  /\ \A v : Load(v) = MulLoad(v)
         /\ \A r : Loop(r) = MulLoop(r, width)
         /\ \A r : LastLoop(r) <=> r.idx = width - 1
         /\ \A r : Out(r) = MulLoop(r, width).product
         /\ \A v : Oracle(design, v, width) = Mul(v[1], v[2], width)
         /\ RandomWords(design, width) = (0 .. 2 ^ width - 1) \X (0 .. 2 ^ width - 1)
<1>1. \A v : Load(v) = MulLoad(v)
  BY Zenon DEF Load
<1>2. \A r : Loop(r) = MulLoop(r, width)
  BY Zenon DEF Loop
<1>3. \A r : LastLoop(r) <=> r.idx = width - 1
  BY Zenon DEF LastLoop
<1>4. \A r : Out(r) = MulLoop(r, width).product
  BY Zenon DEF Out
<1>5. \A v : Oracle(design, v, width) = Mul(v[1], v[2], width)
  BY Zenon DEF Oracle
<1>6. RandomWords(design, width) = (0 .. 2 ^ width - 1) \X (0 .. 2 ^ width - 1)
  BY Zenon DEF RandomWords
<1> QED
  BY <1>1, <1>2, <1>3, <1>4, <1>5, <1>6, Zenon

\* What References makes of div16.
LEMMA DivIs ==
  ASSUME design = "div16"
  PROVE  /\ \A v : Load(v) = DivLoad(v)
         /\ \A r : Loop(r) = DivLoop(r, width)
         /\ \A r : LastLoop(r) <=> r.idx = width - 1
         /\ \A r : Out(r) = <<r.quot, r.rem>>
         /\ \A v : Oracle(design, v, width) = Div(v[1], v[2])
         /\ RandomWords(design, width) = (0 .. 2 ^ width - 1) \X (1 .. 2 ^ width - 1)
<1>1. \A v : Load(v) = DivLoad(v)
  BY Zenon DEF Load
<1>2. \A r : Loop(r) = DivLoop(r, width)
  BY Zenon DEF Loop
<1>3. \A r : LastLoop(r) <=> r.idx = width - 1
  BY Zenon DEF LastLoop
<1>4. \A r : Out(r) = <<r.quot, r.rem>>
  BY Zenon DEF Out
<1>5. \A v : Oracle(design, v, width) = Div(v[1], v[2])
  BY Zenon DEF Oracle
<1>6. RandomWords(design, width) = (0 .. 2 ^ width - 1) \X (1 .. 2 ^ width - 1)
  BY Zenon DEF RandomWords
<1> QED
  BY <1>1, <1>2, <1>3, <1>4, <1>5, <1>6, Zenon

\* What References makes of isqrt32.
LEMMA IsqrtIs ==
  ASSUME design = "isqrt32"
  PROVE  /\ \A v : Load(v) = IsqrtLoad(v, width)
         /\ \A r : Loop(r) = IsqrtLoop(r)
         /\ \A r : LastLoop(r) <=> r.idx = width - 1
         /\ \A r : Out(r) = r.result % 2 ^ width
         /\ \A v : Oracle(design, v, width) = Isqrt(v, width)
         /\ RandomWords(design, width) = 0 .. 2 ^ (2 * width) - 1
<1>1. \A v : Load(v) = IsqrtLoad(v, width)
  BY Zenon DEF Load
<1>2. \A r : Loop(r) = IsqrtLoop(r)
  BY Zenon DEF Loop
<1>3. \A r : LastLoop(r) <=> r.idx = width - 1
  BY Zenon DEF LastLoop
<1>4. \A r : Out(r) = r.result % 2 ^ width
  BY Zenon DEF Out
<1>5. \A v : Oracle(design, v, width) = Isqrt(v, width)
  BY Zenon DEF Oracle
<1>6. RandomWords(design, width) = 0 .. 2 ^ (2 * width) - 1
  BY Zenon DEF RandomWords
<1> QED
  BY <1>1, <1>2, <1>3, <1>4, <1>5, <1>6, Zenon

\* What References makes of crc8.
LEMMA CrcIs ==
  ASSUME design = "crc8"
  PROVE  /\ \A v : Load(v) = CrcLoad(v)
         /\ \A r : Loop(r) = CrcLoop(r)
         /\ \A r : LastLoop(r) <=> r.idx = width - 1
         /\ \A r : Out(r) = r.crc
         /\ \A v : Oracle(design, v, width) = Crc8(v)
         /\ RandomWords(design, width) = Bits(width)
<1>1. \A v : Load(v) = CrcLoad(v)
  BY Zenon DEF Load
<1>2. \A r : Loop(r) = CrcLoop(r)
  BY Zenon DEF Loop
<1>3. \A r : LastLoop(r) <=> r.idx = width - 1
  BY Zenon DEF LastLoop
<1>4. \A r : Out(r) = r.crc
  BY Zenon DEF Out
<1>5. \A v : Oracle(design, v, width) = Crc8(v)
  BY Zenon DEF Oracle
<1>6. RandomWords(design, width) = Bits(width)
  BY Zenon DEF RandomWords
<1> QED
  BY <1>1, <1>2, <1>3, <1>4, <1>5, <1>6, Zenon

\* What References makes of adler32.
LEMMA AdlerIs ==
  ASSUME design = "adler32"
  PROVE  /\ \A v : Load(v) = AdlerLoad(v)
         /\ \A r : Loop(r) = AdlerLoop(r)
         /\ \A r : LastLoop(r) <=> r.byte_idx = width - 1
         /\ \A r : Out(r) = <<r.s1, r.s2>>
         /\ \A v : Oracle(design, v, width) = Adler(v)
         /\ RandomWords(design, width) = Bytes(width)
<1>1. \A v : Load(v) = AdlerLoad(v)
  BY Zenon DEF Load
<1>2. \A r : Loop(r) = AdlerLoop(r)
  BY Zenon DEF Loop
<1>3. \A r : LastLoop(r) <=> r.byte_idx = width - 1
  BY Zenon DEF LastLoop
<1>4. \A r : Out(r) = <<r.s1, r.s2>>
  BY Zenon DEF Out
<1>5. \A v : Oracle(design, v, width) = Adler(v)
  BY Zenon DEF Oracle
<1>6. RandomWords(design, width) = Bytes(width)
  BY Zenon DEF RandomWords, Bytes
<1> QED
  BY <1>1, <1>2, <1>3, <1>4, <1>5, <1>6, Zenon

\* What References makes of matvec_2x2_int4.
LEMMA MatvecIs ==
  ASSUME design = "matvec_2x2_int4"
  PROVE  /\ \A v : Load(v) = MatvecLoad(v)
         /\ \A r : Loop(r) = MatvecStep(r)
         /\ \A r : LastLoop(r) <=> r.step = 4
         /\ \A r : Out(r) = MatvecOut(r)
         /\ \A v : Oracle(design, v, width) = Matvec(v)
         /\ RandomWords(design, width) = [1 .. 6 -> 0 .. 15]
<1>1. \A v : Load(v) = MatvecLoad(v)
  BY Zenon DEF Load
<1>2. \A r : Loop(r) = MatvecStep(r)
  BY Zenon DEF Loop
<1>3. \A r : LastLoop(r) <=> r.step = 4
  BY Zenon DEF LastLoop
<1>4. \A r : Out(r) = MatvecOut(r)
  BY Zenon DEF Out, MatvecOut
<1>5. \A v : Oracle(design, v, width) = Matvec(v)
  BY Zenon DEF Oracle
<1>6. RandomWords(design, width) = [1 .. 6 -> 0 .. 15]
  BY Zenon DEF RandomWords
<1> QED
  BY <1>1, <1>2, <1>3, <1>4, <1>5, <1>6, Zenon

\* What References makes of ray_hit_2d.
LEMMA RayIs ==
  ASSUME design = "ray_hit_2d"
  PROVE  /\ \A v : Load(v) = RayLoad(v)
         /\ \A r : Loop(r) = RayStep(r)
         /\ \A r : LastLoop(r) <=> r.step = 4
         /\ \A r : Out(r) = RayOut(r)
         /\ \A v : Oracle(design, v, width) = RayHit(v)
         /\ RandomWords(design, width) = (0 .. 255) \X (0 .. 255) \X (0 .. 15) \X (0 .. 15)
<1>1. \A v : Load(v) = RayLoad(v)
  BY Zenon DEF Load
<1>2. \A r : Loop(r) = RayStep(r)
  BY Zenon DEF Loop
<1>3. \A r : LastLoop(r) <=> r.step = 4
  BY Zenon DEF LastLoop
<1>4. \A r : Out(r) = RayOut(r)
  BY Zenon DEF Out
<1>5. \A v : Oracle(design, v, width) = RayHit(v)
  BY Zenon DEF Oracle
<1>6. RandomWords(design, width) = (0 .. 255) \X (0 .. 255) \X (0 .. 15) \X (0 .. 15)
  BY Zenon DEF RandomWords
<1> QED
  BY <1>1, <1>2, <1>3, <1>4, <1>5, <1>6, Zenon

\* What References makes of arbiter_rr.
LEMMA ArbiterIs ==
  ASSUME design = "arbiter_rr"
  PROVE  /\ \A v : Load(v) = ArbiterLoad(v)
         /\ \A r : Loop(r) = [offset |-> r.offset + 1]
         /\ \A r : LastLoop(r) <=> ArbiterFound(r) \/ r.offset = 8
         /\ \A r : Out(r) = ArbiterOut(r)
         /\ \A v : Oracle(design, v, width) = RoundRobin(v)
         /\ RandomWords(design, width) = (0 .. 7) \X SUBSET (0 .. 7)
<1>1. \A v : Load(v) = ArbiterLoad(v)
  BY Zenon DEF Load
<1>2. \A r : Loop(r) = [offset |-> r.offset + 1]
  BY Zenon DEF Loop
<1>3. \A r : LastLoop(r) <=> ArbiterFound(r) \/ r.offset = 8
  BY Zenon DEF LastLoop
<1>4. \A r : Out(r) = ArbiterOut(r)
  BY Zenon DEF Out
<1>5. \A v : Oracle(design, v, width) = RoundRobin(v)
  BY Zenon DEF Oracle
<1>6. RandomWords(design, width) = (0 .. 7) \X SUBSET (0 .. 7)
  BY Zenon DEF RandomWords
<1> QED
  BY <1>1, <1>2, <1>3, <1>4, <1>5, <1>6, Zenon

-----------------------------------------------------------------------------
(***************************************************************************)
(* What holds of every design: a case begins, goes on and ends as it       *)
(* should, whatever the cases before it have left in the registers.        *)
(***************************************************************************)
ValidCase(v) ==
  /\ design \in Designs /\ width \in 1 .. TASK_REGISTRY[design].width
  /\ design = "adler32" => width = 4
  /\ v \in RandomWords(design, width)

\* Loading v starts the first iteration, or is answered at once.
BeginsRight(v) ==
  /\ Fit(width, Load(v))
  /\ design = "arbiter_rr" /\ v[2] = {} => Oracle(design, v, width) = 8
  /\ ~(design = "arbiter_rr" /\ v[2] = {}) =>
       Midway(design, width, Written(Load(v), regs), v, 0)

\* After n iterations on v comes one more, or the answer, within the limit; the
\* designs with a result state reach it after width iterations.
IteratesRight(v, n) ==
  /\ n \in Nat /\ n + 1 < max_cycles_per_case
  /\ Fit(width, Loop(regs))
  /\ ~LastLoop(regs) => Midway(design, width, Written(Loop(regs), regs), v, n + 1)
  /\ ~LastLoop(regs) /\ design \in TwoStage => n + 1 < width
  /\ LastLoop(regs) /\ design \notin TwoStage =>
       Out(regs) = Oracle(design, v, width) /\ Charged(design, width, n + 2)
  /\ LastLoop(regs) /\ design \in TwoStage =>
       n + 1 = width /\ Midway(design, width, Written(Loop(regs), regs), v, width)

\* The result state answers right.
EndsRight(v) ==
  /\ width + 1 < max_cycles_per_case
  /\ Out(regs) = Oracle(design, v, width)

\* popcount32 keeps its promises: it begins, iterates and answers right.
LEMMA PopcountRight ==
  ASSUME design = "popcount32", NEW v, ValidCase(v)
  PROVE  /\ BeginsRight(v)
         /\ \A n : Midway(design, width, regs, v, n) /\ Fit(width, regs) => IteratesRight(v, n)
<1>1. \A r, n : Midway(design, width, r, v, n) <=> PopcountMid(width, r, v, n)
  BY Zenon DEF Midway
<1>2. width \in 1 .. 32 /\ max_cycles_per_case = 128
  BY Registry DEF ValidCase
<1>3. v \in Bits(width)
  BY PopcountIs DEF ValidCase
<1>4. BeginsRight(v)
  BY <1>1, <1>2, <1>3, PopcountBegins, PopcountIs DEF BeginsRight
<1>5. ASSUME NEW n, Midway(design, width, regs, v, n), Fit(width, regs)
      PROVE  IteratesRight(v, n)
  <2>1. PopcountMid(width, regs, v, n)
    BY <1>1, <1>5, Zenon
  <2>2. n \in 0 .. width - 1 /\ regs.idx = n
    BY <2>1, Zenon DEF PopcountMid
  <2>3. width \in Nat \ {0} /\ n \in Nat /\ n + 1 < max_cycles_per_case
    BY <1>2, <2>2
  <2>4. regs.idx # width - 1 => PopcountMid(width, Written(PopcountLoop(regs), regs), v, n + 1)
    BY <1>3, <2>1, <2>3, PopcountIterates
  <2>5. regs.idx = width - 1 => n = width - 1
    BY <2>2
  <2>6. regs.idx = width - 1 => PopcountLoop(regs).count = Popcount(v)
    BY <1>3, <2>1, <2>3, PopcountIterates
  <2>7. Fit(width, PopcountLoop(regs))
    BY <1>3, <2>1, <2>3, PopcountIterates
  <2>8. /\ LastLoop(regs) <=> regs.idx = width - 1
        /\ Loop(regs) = PopcountLoop(regs)
        /\ Out(regs) = PopcountLoop(regs).count
        /\ Oracle(design, v, width) = Popcount(v)
    BY PopcountIs, Zenon
  <2>9. n = width - 1 => Charged(design, width, n + 2)
    BY <1>2 DEF Charged, TwoStage
  <2>10. design \notin TwoStage
    BY DEF TwoStage
  <2> QED
    BY <1>1, <2>3, <2>4, <2>5, <2>6, <2>7, <2>8, <2>9, <2>10, Zenon DEF IteratesRight
<1> QED
  BY <1>4, <1>5

\* bitrev16 keeps its promises: it begins, iterates and answers right.
LEMMA BitrevRight ==
  ASSUME design = "bitrev16", NEW v, ValidCase(v)
  PROVE  /\ BeginsRight(v)
         /\ \A n : Midway(design, width, regs, v, n) /\ Fit(width, regs) => IteratesRight(v, n)
<1>1. \A r, n : Midway(design, width, r, v, n) <=> BitrevMid(width, r, v, n)
  BY Zenon DEF Midway
<1>2. width \in 1 .. 16 /\ max_cycles_per_case = 64
  BY Registry DEF ValidCase
<1>3. v \in Bits(width)
  BY BitrevIs DEF ValidCase
<1>4. BeginsRight(v)
  BY <1>1, <1>2, <1>3, BitrevBegins, BitrevIs DEF BeginsRight
<1>5. ASSUME NEW n, Midway(design, width, regs, v, n), Fit(width, regs)
      PROVE  IteratesRight(v, n)
  <2>1. BitrevMid(width, regs, v, n)
    BY <1>1, <1>5, Zenon
  <2>2. n \in 0 .. width - 1 /\ regs.idx = n
    BY <2>1, Zenon DEF BitrevMid
  <2>3. width \in Nat \ {0} /\ n \in Nat /\ n + 1 < max_cycles_per_case
    BY <1>2, <2>2
  <2>4. regs.idx # width - 1 => BitrevMid(width, Written(BitrevLoop(regs), regs), v, n + 1)
    BY <1>3, <2>1, <2>3, BitrevIterates
  <2>5. regs.idx = width - 1 => n = width - 1
    BY <2>2
  <2>6. regs.idx = width - 1 => BitrevLoop(regs).out_sr = Bitrev(v)
    BY <1>3, <2>1, <2>3, BitrevIterates
  <2>7. Fit(width, BitrevLoop(regs))
    BY <1>3, <2>1, <2>3, BitrevIterates
  <2>8. /\ LastLoop(regs) <=> regs.idx = width - 1
        /\ Loop(regs) = BitrevLoop(regs)
        /\ Out(regs) = BitrevLoop(regs).out_sr
        /\ Oracle(design, v, width) = Bitrev(v)
    BY BitrevIs, Zenon
  <2>9. n = width - 1 => Charged(design, width, n + 2)
    BY <1>2 DEF Charged, TwoStage
  <2>10. design \notin TwoStage
    BY DEF TwoStage
  <2> QED
    BY <1>1, <2>3, <2>4, <2>5, <2>6, <2>7, <2>8, <2>9, <2>10, Zenon DEF IteratesRight
<1> QED
  BY <1>4, <1>5

\* mul8 keeps its promises: it begins, iterates and answers right.
LEMMA MulRight ==
  ASSUME design = "mul8", NEW v, ValidCase(v)
  PROVE  /\ BeginsRight(v)
         /\ \A n : Midway(design, width, regs, v, n) /\ Fit(width, regs) => IteratesRight(v, n)
<1>1. \A r, n : Midway(design, width, r, v, n) <=> MulMid(width, r, v, n)
  BY Zenon DEF Midway
<1>2. width \in 1 .. 8 /\ max_cycles_per_case = 64
  BY Registry DEF ValidCase
<1>3. MulOperands(width, v)
  BY MulIs DEF ValidCase, MulOperands
<1>4. BeginsRight(v)
  BY <1>1, <1>2, <1>3, MulBegins, MulIs DEF BeginsRight
<1>5. ASSUME NEW n, Midway(design, width, regs, v, n), Fit(width, regs)
      PROVE  IteratesRight(v, n)
  <2>1. MulMid(width, regs, v, n)
    BY <1>1, <1>5, Zenon
  <2>2. n \in 0 .. width - 1 /\ regs.idx = n
    BY <2>1, Zenon DEF MulMid
  <2>3. width \in Nat \ {0} /\ n \in Nat /\ n + 1 < max_cycles_per_case
    BY <1>2, <2>2
  <2>4. regs.idx # width - 1 => MulMid(width, Written(MulLoop(regs, width), regs), v, n + 1)
    BY <1>3, <2>1, <2>3, MulIterates
  <2>5. regs.idx = width - 1 => n = width - 1
    BY <2>2
  <2>6. regs.idx = width - 1 => MulLoop(regs, width).product = Mul(v[1], v[2], width)
    BY <1>3, <2>1, <2>3, MulIterates
  <2>7. Fit(width, MulLoop(regs, width))
    BY <1>3, <2>1, <2>3, MulIterates
  <2>8. /\ LastLoop(regs) <=> regs.idx = width - 1
        /\ Loop(regs) = MulLoop(regs, width)
        /\ Out(regs) = MulLoop(regs, width).product
        /\ Oracle(design, v, width) = Mul(v[1], v[2], width)
    BY MulIs, Zenon
  <2>9. n = width - 1 => Charged(design, width, n + 2)
    BY <1>2 DEF Charged, TwoStage
  <2>10. design \notin TwoStage
    BY DEF TwoStage
  <2> QED
    BY <1>1, <2>3, <2>4, <2>5, <2>6, <2>7, <2>8, <2>9, <2>10, Zenon DEF IteratesRight
<1> QED
  BY <1>4, <1>5

\* gcd16 keeps its promises: it begins, iterates and answers right.
LEMMA GcdRight ==
  ASSUME design = "gcd16", NEW v, ValidCase(v)
  PROVE  /\ BeginsRight(v)
         /\ \A n : Midway(design, width, regs, v, n) /\ Fit(width, regs) => IteratesRight(v, n)
<1>1. \A r, n : Midway(design, width, r, v, n) <=> GcdMid(width, r, v, n)
  BY Zenon DEF Midway
<1>2. width \in 1 .. 16 /\ max_cycles_per_case = 4096
  BY Registry DEF ValidCase
<1>3. GcdOperands(width, v)
  BY GcdIs DEF ValidCase, GcdOperands
<1>4. BeginsRight(v)
  BY <1>1, <1>2, <1>3, GcdBegins, GcdIs DEF BeginsRight
<1>5. ASSUME NEW n, Midway(design, width, regs, v, n), Fit(width, regs)
      PROVE  IteratesRight(v, n)
  <2>1. GcdMid(width, regs, v, n) /\ n \in Nat
    BY <1>1, <1>2, <1>5 DEF GcdMid, GcdHolds
  <2>2. n < 2 * width /\ Fit(width, Loop(regs))
    BY <1>2, <1>3, <1>5, <2>1, GcdIterates, GcdIs
  <2>3. ~LastLoop(regs) => GcdMid(width, Written(Loop(regs), regs), v, n + 1)
    BY <1>2, <1>3, <1>5, <2>1, GcdIterates, GcdIs
  <2>4. LastLoop(regs) => Out(regs) = Oracle(design, v, width)
    BY <1>2, <1>3, <1>5, <2>1, GcdIterates, GcdIs
  <2>5. n + 1 < max_cycles_per_case /\ Charged(design, width, n + 2)
    BY <1>2, <2>1, <2>2 DEF Charged, TwoStage
  <2>6. design \notin TwoStage
    BY DEF TwoStage
  <2> QED
    BY <1>1, <2>1, <2>2, <2>3, <2>4, <2>5, <2>6 DEF IteratesRight
<1> QED
  BY <1>4, <1>5

\* matvec_2x2_int4 keeps its promises: it begins, iterates and answers right.
LEMMA MatvecRight ==
  ASSUME design = "matvec_2x2_int4", NEW v, ValidCase(v)
  PROVE  /\ BeginsRight(v)
         /\ \A n : Midway(design, width, regs, v, n) /\ Fit(width, regs) => IteratesRight(v, n)
<1>1. \A r, n : Midway(design, width, r, v, n) <=> MatvecMid(r, v, n)
  BY Zenon DEF Midway
<1>2. width \in Nat \ {0} /\ max_cycles_per_case = 64
  BY Registry DEF ValidCase
<1>3. v \in [1 .. 6 -> 0 .. 15]
  BY MatvecIs DEF ValidCase
<1>4. BeginsRight(v)
  BY <1>1, <1>2, MatvecBegins, MatvecIs DEF BeginsRight
<1>5. ASSUME NEW n, Midway(design, width, regs, v, n), Fit(width, regs)
      PROVE  IteratesRight(v, n)
  <2>1. MatvecMid(regs, v, n) /\ n \in 0 .. 4 /\ regs.step = n /\ n + 1 < max_cycles_per_case
    BY <1>1, <1>2, <1>5 DEF MatvecMid
  <2>2. Fit(width, MatvecStep(regs))
    BY <1>2, <1>3, <1>5, <2>1, MatvecIterates
  <2>3. regs.step # 4 => MatvecMid(Written(MatvecStep(regs), regs), v, n + 1)
    BY <1>2, <1>3, <1>5, <2>1, MatvecIterates
  <2>4. regs.step = 4 => n = 4
    BY <2>1
  <2>5. regs.step = 4 => MatvecOut(regs) = Matvec(v)
    BY <1>2, <1>3, <1>5, <2>1, MatvecIterates
  <2>6. /\ LastLoop(regs) <=> regs.step = 4
        /\ Loop(regs) = MatvecStep(regs)
        /\ Out(regs) = MatvecOut(regs)
        /\ Oracle(design, v, width) = Matvec(v)
    BY MatvecIs, Zenon
  <2>7. n = 4 => Charged(design, width, n + 2)
    BY DEF Charged, TwoStage
  <2>8. design \notin TwoStage
    BY DEF TwoStage
  <2> QED
    BY <1>1, <2>1, <2>2, <2>3, <2>4, <2>5, <2>6, <2>7, <2>8 DEF IteratesRight
<1> QED
  BY <1>4, <1>5

\* ray_hit_2d keeps its promises: it begins, iterates and answers right.
LEMMA RayRight ==
  ASSUME design = "ray_hit_2d", NEW v, ValidCase(v)
  PROVE  /\ BeginsRight(v)
         /\ \A n : Midway(design, width, regs, v, n) /\ Fit(width, regs) => IteratesRight(v, n)
<1>1. \A r, n : Midway(design, width, r, v, n) <=> RayMid(r, v, n)
  BY Zenon DEF Midway
<1>2. width \in Nat \ {0} /\ max_cycles_per_case = 96
  BY Registry DEF ValidCase
<1>3. BeginsRight(v)
  BY <1>1, <1>2, RayBegins, RayIs DEF BeginsRight
<1>4. ASSUME NEW n, Midway(design, width, regs, v, n), Fit(width, regs)
      PROVE  IteratesRight(v, n)
  <2>1. RayMid(regs, v, n) /\ n \in 0 .. 4 /\ regs.step = n /\ n + 1 < max_cycles_per_case
    BY <1>1, <1>2, <1>4 DEF RayMid
  <2>2. Fit(width, RayStep(regs))
    BY <1>2, <1>4, <2>1, RayIterates
  <2>3. regs.step # 4 => RayMid(Written(RayStep(regs), regs), v, n + 1)
    BY <1>2, <1>4, <2>1, RayIterates
  <2>4. regs.step = 4 => n = 4
    BY <2>1
  <2>5. regs.step = 4 => RayOut(regs) = RayHit(v)
    BY <1>2, <1>4, <2>1, RayIterates
  <2>6. /\ LastLoop(regs) <=> regs.step = 4
        /\ Loop(regs) = RayStep(regs)
        /\ Out(regs) = RayOut(regs)
        /\ Oracle(design, v, width) = RayHit(v)
    BY RayIs, Zenon
  <2>7. n = 4 => Charged(design, width, n + 2)
    BY DEF Charged, TwoStage
  <2>8. design \notin TwoStage
    BY DEF TwoStage
  <2> QED
    BY <1>1, <2>1, <2>2, <2>3, <2>4, <2>5, <2>6, <2>7, <2>8 DEF IteratesRight
<1> QED
  BY <1>3, <1>4

\* arbiter_rr keeps its promises: it begins, iterates and answers right.
LEMMA ArbiterRight ==
  ASSUME design = "arbiter_rr", NEW v, ValidCase(v)
  PROVE  /\ BeginsRight(v)
         /\ \A n : Midway(design, width, regs, v, n) /\ Fit(width, regs) => IteratesRight(v, n)
<1>1. \A r, n : Midway(design, width, r, v, n) <=> ArbiterMid(r, v, n)
  BY Zenon DEF Midway
<1>2. width \in Nat \ {0} /\ max_cycles_per_case = 32
  BY Registry DEF ValidCase
<1>3. ArbiterOperands(v)
  BY ArbiterIs DEF ValidCase, ArbiterOperands
<1>4. BeginsRight(v)
  <2>1. v[2] = {} => Oracle(design, v, width) = 8 /\ Fit(width, Load(v))
    BY <1>2, NoRequest, ArbiterIs, Zenon
  <2>2. v[2] # {} => Midway(design, width, Written(Load(v), regs), v, 0) /\ Fit(width, Load(v))
    BY <1>1, <1>2, ArbiterBegins, ArbiterIs
  <2> QED
    BY <2>1, <2>2 DEF BeginsRight
<1>5. ASSUME NEW n, Midway(design, width, regs, v, n), Fit(width, regs)
      PROVE  IteratesRight(v, n)
  <2>1. ArbiterMid(regs, v, n) /\ n \in 0 .. 7 /\ n + 1 < max_cycles_per_case
    BY <1>1, <1>2, <1>5 DEF ArbiterMid
  <2>2. Fit(width, Loop(regs))
    BY <1>2, <1>3, <2>1, ArbiterIterates, ArbiterIs
  <2>3. ~LastLoop(regs) => ArbiterMid(Written(Loop(regs), regs), v, n + 1)
    BY <1>2, <1>3, <2>1, ArbiterIterates, ArbiterIs
  <2>4. LastLoop(regs) => Out(regs) = Oracle(design, v, width)
    BY <1>2, <1>3, <2>1, ArbiterIterates, ArbiterIs
  <2>5. Charged(design, width, n + 2)
    BY <2>1 DEF Charged, TwoStage
  <2>6. design \notin TwoStage
    BY DEF TwoStage
  <2> QED
    BY <1>1, <2>1, <2>2, <2>3, <2>4, <2>5, <2>6 DEF IteratesRight
<1> QED
  BY <1>4, <1>5

\* div16 keeps its promises: it begins, iterates and ends right.
LEMMA DivRight ==
  ASSUME design = "div16", NEW v, ValidCase(v)
  PROVE  /\ BeginsRight(v)
         /\ \A n : /\ Midway(design, width, regs, v, n) /\ Fit(width, regs)
                  /\ n < width
                  => IteratesRight(v, n)
         /\ Midway(design, width, regs, v, width) => EndsRight(v)
<1>1. \A r, n : Midway(design, width, r, v, n) <=> DivMid(width, r, v, n)
  BY Zenon DEF Midway
<1>2. width \in 1 .. 16 /\ max_cycles_per_case = 128
  BY Registry DEF ValidCase
<1>3. DivOperands(width, v)
  BY DivIs DEF ValidCase, DivOperands
<1>4. BeginsRight(v)
  BY <1>1, <1>2, <1>3, DivBegins, DivIs DEF BeginsRight
<1>5. ASSUME NEW n, Midway(design, width, regs, v, n), Fit(width, regs), n < width
      PROVE  IteratesRight(v, n)
  <2>1. /\ DivMid(width, regs, v, n) /\ n \in Nat /\ regs.idx = n
        /\ n + 1 < max_cycles_per_case
    BY <1>1, <1>2, <1>5 DEF DivMid
  <2>2. /\ DivMid(width, Written(DivLoop(regs, width), regs), v, n + 1)
        /\ Fit(width, DivLoop(regs, width))
    <3>1. width \in Nat \ {0}
      BY <1>2
    <3> QED
      BY <1>3, <1>5, <2>1, <3>1, DivIterates, Zenon
  <2>3. Loop(regs) = DivLoop(regs, width)
    BY DivIs, Zenon
  <2>4. /\ LastLoop(regs) => n + 1 = width
        /\ ~LastLoop(regs) => n + 1 < width
    BY <1>2, <1>5, <2>1, DivIs
  <2>5. design \in TwoStage
    BY DEF TwoStage
  <2> QED
    BY <1>1, <2>1, <2>2, <2>3, <2>4, <2>5 DEF IteratesRight
<1>6. ASSUME Midway(design, width, regs, v, width)
      PROVE  EndsRight(v)
  <2>1. Out(regs) = Oracle(design, v, width)
    BY <1>1, <1>2, <1>3, <1>6, DivEnds, DivIs
  <2>2. width + 1 < max_cycles_per_case
    BY <1>2
  <2> QED
    BY <2>1, <2>2 DEF EndsRight
<1> QED
  BY <1>4, <1>5, <1>6

\* isqrt32 keeps its promises: it begins, iterates and ends right.
LEMMA IsqrtRight ==
  ASSUME design = "isqrt32", NEW v, ValidCase(v)
  PROVE  /\ BeginsRight(v)
         /\ \A n : /\ Midway(design, width, regs, v, n) /\ Fit(width, regs)
                  /\ n < width
                  => IteratesRight(v, n)
         /\ Midway(design, width, regs, v, width) => EndsRight(v)
<1>1. \A r, n : Midway(design, width, r, v, n) <=> IsqrtMid(width, r, v, n)
  BY Zenon DEF Midway
<1>2. width \in 1 .. 16 /\ max_cycles_per_case = 128
  BY Registry DEF ValidCase
<1>3. v \in 0 .. 2 ^ (2 * width) - 1
  BY IsqrtIs DEF ValidCase
<1>4. v \in Nat
  <2>1. 2 ^ (2 * width) \in Nat
    BY <1>2, PowNat
  <2> QED
    BY <1>3, <2>1
<1>5. BeginsRight(v)
  BY <1>1, <1>2, <1>3, IsqrtBegins, IsqrtIs DEF BeginsRight
<1>6. ASSUME NEW n, Midway(design, width, regs, v, n), Fit(width, regs), n < width
      PROVE  IteratesRight(v, n)
  <2>1. /\ IsqrtMid(width, regs, v, n) /\ n \in Nat /\ regs.idx = n
        /\ n + 1 < max_cycles_per_case
    BY <1>1, <1>2, <1>6 DEF IsqrtMid
  <2>2. IsqrtMid(width, Written(IsqrtLoop(regs), regs), v, n + 1) /\ Fit(width, IsqrtLoop(regs))
    <3>1. width \in Nat \ {0}
      BY <1>2
    <3> QED
      BY <1>3, <1>4, <1>6, <2>1, <3>1, IsqrtIterates, Zenon
  <2>3. Loop(regs) = IsqrtLoop(regs)
    BY IsqrtIs, Zenon
  <2>4. /\ LastLoop(regs) => n + 1 = width
        /\ ~LastLoop(regs) => n + 1 < width
    BY <1>2, <1>6, <2>1, IsqrtIs
  <2>5. design \in TwoStage
    BY DEF TwoStage
  <2> QED
    BY <1>1, <2>1, <2>2, <2>3, <2>4, <2>5 DEF IteratesRight
<1>7. ASSUME Midway(design, width, regs, v, width)
      PROVE  EndsRight(v)
  <2>1. Out(regs) = Oracle(design, v, width)
    BY <1>1, <1>2, <1>3, <1>7, IsqrtEnds, IsqrtIs
  <2>2. width + 1 < max_cycles_per_case
    BY <1>2
  <2> QED
    BY <2>1, <2>2 DEF EndsRight
<1> QED
  BY <1>5, <1>6, <1>7

\* crc8 keeps its promises: it begins, iterates and ends right.
LEMMA CrcRight ==
  ASSUME design = "crc8", NEW v, ValidCase(v)
  PROVE  /\ BeginsRight(v)
         /\ \A n : /\ Midway(design, width, regs, v, n) /\ Fit(width, regs)
                  /\ n < width
                  => IteratesRight(v, n)
         /\ Midway(design, width, regs, v, width) => EndsRight(v)
<1>1. \A r, n : Midway(design, width, r, v, n) <=> CrcMid(width, r, v, n)
  BY Zenon DEF Midway
<1>2. width \in 1 .. 16 /\ max_cycles_per_case = 96
  BY Registry DEF ValidCase
<1>3. v \in Bits(width)
  BY CrcIs DEF ValidCase
<1>4. BeginsRight(v)
  BY <1>1, <1>2, <1>3, CrcBegins, CrcIs DEF BeginsRight
<1>5. ASSUME NEW n, Midway(design, width, regs, v, n), Fit(width, regs), n < width
      PROVE  IteratesRight(v, n)
  <2>1. /\ CrcMid(width, regs, v, n) /\ n \in Nat /\ regs.idx = n
        /\ n + 1 < max_cycles_per_case
    BY <1>1, <1>2, <1>5 DEF CrcMid
  <2>2. CrcMid(width, Written(CrcLoop(regs), regs), v, n + 1) /\ Fit(width, CrcLoop(regs))
    <3>1. width \in Nat \ {0}
      BY <1>2
    <3> QED
      BY <1>3, <1>5, <2>1, <3>1, CrcIterates, Zenon
  <2>3. Loop(regs) = CrcLoop(regs)
    BY CrcIs, Zenon
  <2>4. /\ LastLoop(regs) => n + 1 = width
        /\ ~LastLoop(regs) => n + 1 < width
    BY <1>2, <1>5, <2>1, CrcIs
  <2>5. design \in TwoStage
    BY DEF TwoStage
  <2> QED
    BY <1>1, <2>1, <2>2, <2>3, <2>4, <2>5 DEF IteratesRight
<1>6. ASSUME Midway(design, width, regs, v, width)
      PROVE  EndsRight(v)
  <2>1. Out(regs) = Oracle(design, v, width)
    BY <1>1, <1>2, <1>3, <1>6, CrcEnds, CrcIs
  <2>2. width + 1 < max_cycles_per_case
    BY <1>2
  <2> QED
    BY <2>1, <2>2 DEF EndsRight
<1> QED
  BY <1>4, <1>5, <1>6

\* adler32 keeps its promises: it begins, iterates and ends right.
LEMMA AdlerRight ==
  ASSUME design = "adler32", NEW v, ValidCase(v)
  PROVE  /\ BeginsRight(v)
         /\ \A n : /\ Midway(design, width, regs, v, n) /\ Fit(width, regs)
                  /\ n < width
                  => IteratesRight(v, n)
         /\ Midway(design, width, regs, v, width) => EndsRight(v)
<1>1. \A r, n : Midway(design, width, r, v, n) <=> AdlerMid(width, r, v, n)
  BY Zenon DEF Midway
<1>2. width \in 1 .. 4 /\ max_cycles_per_case = 96
  BY Registry DEF ValidCase
<1>3. v \in Bytes(width)
  BY AdlerIs DEF ValidCase
<1>4. BeginsRight(v)
  BY <1>1, <1>2, <1>3, AdlerBegins, AdlerIs DEF BeginsRight
<1>5. ASSUME NEW n, Midway(design, width, regs, v, n), Fit(width, regs), n < width
      PROVE  IteratesRight(v, n)
  <2>1. /\ AdlerMid(width, regs, v, n) /\ n \in Nat /\ regs.byte_idx = n
        /\ n + 1 < max_cycles_per_case
    BY <1>1, <1>2, <1>5 DEF AdlerMid
  <2>2. AdlerMid(width, Written(AdlerLoop(regs), regs), v, n + 1) /\ Fit(width, AdlerLoop(regs))
    <3>1. width \in Nat \ {0}
      BY <1>2
    <3> QED
      BY <1>3, <1>5, <2>1, <3>1, AdlerIterates, Zenon
  <2>3. Loop(regs) = AdlerLoop(regs)
    BY AdlerIs, Zenon
  <2>4. /\ LastLoop(regs) => n + 1 = width
        /\ ~LastLoop(regs) => n + 1 < width
    BY <1>2, <1>5, <2>1, AdlerIs
  <2>5. design \in TwoStage
    BY DEF TwoStage
  <2> QED
    BY <1>1, <2>1, <2>2, <2>3, <2>4, <2>5 DEF IteratesRight
<1>6. ASSUME Midway(design, width, regs, v, width)
      PROVE  EndsRight(v)
  <2>1. Out(regs) = Oracle(design, v, width)
    BY <1>1, <1>2, <1>3, <1>6, AdlerEnds, AdlerIs
  <2>2. width + 1 < max_cycles_per_case
    BY <1>2
  <2> QED
    BY <2>1, <2>2 DEF EndsRight
<1> QED
  BY <1>4, <1>5, <1>6

-----------------------------------------------------------------------------
\* Every design.
LEMMA EveryDesignRight ==
  ASSUME NEW v, ValidCase(v), design # "xor_cipher16"
  PROVE  /\ BeginsRight(v)
         /\ \A n : /\ Midway(design, width, regs, v, n) /\ Fit(width, regs)
                   /\ design \in TwoStage => n < width
                   => IteratesRight(v, n)
         /\ design \in TwoStage /\ Midway(design, width, regs, v, width) => EndsRight(v)
<1>1. design \in Designs
  BY DEF ValidCase
<1>2. CASE design \in TwoStage
  <2>1. design = "div16" \/ design = "isqrt32" \/ design = "crc8" \/ design = "adler32"
    BY <1>2 DEF TwoStage
  <2> QED
    BY <1>2, <2>1, DivRight, IsqrtRight, CrcRight, AdlerRight, Zenon
<1>3. CASE design \notin TwoStage
  <2>1. \/ design = "popcount32" \/ design = "bitrev16" \/ design = "gcd16" \/ design = "mul8"
        \/ design = "matvec_2x2_int4" \/ design = "ray_hit_2d" \/ design = "arbiter_rr"
    BY <1>1, <1>3, DesignNames DEF TwoStage
  <2> QED
    BY <1>3, <2>1, PopcountRight, BitrevRight, GcdRight, MulRight, MatvecRight, RayRight,
       ArbiterRight, Zenon
<1> QED
  BY <1>2, <1>3

\* The limit of a case is a number,
LEMMA LimitType == RunFits => max_cycles_per_case \in Nat \ {0}
BY Registry, DesignNames DEF RunFits

\* and its input a word that the generator can draw.
LEMMA CurrentCase ==
  ASSUME RunFits, case \in Nat, case < Len(vectors)
  PROVE  ValidCase(data_in)
<1>1. PICK W : W = RandomWords(design, width)
  OBVIOUS
<1>2. vectors \in Seq(W)
  BY <1>1 DEF RunFits
<1>3. data_in \in W
  BY <1>2 DEF data_in
<1> QED
  BY <1>1, <1>3 DEF RunFits, ValidCase

-----------------------------------------------------------------------------
\* The invariant holds at first.
LEMMA InitIInv == Init => IInv
<1> SUFFICES ASSUME Init PROVE IInv
  OBVIOUS
<1>1. PICK r \in Runs : design = r[1] /\ width = r[2] /\ vectors = r[3]
  BY Zenon DEF Init
<1>2. RunFits
  <2>1. /\ r[1] \in Designs /\ r[2] \in 1 .. TASK_REGISTRY[r[1]].width
        /\ r[1] = "adler32" => r[2] = 4
        /\ r[3] \in Seq(RandomWords(r[1], r[2]))
    BY ReferencesAssumption
  <2>2. /\ design \in Designs /\ width \in 1 .. TASK_REGISTRY[design].width
        /\ design = "adler32" => width = 4
        /\ vectors \in Seq(RandomWords(design, width))
    BY <1>1, <2>1, Zenon
  <2> QED
    BY <1>1, <2>2, Zenon DEF RunFits
<1>3. /\ pc = "start" /\ case = 0 /\ cycles = 0 /\ total = 0 /\ out = << >>
      /\ state = "idle" /\ regs = << >> /\ done = FALSE
  BY DEF Init
<1>4. BenchFits
  <2>1. Len(vectors) \in Nat
    <3>1. PICK W : W = RandomWords(design, width)
      OBVIOUS
    <3>2. vectors \in Seq(W)
      BY <1>2, <3>1 DEF RunFits
    <3> QED
      BY <3>2
  <2> QED
    BY <1>2, <1>3, <2>1, LimitType DEF BenchFits
<1>5. DesignFits
  <2>1. Fit(width, << >>)
    <3>1. DOMAIN << >> = {}
      OBVIOUS
    <3> QED
      BY <3>1, Zenon DEF Fit
  <2> QED
    BY <1>3, <2>1 DEF DesignFits
<1> QED
  BY <1>2, <1>4, <1>5 DEF IInv

\* What is fixed for a run stays.
LEMMA RunKept == RunFits /\ UNCHANGED run => RunFits' /\ max_cycles_per_case' = max_cycles_per_case
BY DEF RunFits, run, max_cycles_per_case

\* The four states a step leaves the design in: away from the cases,
LEMMA AwayNext ==
  ASSUME pc' # "wait", state' = "idle", done' = FALSE, Fit(width', regs')
  PROVE  DesignFits'
<1>1. (state \in {"idle", "busy", "result"} /\ done \in BOOLEAN)'
  OBVIOUS
<1> QED
  BY <1>1, Zenon DEF DesignFits

\* between two iterations,
LEMMA BusyNext ==
  ASSUME NEW n \in Nat, pc' = "wait", state' = "busy", done' = FALSE, cycles' = n + 1,
         design' # "xor_cipher16", design' \in TwoStage => cycles' <= width',
         Fit(width', regs'), Midway(design', width', regs', data_in', n)
  PROVE  DesignFits'
<1>1. (state \in {"idle", "busy", "result"} /\ done \in BOOLEAN)'
  OBVIOUS
<1>2. cycles' >= 1 /\ cycles' - 1 = n
  OBVIOUS
<1>3. (Midway(design, width, regs, data_in, cycles - 1))'
  BY <1>2, Zenon
<1> QED
  BY <1>1, <1>2, <1>3, Zenon DEF DesignFits

\* after the last one,
LEMMA ResultNext ==
  ASSUME pc' = "wait", state' = "result", done' = FALSE, cycles' = width' + 1,
         design' \in TwoStage, Fit(width', regs'),
         Midway(design', width', regs', data_in', width')
  PROVE  DesignFits'
<1>1. (state \in {"idle", "busy", "result"} /\ done \in BOOLEAN)'
  OBVIOUS
<1> QED
  BY <1>1, Zenon DEF DesignFits

\* and with the answer.
LEMMA AnsweredNext ==
  ASSUME pc' = "wait", state' = "idle", done' = TRUE,
         data_out' = Oracle(design', data_in', width'),
         Charged(design', width', cycles'), Fit(width', regs')
  PROVE  DesignFits'
<1>1. (state \in {"idle", "busy", "result"} /\ done \in BOOLEAN)'
  OBVIOUS
<1> QED
  BY <1>1, Zenon DEF DesignFits

\* A new case: the first iteration comes next, or the answer is there.
LEMMA StartCaseIInv == IInv /\ StartCase => IInv'
<1> SUFFICES ASSUME IInv, StartCase PROVE IInv'
  OBVIOUS
<1> DEFINE v == data_in
<1>1. /\ pc = "case" /\ case < Len(vectors) /\ pc' = "wait" /\ cycles' = 1
      /\ UNCHANGED run /\ UNCHANGED <<case, total, out>>
      /\ AnswerAtOnce(v) \/ Begin(v)
  BY DEF StartCase
<1>2. RunFits /\ BenchFits /\ DesignFits
  BY DEF IInv
<1>3. /\ case \in Nat /\ Len(vectors) \in Nat /\ total \in Nat
  BY <1>1, <1>2 DEF BenchFits
<1>4. state = "idle" /\ done = FALSE /\ Fit(width, regs)
  BY <1>1, <1>2 DEF DesignFits
<1>5. ValidCase(v)
  BY <1>1, <1>2, <1>3, CurrentCase
<1>6. v' = v /\ design' = design /\ width' = width /\ vectors' = vectors
  BY <1>1 DEF data_in, run
<1>7. RunFits' /\ max_cycles_per_case' = max_cycles_per_case
  BY <1>1, <1>2, RunKept
<1>8. max_cycles_per_case \in Nat \ {0}
  BY <1>2, LimitType
<1>9. BenchFits'
  BY <1>1, <1>2, <1>3, <1>6, <1>7, <1>8 DEF BenchFits
<1> HIDE DEF v
<1>10. width >= 1 /\ width \in Nat
  BY <1>5, Registry, DesignNames DEF ValidCase
<1>11. data_in' = v /\ v = data_in
  BY <1>6 DEF v
<1>12. DesignFits'
  <2>1. CASE AnswerAtOnce(v)
    <3>1. /\ design = "xor_cipher16" \/ (design = "arbiter_rr" /\ v[2] = {})
          /\ data_out' = IF design = "arbiter_rr" THEN 8 ELSE Xor(v, CipherKey)
          /\ done' = TRUE
          /\ regs' = IF design = "arbiter_rr" THEN Written(Load(v), regs) ELSE regs
          /\ state' = state
      BY <2>1 DEF AnswerAtOnce
    <3>2. CASE design = "xor_cipher16"
      <4>1. data_out' = Oracle(design, v, width)
        <5>1. Oracle(design, v, width) = XorCipher(v)
          BY <3>2, Zenon DEF Oracle
        <5> QED
          BY <3>1, <3>2, <5>1 DEF XorCipher
      <4>2. Charged(design, width, 1)
        BY <3>2 DEF Charged, TwoStage
      <4>3. regs' = regs
        BY <3>1, <3>2
      <4> QED
        BY <1>1, <1>4, <1>6, <1>11, <3>1, <4>1, <4>2, <4>3, AnsweredNext, Zenon
    <3>3. CASE design = "arbiter_rr" /\ v[2] = {}
      <4>1. BeginsRight(v)
        BY <1>5, <3>3, EveryDesignRight
      <4>2. data_out' = Oracle(design, v, width)
        BY <3>1, <3>3, <4>1 DEF BeginsRight
      <4>3. Charged(design, width, 1)
        BY <3>3 DEF Charged, TwoStage
      <4>4. Fit(width, regs')
        BY <1>4, <3>1, <3>3, <4>1, WrittenFits DEF BeginsRight
      <4> QED
        BY <1>1, <1>4, <1>6, <1>11, <3>1, <4>2, <4>3, <4>4, AnsweredNext, Zenon
    <3> QED
      BY <3>1, <3>2, <3>3
  <2>2. CASE Begin(v)
    <3>1. /\ design # "xor_cipher16" /\ (design = "arbiter_rr" => v[2] # {})
          /\ regs' = Written(Load(v), regs)
          /\ state' = "busy" /\ done' = FALSE
      BY <2>2 DEF Begin
    <3>2. BeginsRight(v)
      BY <1>5, <3>1, EveryDesignRight
    <3>3. Fit(width, regs')
      BY <1>4, <3>1, <3>2, WrittenFits DEF BeginsRight
    <3>4. Midway(design, width, regs', v, 0)
      BY <3>1, <3>2 DEF BeginsRight
    <3>5. 0 \in Nat /\ cycles' = 0 + 1 /\ cycles' <= width
      BY <1>1, <1>10
    <3> QED
      BY <1>1, <1>6, <1>11, <3>1, <3>3, <3>4, <3>5, BusyNext, Zenon
  <2> QED
    BY <1>1, <2>1, <2>2
<1> QED
  BY <1>7, <1>9, <1>12 DEF IInv

\* A tick: one more iteration, or the result of the last.
LEMMA TickIInv == IInv /\ Tick => IInv'
<1> SUFFICES ASSUME IInv, Tick PROVE IInv'
  OBVIOUS
<1> DEFINE v == data_in
           n == cycles - 1
<1>1. /\ pc = "wait" /\ done # TRUE /\ cycles < max_cycles_per_case
      /\ cycles' = cycles + 1 /\ pc' = pc
      /\ UNCHANGED run /\ UNCHANGED <<case, total, out>>
      /\ Iterate \/ GiveResult
  BY DEF Tick
<1>2. RunFits /\ BenchFits /\ DesignFits
  BY DEF IInv
<1>3. /\ case \in Nat /\ case < Len(vectors) /\ Len(vectors) \in Nat /\ total \in Nat
      /\ cycles \in Nat
  BY <1>1, <1>2, LimitType DEF BenchFits
<1>4. ValidCase(v)
  BY <1>2, <1>3, CurrentCase
<1>5. data_in' = v /\ v = data_in /\ design' = design /\ width' = width /\ vectors' = vectors
  BY <1>1 DEF data_in, run
<1>6. RunFits' /\ max_cycles_per_case' = max_cycles_per_case
  BY <1>1, <1>2, RunKept
<1>7. max_cycles_per_case \in Nat \ {0}
  BY <1>2, LimitType
<1>8. BenchFits'
  BY <1>1, <1>2, <1>3, <1>5, <1>6, <1>7 DEF BenchFits
<1>9. Fit(width, regs)
  BY <1>2 DEF DesignFits
<1>10. width \in Nat
  BY <1>4, Registry, DesignNames DEF ValidCase
<1> HIDE DEF v
<1>11. CASE Iterate
  <2>1. /\ state = "busy" /\ regs' = Written(Loop(regs), regs)
        /\ LastLoop(regs) /\ design \notin TwoStage =>
             data_out' = Out(regs) /\ done' = TRUE /\ state' = "idle"
        /\ LastLoop(regs) /\ design \in TwoStage => state' = "result" /\ done' = done
        /\ ~LastLoop(regs) => state' = "busy" /\ done' = done
    BY <1>11, Zenon DEF Iterate
  <2>2. /\ done = FALSE /\ cycles >= 1 /\ design # "xor_cipher16"
        /\ design \in TwoStage => cycles <= width
        /\ Midway(design, width, regs, v, n)
    BY <1>1, <1>2, <2>1, Zenon DEF DesignFits, v
  <2>3. /\ n \in Nat /\ n + 1 = cycles /\ n + 2 = cycles'
        /\ design \in TwoStage => n < width
    BY <1>1, <1>3, <1>10, <2>2
  <2> HIDE DEF n
  <2>4. IteratesRight(v, n)
    BY <1>4, <1>9, <2>2, <2>3, EveryDesignRight
  <2>5. Fit(width, regs')
    BY <1>9, <2>1, <2>4, WrittenFits DEF IteratesRight
  <2>6. ASSUME ~LastLoop(regs) PROVE DesignFits'
    <3>1. Midway(design, width, regs', v, n + 1)
      BY <2>1, <2>4, <2>6, Zenon DEF IteratesRight
    <3>2. n + 1 \in Nat /\ cycles' = (n + 1) + 1
      BY <2>3
    <3>3. design \in TwoStage => cycles' <= width
      <4>1. design \in TwoStage => n + 1 < width
        BY <2>4, <2>6, Zenon DEF IteratesRight
      <4> QED
        BY <1>10, <2>3, <4>1
    <3> QED
      BY <1>1, <1>5, <2>1, <2>2, <2>5, <2>6, <3>1, <3>2, <3>3, BusyNext, Zenon
  <2>7. ASSUME LastLoop(regs) /\ design \notin TwoStage PROVE DesignFits'
    <3>1. data_out' = Oracle(design, v, width) /\ Charged(design, width, cycles')
      BY <2>1, <2>3, <2>4, <2>7, Zenon DEF IteratesRight
    <3> QED
      BY <1>1, <1>5, <2>1, <2>5, <2>7, <3>1, AnsweredNext, Zenon
  <2>8. ASSUME LastLoop(regs) /\ design \in TwoStage PROVE DesignFits'
    <3>1. n + 1 = width /\ Midway(design, width, regs', v, width)
      BY <2>1, <2>4, <2>8, Zenon DEF IteratesRight
    <3>2. cycles' = width + 1
      BY <1>1, <2>3, <3>1
    <3> QED
      BY <1>1, <1>5, <2>1, <2>2, <2>5, <2>8, <3>1, <3>2, ResultNext, Zenon
  <2>9. DesignFits'
    BY <2>6, <2>7, <2>8, Zenon
  <2> QED
    BY <1>6, <1>8, <2>9, Zenon DEF IInv
<1>12. CASE GiveResult
  <2>1. /\ state = "result" /\ data_out' = Out(regs) /\ done' = TRUE /\ state' = "idle"
        /\ regs' = regs
    BY <1>12, Zenon DEF GiveResult
  <2>2. /\ design \in TwoStage /\ cycles = width + 1
        /\ Midway(design, width, regs, v, width)
    BY <1>1, <1>2, <2>1, Zenon DEF DesignFits, v
  <2>3. design # "xor_cipher16"
    BY <2>2 DEF TwoStage
  <2>4. data_out' = Oracle(design, v, width)
    BY <1>4, <2>1, <2>2, <2>3, EveryDesignRight DEF EndsRight
  <2>5. Charged(design, width, cycles')
    <3>1. cycles' = width + 2
      BY <1>1, <1>10, <2>2
    <3> QED
      BY <2>2, <3>1 DEF Charged, TwoStage
  <2>6. DesignFits'
    BY <1>1, <1>5, <1>9, <2>1, <2>4, <2>5, AnsweredNext, Zenon
  <2> QED
    BY <1>6, <1>8, <2>6, Zenon DEF IInv
<1> QED
  BY <1>1, <1>11, <1>12

\* While a case runs the limit is not reached, and an answer is right.
LEMMA NeitherLateNorWrong ==
  ASSUME IInv, pc = "wait"
  PROVE  /\ done # TRUE => cycles < max_cycles_per_case
         /\ done = TRUE => state = "idle" /\ data_out = Oracle(design, data_in, width)
<1>1. RunFits /\ BenchFits /\ DesignFits
  BY DEF IInv
<1>2. case \in Nat /\ case < Len(vectors) /\ cycles \in Nat /\ max_cycles_per_case \in Nat
  BY <1>1, LimitType DEF BenchFits
<1>3. ValidCase(data_in)
  BY <1>1, <1>2, CurrentCase
<1>4. width \in Nat
  BY <1>3, Registry, DesignNames DEF ValidCase
<1>5. state = "idle" => done = TRUE /\ data_out = Oracle(design, data_in, width)
  BY <1>1, Zenon DEF DesignFits
<1>6. CASE state = "busy"
  <2>1. /\ done = FALSE /\ cycles >= 1 /\ design # "xor_cipher16"
        /\ design \in TwoStage => cycles <= width
        /\ Midway(design, width, regs, data_in, cycles - 1) /\ Fit(width, regs)
    BY <1>1, <1>6, Zenon DEF DesignFits
  <2>2. design \in TwoStage => cycles - 1 < width
    BY <1>2, <1>4, <2>1
  <2>3. IteratesRight(data_in, cycles - 1)
    BY <1>3, <2>1, <2>2, EveryDesignRight, Zenon
  <2>4. (cycles - 1) + 1 < max_cycles_per_case
    BY <2>3, Zenon DEF IteratesRight
  <2>5. cycles < max_cycles_per_case
    BY <1>2, <2>4
  <2> QED
    BY <2>1, <2>5, Zenon
<1>7. CASE state = "result"
  <2>1. /\ done = FALSE /\ design \in TwoStage /\ cycles = width + 1
        /\ Midway(design, width, regs, data_in, width)
    BY <1>1, <1>7, Zenon DEF DesignFits
  <2>2. design # "xor_cipher16"
    BY <2>1 DEF TwoStage
  <2>3. width + 1 < max_cycles_per_case
    BY <1>3, <2>1, <2>2, EveryDesignRight DEF EndsRight
  <2> QED
    BY <2>1, <2>3
<1> QED
  BY <1>1, <1>5, <1>6, <1>7 DEF DesignFits

\* The verdict on a case: it is passed.
LEMMA JudgeIInv == IInv /\ Judge => IInv'
<1> SUFFICES ASSUME IInv, Judge PROVE IInv'
  OBVIOUS
<1>1. /\ pc = "wait" /\ UNCHANGED run /\ cycles' = cycles /\ state' = state /\ regs' = regs
  BY DEF Judge
<1>2. RunFits /\ BenchFits /\ DesignFits
  BY DEF IInv
<1>3. /\ case \in Nat /\ case < Len(vectors) /\ Len(vectors) \in Nat /\ total \in Nat
      /\ cycles \in Nat /\ max_cycles_per_case \in Nat
  BY <1>1, <1>2, LimitType DEF BenchFits
<1>4. /\ done # TRUE => ~(cycles >= max_cycles_per_case)
      /\ done = TRUE => state = "idle" /\ data_out = Oracle(design, data_in, width)
  <2>1. /\ done # TRUE => cycles < max_cycles_per_case
        /\ done = TRUE => state = "idle" /\ data_out = Oracle(design, data_in, width)
    BY <1>1, NeitherLateNorWrong
  <2>2. cycles < max_cycles_per_case => ~(cycles >= max_cycles_per_case)
    BY <1>3
  <2> QED
    BY <2>1, <2>2, Zenon
<1>5. done \in BOOLEAN
  BY <1>2, Zenon DEF DesignFits
<1>6. pc' = "case" /\ case' = case + 1 /\ total' = total + cycles /\ done' = FALSE
  BY <1>4, <1>5, Zenon DEF Judge
<1>7. done = TRUE
  BY <1>4, <1>5, Zenon DEF Judge
<1>8. RunFits' /\ max_cycles_per_case' = max_cycles_per_case
  BY <1>1, <1>2, RunKept
<1>9. vectors' = vectors /\ width' = width
  BY <1>1 DEF run
<1>10. BenchFits'
  BY <1>1, <1>2, <1>3, <1>6, <1>8, <1>9 DEF BenchFits
<1>11. Fit(width', regs')
  BY <1>1, <1>2, <1>9, Zenon DEF DesignFits
<1>12. DesignFits'
  <2>1. pc' # "wait"
    BY <1>6
  <2> QED
    BY <1>1, <1>4, <1>6, <1>7, <1>11, <2>1, AwayNext, Zenon
<1> QED
  BY <1>8, <1>10, <1>12 DEF IInv

\* The two steps that leave the design alone.
LEMMA OutsideCasesIInv == IInv /\ (ReadVectors \/ AllCasesPassed) => IInv'
<1> SUFFICES ASSUME IInv, ReadVectors \/ AllCasesPassed PROVE IInv'
  OBVIOUS
<1>1. /\ UNCHANGED run /\ UNCHANGED <<case, cycles, total>> /\ UNCHANGED dut
      /\ \/ pc = "start" /\ pc' = "case"
         \/ pc = "case" /\ case = Len(vectors) /\ pc' = "ok"
  BY DEF ReadVectors, AllCasesPassed
<1>2. RunFits /\ BenchFits /\ DesignFits
  BY DEF IInv
<1>3. RunFits' /\ max_cycles_per_case' = max_cycles_per_case
  BY <1>1, <1>2, RunKept
<1>4. vectors' = vectors /\ width' = width
  BY <1>1 DEF run
<1>5. BenchFits'
  BY <1>1, <1>2, <1>3, <1>4 DEF BenchFits
<1>6. state' = state /\ regs' = regs /\ done' = done
  BY <1>1 DEF dut
<1>7. state = "idle" /\ done = FALSE /\ Fit(width, regs)
  BY <1>1, <1>2 DEF DesignFits
<1>8. pc' # "wait"
  BY <1>1
<1>9. DesignFits'
  BY <1>4, <1>6, <1>7, <1>8, AwayNext
<1> QED
  BY <1>3, <1>5, <1>9 DEF IInv

\* A step that changes nothing keeps the invariant.
LEMMA StutterIInv == IInv /\ UNCHANGED vars => IInv'
<1> SUFFICES ASSUME IInv, UNCHANGED vars PROVE IInv'
  OBVIOUS
<1>1. /\ UNCHANGED run /\ UNCHANGED <<pc, case, cycles, total, out>> /\ UNCHANGED dut
  BY DEF vars
<1>2. RunFits /\ BenchFits /\ DesignFits
  BY DEF IInv
<1>3. RunFits' /\ max_cycles_per_case' = max_cycles_per_case
  BY <1>1, <1>2, RunKept
<1>4. data_in' = data_in /\ design' = design /\ width' = width /\ vectors' = vectors
  BY <1>1 DEF data_in, run
<1>5. BenchFits'
  BY <1>1, <1>2, <1>3, <1>4 DEF BenchFits
<1>6. state' = state /\ regs' = regs /\ done' = done /\ data_out' = data_out
  BY <1>1 DEF dut
<1>7. pc' = pc /\ cycles' = cycles
  BY <1>1
<1>8. DesignFits'
  BY <1>2, <1>4, <1>6, <1>7, Zenon DEF DesignFits
<1> QED
  BY <1>3, <1>5, <1>8 DEF IInv

\* IInv holds in every reachable state: every iteration of every design of
\* references.py keeps what the next one needs.
THEOREM InductiveInvariant == Spec => []IInv
<1>1. Init => IInv
  BY InitIInv
<1>2. IInv /\ [Next]_vars => IInv'
  BY StartCaseIInv, TickIInv, JudgeIInv, OutsideCasesIInv, StutterIInv DEF Next
<1> QED
  BY <1>1, <1>2, PTL DEF Spec

-----------------------------------------------------------------------------
\* Registers keep to their ranges in every reachable state: no counter of a
\* reference design wraps around, no case takes longer than its limit.
THEOREM TypeCorrect == Spec => []TypeOK
<1>1. IInv => TypeOK
  <2> SUFFICES ASSUME IInv PROVE TypeOK
    OBVIOUS
  <2>1. RegsFit(regs)
    BY RegsFitIsFit DEF IInv, DesignFits
  <2> QED
    BY <2>1 DEF IInv, RunFits, BenchFits, DesignFits, TypeOK
<1> QED
  BY <1>1, InductiveInvariant, PTL

\* No case of a vector set is ever failed, whatever the cases before it left
\* in the registers: the reference designs compute their oracles.
THEOREM ReferencesCorrect == Spec => []Correct
<1>1. IInv => Correct
  BY DEF IInv, BenchFits, Correct
<1> QED
  BY <1>1, InductiveInvariant, PTL

-----------------------------------------------------------------------------
\* The cycles of a case times the length of a vector set is the baseline.
Baseline ==
  LET task == TASK_REGISTRY[design] IN
  Latency(task.width) * Cases(design, width) = task.baseline_cycles

\* The cycles of a case are what the comments of references.py say;
LEMMA Latencies ==
  \A w : /\ design \in {"popcount32", "bitrev16", "mul8"} => Latency(w) = w + 1
         /\ design \in TwoStage => Latency(w) = w + 2
         /\ design \in {"matvec_2x2_int4", "ray_hit_2d"} => Latency(w) = 6
         /\ design = "xor_cipher16" => Latency(w) = 1
<1> TAKE w
<1>1. ASSUME design \in {"popcount32", "bitrev16", "mul8"} PROVE Latency(w) = w + 1
  <2>1. /\ design \notin TwoStage /\ design \notin {"matvec_2x2_int4", "ray_hit_2d"}
        /\ design # "xor_cipher16"
    BY <1>1 DEF TwoStage
  <2> QED
    BY <1>1, <2>1, Zenon DEF Latency
<1>2. ASSUME design \in TwoStage PROVE Latency(w) = w + 2
  <2>1. /\ design \notin {"popcount32", "bitrev16", "mul8"}
        /\ design \notin {"matvec_2x2_int4", "ray_hit_2d"} /\ design # "xor_cipher16"
    BY <1>2 DEF TwoStage
  <2> QED
    BY <1>2, <2>1, Zenon DEF Latency
<1>3. ASSUME design \in {"matvec_2x2_int4", "ray_hit_2d"} PROVE Latency(w) = 6
  <2>1. /\ design \notin {"popcount32", "bitrev16", "mul8"} /\ design \notin TwoStage
        /\ design # "xor_cipher16"
    BY <1>3 DEF TwoStage
  <2> QED
    BY <1>3, <2>1, Zenon DEF Latency
<1>4. ASSUME design = "xor_cipher16" PROVE Latency(w) = 1
  <2>1. /\ design \notin {"popcount32", "bitrev16", "mul8"} /\ design \notin TwoStage
        /\ design \notin {"matvec_2x2_int4", "ray_hit_2d"}
    BY <1>4 DEF TwoStage
  <2> QED
    BY <1>4, <2>1, Zenon DEF Latency
<1> QED
  BY <1>1, <1>2, <1>3, <1>4

\* times the length of a vector set they are the baseline of the registry.
LEMMA BaselineOf ==
  ASSUME design \in Designs, design # "gcd16", design # "arbiter_rr"
  PROVE  Baseline
<1>1. ASSUME design = "popcount32" PROVE Baseline
  <2>1. CornerWords(design, width) = Popcount32Corners(width)
    BY <1>1, Zenon DEF CornerWords
  <2>2. Len(Popcount32Corners(width)) = 6
    BY DEF Popcount32Corners
  <2>3. TASK_REGISTRY[design].random = 26 /\ TASK_REGISTRY[design].baseline_cycles = 1056
    BY <1>1 DEF TASK_REGISTRY, POPCOUNT32
  <2>4. Latency(TASK_REGISTRY[design].width) = 33
    <3>1. TASK_REGISTRY[design].width = 32
      BY <1>1, Registry, Zenon
    <3>2. Latency(32) = 32 + 1
      BY <1>1, Latencies DEF TwoStage
    <3> QED
      BY <3>1, <3>2
  <2>5. 33 * (6 + 26) = 1056
    OBVIOUS
  <2> QED
    BY <2>1, <2>2, <2>3, <2>4, <2>5 DEF Baseline, Cases
<1>2. ASSUME design = "bitrev16" PROVE Baseline
  <2>1. CornerWords(design, width) = Bitrev16Corners(width)
    BY <1>2, Zenon DEF CornerWords
  <2>2. Len(Bitrev16Corners(width)) = 6
    BY DEF Bitrev16Corners
  <2>3. TASK_REGISTRY[design].random = 24 /\ TASK_REGISTRY[design].baseline_cycles = 510
    BY <1>2 DEF TASK_REGISTRY, BITREV16
  <2>4. Latency(TASK_REGISTRY[design].width) = 17
    <3>1. TASK_REGISTRY[design].width = 16
      BY <1>2, Registry, Zenon
    <3>2. Latency(16) = 16 + 1
      BY <1>2, Latencies DEF TwoStage
    <3> QED
      BY <3>1, <3>2
  <2>5. 17 * (6 + 24) = 510
    OBVIOUS
  <2> QED
    BY <2>1, <2>2, <2>3, <2>4, <2>5 DEF Baseline, Cases
<1>3. ASSUME design = "mul8" PROVE Baseline
  <2>1. CornerWords(design, width) = Mul8Corners(width)
    BY <1>3, Zenon DEF CornerWords
  <2>2. Len(Mul8Corners(width)) = 8
    BY DEF Mul8Corners
  <2>3. TASK_REGISTRY[design].random = 24 /\ TASK_REGISTRY[design].baseline_cycles = 288
    BY <1>3 DEF TASK_REGISTRY, MUL8
  <2>4. Latency(TASK_REGISTRY[design].width) = 9
    <3>1. TASK_REGISTRY[design].width = 8
      BY <1>3, Registry, Zenon
    <3>2. Latency(8) = 8 + 1
      BY <1>3, Latencies DEF TwoStage
    <3> QED
      BY <3>1, <3>2
  <2>5. 9 * (8 + 24) = 288
    OBVIOUS
  <2> QED
    BY <2>1, <2>2, <2>3, <2>4, <2>5 DEF Baseline, Cases
<1>4. ASSUME design = "div16" PROVE Baseline
  <2>1. CornerWords(design, width) = Div16Corners(width)
    BY <1>4, Zenon DEF CornerWords
  <2>2. Len(Div16Corners(width)) = 5
    BY DEF Div16Corners
  <2>3. TASK_REGISTRY[design].random = 20 /\ TASK_REGISTRY[design].baseline_cycles = 450
    BY <1>4 DEF TASK_REGISTRY, DIV16
  <2>4. Latency(TASK_REGISTRY[design].width) = 18
    <3>1. TASK_REGISTRY[design].width = 16
      BY <1>4, Registry, Zenon
    <3>2. Latency(16) = 16 + 2
      BY <1>4, Latencies DEF TwoStage
    <3> QED
      BY <3>1, <3>2
  <2>5. 18 * (5 + 20) = 450
    OBVIOUS
  <2> QED
    BY <2>1, <2>2, <2>3, <2>4, <2>5 DEF Baseline, Cases
<1>5. ASSUME design = "isqrt32" PROVE Baseline
  <2>1. CornerWords(design, width) = Isqrt32Corners(width)
    BY <1>5, Zenon DEF CornerWords
  <2>2. Len(Isqrt32Corners(width)) = 8
    BY DEF Isqrt32Corners
  <2>3. TASK_REGISTRY[design].random = 24 /\ TASK_REGISTRY[design].baseline_cycles = 576
    BY <1>5 DEF TASK_REGISTRY, ISQRT32
  <2>4. Latency(TASK_REGISTRY[design].width) = 18
    <3>1. TASK_REGISTRY[design].width = 16
      BY <1>5, Registry, Zenon
    <3>2. Latency(16) = 16 + 2
      BY <1>5, Latencies DEF TwoStage
    <3> QED
      BY <3>1, <3>2
  <2>5. 18 * (8 + 24) = 576
    OBVIOUS
  <2> QED
    BY <2>1, <2>2, <2>3, <2>4, <2>5 DEF Baseline, Cases
<1>6. ASSUME design = "crc8" PROVE Baseline
  <2>1. CornerWords(design, width) = Crc8Corners(width)
    BY <1>6, Zenon DEF CornerWords
  <2>2. Len(Crc8Corners(width)) = 6
    BY DEF Crc8Corners
  <2>3. TASK_REGISTRY[design].random = 24 /\ TASK_REGISTRY[design].baseline_cycles = 540
    BY <1>6 DEF TASK_REGISTRY, CRC8
  <2>4. Latency(TASK_REGISTRY[design].width) = 18
    <3>1. TASK_REGISTRY[design].width = 16
      BY <1>6, Registry, Zenon
    <3>2. Latency(16) = 16 + 2
      BY <1>6, Latencies DEF TwoStage
    <3> QED
      BY <3>1, <3>2
  <2>5. 18 * (6 + 24) = 540
    OBVIOUS
  <2> QED
    BY <2>1, <2>2, <2>3, <2>4, <2>5 DEF Baseline, Cases
<1>7. ASSUME design = "xor_cipher16" PROVE Baseline
  <2>1. CornerWords(design, width) = XorCipher16Corners(width)
    BY <1>7, Zenon DEF CornerWords
  <2>2. Len(XorCipher16Corners(width)) = 7
    BY DEF XorCipher16Corners
  <2>3. TASK_REGISTRY[design].random = 24 /\ TASK_REGISTRY[design].baseline_cycles = 31
    BY <1>7 DEF TASK_REGISTRY, XOR_CIPHER16
  <2>4. Latency(TASK_REGISTRY[design].width) = 1
    BY <1>7, Latencies DEF TwoStage
  <2>5. 1 * (7 + 24) = 31
    OBVIOUS
  <2> QED
    BY <2>1, <2>2, <2>3, <2>4, <2>5 DEF Baseline, Cases
<1>8. ASSUME design = "adler32" PROVE Baseline
  <2>1. CornerWords(design, width) = AdlerCorners
    BY <1>8, Zenon DEF CornerWords
  <2>2. Len(AdlerCorners) = 5
    BY DEF AdlerCorners
  <2>3. TASK_REGISTRY[design].random = 24 /\ TASK_REGISTRY[design].baseline_cycles = 174
    BY <1>8 DEF TASK_REGISTRY, ADLER32
  <2>4. Latency(TASK_REGISTRY[design].width) = 6
    <3>1. TASK_REGISTRY[design].width = 4
      BY <1>8, Registry, Zenon
    <3>2. Latency(4) = 4 + 2
      BY <1>8, Latencies DEF TwoStage
    <3> QED
      BY <3>1, <3>2
  <2>5. 6 * (5 + 24) = 174
    OBVIOUS
  <2> QED
    BY <2>1, <2>2, <2>3, <2>4, <2>5 DEF Baseline, Cases
<1>9. ASSUME design = "matvec_2x2_int4" PROVE Baseline
  <2>1. CornerWords(design, width) = << >>
    BY <1>9, Zenon DEF CornerWords
  <2>2. Len(CornerWords(design, width)) = 0
    BY <2>1
  <2>3. TASK_REGISTRY[design].random = 28 /\ TASK_REGISTRY[design].baseline_cycles = 168
    BY <1>9 DEF TASK_REGISTRY, MATVEC_2X2_INT4
  <2>4. Latency(TASK_REGISTRY[design].width) = 6
    BY <1>9, Latencies DEF TwoStage
  <2>5. 6 * (0 + 28) = 168
    OBVIOUS
  <2> QED
    BY <2>1, <2>2, <2>3, <2>4, <2>5 DEF Baseline, Cases
<1>10. ASSUME design = "ray_hit_2d" PROVE Baseline
  <2>1. CornerWords(design, width) = << >>
    BY <1>10, Zenon DEF CornerWords
  <2>2. Len(CornerWords(design, width)) = 0
    BY <2>1
  <2>3. TASK_REGISTRY[design].random = 32 /\ TASK_REGISTRY[design].baseline_cycles = 192
    BY <1>10 DEF TASK_REGISTRY, RAY_HIT_2D
  <2>4. Latency(TASK_REGISTRY[design].width) = 6
    BY <1>10, Latencies DEF TwoStage
  <2>5. 6 * (0 + 32) = 192
    OBVIOUS
  <2> QED
    BY <2>1, <2>2, <2>3, <2>4, <2>5 DEF Baseline, Cases
<1> QED
  BY <1>1, <1>2, <1>3, <1>4, <1>5, <1>6, <1>7, <1>8, <1>9, <1>10, DesignNames

\* A case is charged what the timing of the design says; for the designs whose
\* time is fixed that makes up baseline_cycles over a vector set of the real
\* width: the reference design scores 0.5 on every seed.
THEOREM ReferencesCharged == Spec => []ChargedAsBaseline
<1>1. IInv => ChargedAsBaseline
  <2> SUFFICES ASSUME IInv, pc = "wait", done PROVE ChargedAsBaseline
    BY Zenon DEF ChargedAsBaseline
  <2>1. design \in Designs /\ done \in BOOLEAN /\ cycles \in Nat
    BY LimitType DEF IInv, RunFits, BenchFits, DesignFits
  <2>2. Charged(design, width, cycles)
    BY NeitherLateNorWrong, <2>1 DEF IInv, DesignFits
  <2>3. width \in Nat
    BY Registry, DesignNames DEF IInv, RunFits
  <2>4. CASE design = "gcd16"
    <3>1. cycles <= 2 * width + 1
      BY <2>2, <2>3, <2>4 DEF Charged
    <3> QED
      BY <2>4, <3>1, Zenon DEF ChargedAsBaseline
  <2>5. CASE design = "arbiter_rr"
    <3>1. cycles <= 9
      BY <2>2, <2>5 DEF Charged
    <3> QED
      BY <2>5, <3>1, Zenon DEF ChargedAsBaseline
  <2>6. CASE design # "gcd16" /\ design # "arbiter_rr"
    <3>1. cycles = Latency(width)
      BY <2>1, <2>2, <2>6, Latencies, DesignNames DEF Charged, TwoStage
    <3>2. Baseline
      BY <2>1, <2>6, BaselineOf
    <3> QED
      BY <2>6, <3>1, <3>2, Zenon DEF ChargedAsBaseline, Baseline
  <2> QED
    BY <2>4, <2>5, <2>6
<1> QED
  BY <1>1, InductiveInvariant, PTL

-----------------------------------------------------------------------------
\* What is so far and what is left, for the designs that fold over the bits.
OnesOf(v, n) == Cardinality({i \in 1 .. n : v[i] = 1})

\* The ones among the first n digits are a number,
LEMMA OnesNat ==
  ASSUME NEW w \in Nat, NEW v \in Bits(w), NEW n \in 0 .. w
  PROVE  OnesOf(v, n) \in Nat
<1>1. IsFiniteSet(1 .. n)
  BY FS_Interval
<1>2. IsFiniteSet({i \in 1 .. n : v[i] = 1})
  BY <1>1, FS_Subset
<1> QED
  BY <1>2, FS_CardinalityType DEF OnesOf

\* and those of the rest add up with them to all ones.
LEMMA OnesAdd ==
  ASSUME NEW w \in Nat, NEW v \in Bits(w), NEW y \in Bits(w), NEW n \in 0 .. w,
         Shifted(w, y, v, n)
  PROVE  OnesOf(v, w) = OnesOf(v, n) + OnesOf(y, w - n)
<1> DEFINE S == {m \in Nat : n + m <= w => OnesOf(v, n + m) = OnesOf(v, n) + OnesOf(y, m)}
<1>1. 0 \in S
  <2>1. {i \in 1 .. 0 : y[i] = 1} = {}
    OBVIOUS
  <2>2. OnesOf(y, 0) = 0
    BY <2>1, FS_EmptySet DEF OnesOf
  <2>3. OnesOf(v, n) \in Nat /\ n + 0 = n
    BY OnesNat
  <2> QED
    BY <2>2, <2>3
<1>2. ASSUME NEW m \in Nat, m \in S, n + (m + 1) <= w
      PROVE  OnesOf(v, n + (m + 1)) = OnesOf(v, n) + OnesOf(y, m + 1)
  <2>1. n + m \in 0 .. w - 1 /\ m \in 0 .. w - 1 /\ n + (m + 1) = (n + m) + 1
    BY <1>2
  <2>2. OnesOf(v, (n + m) + 1) = OnesOf(v, n + m) + v[(n + m) + 1]
    BY <2>1, OnesNext DEF OnesOf
  <2>3. OnesOf(y, m + 1) = OnesOf(y, m) + y[m + 1]
    BY <2>1, OnesNext DEF OnesOf
  <2>4. y[m + 1] = v[(n + m) + 1]
    <3>1. m + 1 \in 1 .. w - n /\ (m + 1) + n = (n + m) + 1
      BY <1>2
    <3>2. y[m + 1] = v[(m + 1) + n]
      BY <3>1 DEF Shifted
    <3> QED
      BY <3>1, <3>2
  <2>5. OnesOf(v, n + m) = OnesOf(v, n) + OnesOf(y, m)
    BY <1>2, <2>1
  <2>6. OnesOf(v, n) \in Nat /\ OnesOf(y, m) \in Nat
    BY <2>1, OnesNat
  <2>7. y[m + 1] \in Nat
    <3>1. m + 1 \in 1 .. w
      BY <2>1
    <3> QED
      BY <3>1 DEF Bits, Bit
  <2> QED
    BY <2>1, <2>2, <2>3, <2>4, <2>5, <2>6, <2>7
<1>3. \A m \in Nat : m \in S
  <2>1. \A m \in Nat : m \in S => m + 1 \in S
    BY <1>2
  <2> HIDE DEF S
  <2> QED
    BY <1>1, <2>1, Induction
<1>4. w - n \in Nat /\ n + (w - n) = w
  OBVIOUS
<1> QED
  BY <1>3, <1>4

\* The count so far and the ones left are the answer.
LEMMA PopcountSoFar ==
  ASSUME NEW w \in Nat \ {0}, NEW v \in Bits(w), NEW r, NEW n, PopcountMid(w, r, v, n)
  PROVE  r.count + Popcount(SubSeq(r.shift, 1, w - r.idx)) = Popcount(v)
<1>1. /\ n \in 0 .. w /\ r.idx = n /\ r.shift \in Bits(w) /\ Shifted(w, r.shift, v, n)
      /\ r.count = OnesOf(v, n)
  BY DEF PopcountMid, OnesOf
<1>2. Popcount(v) = OnesOf(v, w)
  <2>1. DOMAIN v = 1 .. w
    BY DEF Bits
  <2> QED
    BY <2>1 DEF Popcount, OnesOf
<1>3. Popcount(SubSeq(r.shift, 1, w - n)) = OnesOf(r.shift, w - n)
  <2>1. w - n \in 0 .. w
    BY <1>1
  <2>2. /\ SubSeq(r.shift, 1, w - n) \in [1 .. w - n -> Bit]
        /\ \A i \in 1 .. w - n : SubSeq(r.shift, 1, w - n)[i] = r.shift[i]
    <3>1. r.shift \in [1 .. w -> Bit]
      BY <1>1 DEF Bits
    <3> QED
      BY <2>1, <3>1, FirstBits
  <2>3. DOMAIN SubSeq(r.shift, 1, w - n) = 1 .. w - n
    BY <2>2
  <2>4. {i \in DOMAIN SubSeq(r.shift, 1, w - n) : SubSeq(r.shift, 1, w - n)[i] = 1}
          = {i \in 1 .. w - n : r.shift[i] = 1}
    BY <2>2, <2>3
  <2> QED
    BY <2>4 DEF Popcount, OnesOf
<1>4. OnesOf(v, w) = OnesOf(v, n) + OnesOf(r.shift, w - n)
  BY <1>1, OnesAdd
<1> QED
  BY <1>1, <1>2, <1>3, <1>4

\* What is left, reversed, and what has been shifted in are the answer.
LEMMA BitrevSoFar ==
  ASSUME NEW w \in Nat \ {0}, NEW v \in Bits(w), NEW r, NEW n, BitrevMid(w, r, v, n)
  PROVE  Reverse(SubSeq(r.in_sr, 1, w - r.idx)) \o SubSeq(r.out_sr, 1, r.idx) = Bitrev(v)
<1>1. /\ n \in 0 .. w - 1 /\ r.idx = n
      /\ r.in_sr \in [1 .. w -> Bit] /\ Shifted(w, r.in_sr, v, n)
      /\ r.out_sr \in [1 .. w -> Bit] /\ \A i \in 1 .. n : r.out_sr[i] = v[n + 1 - i]
  BY DEF BitrevMid, Bits
<1>2. Bitrev(v) = [i \in 1 .. w |-> v[w + 1 - i]]
  BY BitrevIsReverse
<1>3. PICK m \in Nat : m = w - n /\ m \in 0 .. w /\ w = m + n /\ n \in Nat
  BY <1>1
<1> DEFINE a == SubSeq(r.in_sr, 1, m)
           b == SubSeq(r.out_sr, 1, n)
<1>4. a \in [1 .. m -> Bit] /\ \A i \in 1 .. m : a[i] = r.in_sr[i]
  BY <1>1, <1>3, FirstBits
<1>5. b \in [1 .. n -> Bit] /\ \A i \in 1 .. n : b[i] = r.out_sr[i]
  BY <1>1, <1>3, FirstBits
<1> HIDE DEF a, b
<1>6. Reverse(a) = [i \in 1 .. m |-> a[m - i + 1]] /\ Reverse(a) \in [1 .. m -> Bit]
  <2>1. Len(a) = m
    BY <1>3, <1>4
  <2> QED
    BY <1>3, <1>4, <2>1 DEF Reverse
<1>7. PICK ra : ra = Reverse(a)
  OBVIOUS
<1>8. ra \in [1 .. m -> Bit] /\ \A i \in 1 .. m : ra[i] = v[w + 1 - i]
  <2>1. ASSUME NEW i \in 1 .. m PROVE ra[i] = v[w + 1 - i]
    <3>1. m - i + 1 \in 1 .. m /\ m - i + 1 \in 1 .. w - n /\ (m - i + 1) + n = w + 1 - i
      BY <1>3
    <3>2. ra[i] = a[m - i + 1]
      BY <1>6, <1>7
    <3>3. a[m - i + 1] = v[(m - i + 1) + n]
      BY <1>1, <1>4, <3>1 DEF Shifted
    <3> QED
      BY <3>1, <3>2, <3>3
  <2> QED
    BY <1>6, <1>7, <2>1
<1>9. \A i \in 1 .. n : b[i] = v[n + 1 - i]
  BY <1>1, <1>5
<1>10. ra \in Seq(Bit) /\ b \in Seq(Bit) /\ Len(ra) = m /\ Len(b) = n
  BY <1>3, <1>5, <1>8
<1>11. ra \o b = [i \in 1 .. w |-> v[w + 1 - i]]
  <2>1. ra \o b \in Seq(Bit) /\ Len(ra \o b) = w
    BY <1>3, <1>10
  <2>2. ASSUME NEW i \in 1 .. w PROVE (ra \o b)[i] = v[w + 1 - i]
    <3>1. CASE i <= m
      BY <1>3, <1>8, <1>10, <3>1
    <3>2. CASE ~(i <= m)
      <4>1. i - m \in 1 .. n /\ n + 1 - (i - m) = w + 1 - i
        BY <1>3, <3>2
      <4>2. (ra \o b)[i] = b[i - m]
        BY <1>3, <1>10, <3>2
      <4> QED
        BY <1>9, <4>1, <4>2
    <3> QED
      BY <3>1, <3>2
  <2>3. DOMAIN (ra \o b) = 1 .. w
    BY <2>1
  <2>4. PICK c : c = ra \o b
    OBVIOUS
  <2>5. c \in [1 .. w -> Bit]
    BY <2>1, <2>4, SequencesAsBits
  <2> QED
    BY <2>2, <2>4, <2>5
<1> QED
  BY <1>1, <1>2, <1>3, <1>7, <1>11 DEF a, b

\* quot, rem and what is left of the dividend make the dividend.
LEMMA DivSoFar ==
  ASSUME width \in Nat \ {0}, NEW v, v[2] \in Nat, NEW n, DivMid(width, regs, v, n)
  PROVE  DivInv(regs, v)
<1>1. /\ regs.idx = n /\ regs.divisor = v[2] /\ regs.rem \in 0 .. v[2] - 1 /\ regs.rem < 2 ^ n
      /\ (regs.quot * v[2] + regs.rem) * 2 ^ (width - n) + (regs.dividend \div 2 ^ n) = v[1]
  BY DEF DivMid
<1>2. regs.rem < v[2]
  BY <1>1
<1> QED
  BY <1>1, <1>2, Zenon DEF DivInv

\* The square of what has been found and the remainder make the input.
LEMMA IsqrtSoFar ==
  ASSUME width \in Nat \ {0}, NEW v, NEW n, IsqrtMid(width, regs, v, n)
  PROVE  IsqrtInv(regs, v)
BY Zenon DEF IsqrtInv, IsqrtMid

\* The bits left lead from the crc so far to the answer.
LEMMA CrcSoFar ==
  ASSUME NEW w \in Nat \ {0}, NEW v \in Bits(w), NEW r, NEW n, CrcMid(w, r, v, n)
  PROVE  FoldLeft(CrcBit, r.crc, SubSeq(r.shift, 1, w - r.idx)) = Crc8(v)
<1>1. /\ n \in 0 .. w /\ r.idx = n /\ r.shift \in [1 .. w -> Bit] /\ Shifted(w, r.shift, v, n)
      /\ r.crc = FoldLeft(CrcBit, CrcInit, SubSeq(v, 1, n)) /\ v \in [1 .. w -> Bit]
  BY DEF CrcMid, Bits
<1>2. PICK F : CrcsOf(F, w, v)
  BY <1>1, CrcsExist
<1>3. r.crc = F[n] /\ Crc8(v) = F[w]
  BY <1>1, <1>2, CrcOfPrefix, CrcOfAll
<1>4. w - n \in 0 .. w
  BY <1>1
<1>5. PICK y : y = SubSeq(r.shift, 1, w - n)
  OBVIOUS
<1>6. y \in [1 .. w - n -> Bit] /\ \A i \in 1 .. w - n : y[i] = r.shift[i]
  <2>1. w \in Nat /\ r.shift \in [1 .. w -> Bit]
    BY <1>1
  <2>2. \A x \in [1 .. w -> Bit], m \in 0 .. w :
          /\ SubSeq(x, 1, m) \in [1 .. m -> Bit]
          /\ \A i \in 1 .. m : SubSeq(x, 1, m)[i] = x[i]
    BY <2>1, FirstBits
  <2>3. /\ SubSeq(r.shift, 1, w - n) \in [1 .. w - n -> Bit]
        /\ \A i \in 1 .. w - n : SubSeq(r.shift, 1, w - n)[i] = r.shift[i]
    BY <1>4, <2>1, <2>2, Zenon
  <2> QED
    BY <1>5, <2>3
<1>7. \A i \in 1 .. w - n : y[i] = v[i + n]
  BY <1>1, <1>6 DEF Shifted
<1>8. FoldLeft(CrcBit, F[n], y) = F[w]
  BY <1>1, <1>2, <1>6, <1>7, CrcOfSuffix
<1> QED
  BY <1>1, <1>3, <1>5, <1>8

\* The bytes left lead from the sums so far to the answer.
LEMMA AdlerSoFar ==
  ASSUME NEW w \in Nat \ {0}, NEW v \in Bytes(w), NEW r, NEW n, AdlerMid(w, r, v, n)
  PROVE  FoldLeft(AdlerByte, <<r.s1, r.s2>>, SubSeq(r.data, 1, w - r.byte_idx)) = Adler(v)
<1>1. /\ n \in 0 .. w /\ r.byte_idx = n /\ r.data \in Bytes(w) /\ Shifted(w, r.data, v, n)
      /\ <<r.s1, r.s2>> = FoldLeft(AdlerByte, <<1, 0>>, SubSeq(v, 1, n))
  BY DEF AdlerMid
<1>2. PICK F : SumsOf(F, w, v)
  BY SumsExist
<1>3. <<r.s1, r.s2>> = F[n] /\ Adler(v) = F[w]
  BY <1>1, <1>2, SumsOfPrefix, SumsOfAll
<1>4. w - n \in 0 .. w
  BY <1>1
<1>5. PICK y : y = SubSeq(r.data, 1, w - n)
  OBVIOUS
<1>6. y \in Bytes(w - n) /\ \A i \in 1 .. w - n : y[i] = r.data[i]
  <2>1. PICK B : B = 0 .. 255
    OBVIOUS
  <2>2. r.data \in [1 .. w -> B]
    BY <1>1, <2>1 DEF Bytes
  <2>3. y \in [1 .. w - n -> B] /\ \A i \in 1 .. w - n : y[i] = r.data[i]
    BY <1>4, <1>5, <2>2, FirstBits
  <2> QED
    BY <2>1, <2>3 DEF Bytes
<1>7. \A i \in 1 .. w - n : y[i] = v[i + n]
  BY <1>1, <1>6 DEF Shifted
<1>8. FoldLeft(AdlerByte, F[n], y) = F[w]
  BY <1>1, <1>2, <1>6, <1>7, SumsOfSuffix
<1> QED
  BY <1>1, <1>3, <1>5, <1>8, Zenon

\* No index passed over has a request, and the search ends at the last one.
LEMMA ArbiterSoFar ==
  ASSUME NEW w \in Nat \ {0}, NEW v, ArbiterOperands(v), NEW r, NEW n, ArbiterMid(r, v, n)
  PROVE  /\ \A k \in 1 .. r.offset - 1 : (r.last + k) % 8 \notin r.req
         /\ r.offset = 8 => ArbiterFound(r)
<1>1. r.offset = 8 => ArbiterFound(r)
  BY ArbiterIterates
<1>2. r.offset - 1 = n /\ r.last = v[1] /\ r.req = v[2]
  BY DEF ArbiterMid
<1>3. \A k \in 1 .. n : (v[1] + k) % 8 \notin v[2]
  BY Zenon DEF ArbiterMid
<1>4. \A k \in 1 .. r.offset - 1 : (r.last + k) % 8 \notin r.req
  BY <1>2, <1>3, Zenon
<1> QED
  BY <1>1, <1>4

-----------------------------------------------------------------------------
\* While a case runs the design is Midway through it.
LEMMA RunningIsMidway ==
  ASSUME IInv, pc = "wait", state # "idle"
  PROVE  /\ ValidCase(data_in) /\ width \in Nat \ {0} /\ design # "xor_cipher16"
         /\ \E n : Midway(design, width, regs, data_in, n)
<1>1. RunFits /\ BenchFits /\ DesignFits
  BY DEF IInv
<1>2. case \in Nat /\ case < Len(vectors)
  BY <1>1 DEF BenchFits
<1>3. ValidCase(data_in)
  BY <1>1, <1>2, CurrentCase
<1>4. width \in Nat \ {0}
  BY <1>3, Registry, DesignNames DEF ValidCase
<1>5. state = "busy" \/ state = "result"
  BY <1>1 DEF DesignFits
<1>6. CASE state = "busy"
  BY <1>1, <1>3, <1>4, <1>6, Zenon DEF DesignFits
<1>7. CASE state = "result"
  <2>1. design \in TwoStage /\ Midway(design, width, regs, data_in, width)
    BY <1>1, <1>7, Zenon DEF DesignFits
  <2>2. design # "xor_cipher16"
    BY <2>1 DEF TwoStage
  <2> QED
    BY <1>3, <1>4, <2>1, <2>2
<1> QED
  BY <1>5, <1>6, <1>7

\* Between two iterations of a case, what a design has so far and what is left
\* of the input make the answer of the oracle: the loop invariant of each
\* reference design.
THEOREM ReferencesLoopInv == Spec => []LoopInv
<1>1. IInv => LoopInv
  <2> SUFFICES ASSUME IInv, pc = "wait", state # "idle" PROVE LoopInv
    BY Zenon DEF LoopInv
  <2>1. /\ ValidCase(data_in) /\ width \in Nat \ {0} /\ design # "xor_cipher16"
        /\ design \in Designs
    BY RunningIsMidway DEF ValidCase
  <2>2. PICK n : Midway(design, width, regs, data_in, n)
    BY RunningIsMidway
  <2>3. PICK v : v = data_in
    OBVIOUS
  <2>4. v \in RandomWords(design, width)
    BY <2>1, <2>3 DEF ValidCase
  <2>5. CASE design = "popcount32"
    <3>1. PopcountMid(width, regs, v, n)
      BY <2>2, <2>3, <2>5, Zenon DEF Midway
    <3>2. v \in Bits(width)
      BY <2>4, <2>5, PopcountIs
    <3>3. regs.count + Popcount(Remaining(regs.shift, regs.idx)) = Popcount(v)
      BY <2>1, <3>1, <3>2, PopcountSoFar DEF Remaining
    <3> QED
      BY <2>3, <2>5, <3>3, Zenon DEF LoopInv
  <2>6. CASE design = "bitrev16"
    <3>1. BitrevMid(width, regs, v, n)
      BY <2>2, <2>3, <2>6, Zenon DEF Midway
    <3>2. v \in Bits(width)
      BY <2>4, <2>6, BitrevIs
    <3>3. Reverse(Remaining(regs.in_sr, regs.idx)) \o SubSeq(regs.out_sr, 1, regs.idx)
            = Bitrev(v)
      BY <2>1, <3>1, <3>2, BitrevSoFar DEF Remaining
    <3> QED
      BY <2>3, <2>6, <3>3, Zenon DEF LoopInv
  <2>7. CASE design = "gcd16"
    <3>1. GcdMid(width, regs, v, n)
      BY <2>2, <2>3, <2>7, Zenon DEF Midway
    <3>2. Gcd(regs.a, regs.b) * 2 ^ regs.k = Gcd(v[1], v[2])
      BY <3>1, Zenon DEF GcdMid, GcdHolds
    <3> QED
      BY <2>3, <2>7, <3>2, Zenon DEF LoopInv
  <2>8. CASE design = "mul8"
    <3>1. MulMid(width, regs, v, n)
      BY <2>2, <2>3, <2>8, Zenon DEF Midway
    <3>2. regs.product + regs.mcand * regs.mplier = v[1] * v[2]
      BY <3>1, Zenon DEF MulMid
    <3> QED
      BY <2>3, <2>8, <3>2, Zenon DEF LoopInv
  <2>9. CASE design = "div16"
    <3>1. DivMid(width, regs, v, n)
      BY <2>2, <2>3, <2>9, Zenon DEF Midway
    <3>2. v[2] \in Nat
      <4>1. 2 ^ width \in Nat
        BY <2>1, PowNat
      <4> QED
        BY <2>4, <2>9, <4>1, DivIs
    <3>3. DivInv(regs, v)
      BY <2>1, <3>1, <3>2, DivSoFar
    <3> QED
      BY <2>3, <2>9, <3>3, Zenon DEF LoopInv
  <2>10. CASE design = "isqrt32"
    <3>1. IsqrtMid(width, regs, v, n)
      BY <2>2, <2>3, <2>10, Zenon DEF Midway
    <3>2. IsqrtInv(regs, v)
      BY <2>1, <3>1, IsqrtSoFar
    <3> QED
      BY <2>3, <2>10, <3>2, Zenon DEF LoopInv
  <2>11. CASE design = "crc8"
    <3>1. CrcMid(width, regs, v, n)
      BY <2>2, <2>3, <2>11, Zenon DEF Midway
    <3>2. v \in Bits(width)
      BY <2>4, <2>11, CrcIs
    <3>3. FoldLeft(CrcBit, regs.crc, Remaining(regs.shift, regs.idx)) = Crc8(v)
      BY <2>1, <3>1, <3>2, CrcSoFar, Zenon DEF Remaining
    <3> QED
      BY <2>3, <2>11, <3>3, Zenon DEF LoopInv
  <2>12. CASE design = "adler32"
    <3>1. AdlerMid(width, regs, v, n)
      BY <2>2, <2>3, <2>12, Zenon DEF Midway
    <3>2. v \in Bytes(width)
      BY <2>4, <2>12, AdlerIs
    <3>3. FoldLeft(AdlerByte, <<regs.s1, regs.s2>>, Remaining(regs.data, regs.byte_idx))
            = Adler(v)
      BY <2>1, <3>1, <3>2, AdlerSoFar, Zenon DEF Remaining
    <3> QED
      BY <2>3, <2>12, <3>3, Zenon DEF LoopInv
  <2>13. CASE design = "arbiter_rr"
    <3>1. ArbiterMid(regs, v, n)
      BY <2>2, <2>3, <2>13, Zenon DEF Midway
    <3>2. ArbiterOperands(v)
      BY <2>4, <2>13, ArbiterIs DEF ArbiterOperands
    <3>3. /\ \A k \in 1 .. regs.offset - 1 : (regs.last + k) % 8 \notin regs.req
          /\ regs.offset = 8 => ArbiterFound(regs)
      BY <2>1, <3>1, <3>2, ArbiterSoFar, Zenon
    <3> QED
      BY <2>13, <3>3, Zenon DEF LoopInv
  <2>14. CASE design = "matvec_2x2_int4" \/ design = "ray_hit_2d"
    BY <2>14, Zenon DEF LoopInv
  <2>15. \/ design = "popcount32" \/ design = "bitrev16" \/ design = "gcd16" \/ design = "mul8"
         \/ design = "div16" \/ design = "isqrt32" \/ design = "crc8" \/ design = "adler32"
         \/ design = "arbiter_rr" \/ design = "matvec_2x2_int4" \/ design = "ray_hit_2d"
    BY <2>1, DesignNames
  <2> QED
    BY <2>5, <2>6, <2>7, <2>8, <2>9, <2>10, <2>11, <2>12, <2>13, <2>14, <2>15, Zenon
<1> QED
  BY <1>1, InductiveInvariant, PTL

-----------------------------------------------------------------------------
\* The oracles are what the prompts ask for.
LEMMA DivisionDescribed ==
  ASSUME NEW w \in Nat, NEW v, DivOperands(w, v)
  PROVE  /\ v[1] = Div(v[1], v[2])[1] * v[2] + Div(v[1], v[2])[2]
         /\ Div(v[1], v[2])[2] < v[2] /\ Div(v[1], v[2])[1] < 2 ^ w
<1>1. PICK P \in Nat : P = 2 ^ w
  BY PowNat
<1>2. v[1] \in 0 .. P - 1 /\ v[2] \in 1 .. P - 1
  BY <1>1 DEF DivOperands
<1>3. PICK x \in Nat, y \in Nat : x = v[1] /\ y = v[2] /\ y # 0 /\ x < P
  BY <1>2
<1>4. x = (x \div y) * y + (x % y) /\ x \div y \in Nat /\ x % y \in Nat /\ x % y < y
  BY <1>3, Division
<1>5. PICK q \in Nat, e \in Nat : q = x \div y /\ e = x % y
  BY <1>4
<1>6. Div(x, y) = <<q, e>>
  BY <1>5 DEF Div
<1>7. x = q * y + e /\ e < y
  BY <1>4, <1>5
<1>8. q <= x
  <2>1. q <= q * y
    BY <1>3
  <2> QED
    BY <1>7, <2>1
<1>9. q < P
  BY <1>3, <1>8
<1> QED
  BY <1>1, <1>3, <1>6, <1>7, <1>9

\* The oracle of isqrt32 is the floor of the root.
LEMMA RootDescribed ==
  ASSUME NEW w \in Nat, NEW v \in 0 .. 2 ^ (2 * w) - 1
  PROVE  /\ Isqrt(v, w) * Isqrt(v, w) <= v
         /\ v < (Isqrt(v, w) + 1) * (Isqrt(v, w) + 1)
<1>1. 2 ^ (2 * w) = 2 ^ w * 2 ^ w
  BY Doubled
<1>2. PICK P \in Nat : P = 2 ^ (2 * w)
  <2>1. 2 * w \in Nat
    OBVIOUS
  <2> QED
    BY <2>1, PowNat
<1>3. v \in Nat /\ v < P
  BY <1>2
<1>4. v < 2 ^ w * 2 ^ w
  BY <1>1, <1>2, <1>3
<1>5. IsRoot(Isqrt(v, w), v)
  BY <1>3, <1>4, IsqrtIsRoot
<1> QED
  BY <1>5 DEF IsRoot

\* A bit to which a key bit is added twice is itself,
LEMMA CipheredTwice == \A x, k \in Bit : (((x + k) % 2) + k) % 2 = x
BY DEF Bit

\* so that deciphering is ciphering again.
LEMMA CipherDescribed ==
  ASSUME NEW w \in 1 .. 16, NEW v \in Bits(w)
  PROVE  XorCipher(XorCipher(v)) = v
<1>1. \A i \in 1 .. w : CipherKey[i] \in Bit
  <2>1. CipherKey \in [1 .. 16 -> Bit]
    BY DEF CipherKey, Bit
  <2> QED
    BY <2>1
<1>2. PICK u : u = XorCipher(v)
  OBVIOUS
<1>3. u \in Bits(w) /\ \A i \in 1 .. w : u[i] = (v[i] + CipherKey[i]) % 2
  BY <1>1, <1>2, XorBits DEF XorCipher
<1>4. /\ XorCipher(u) \in Bits(w)
      /\ \A i \in 1 .. w : XorCipher(u)[i] = (u[i] + CipherKey[i]) % 2
  BY <1>1, <1>3, XorBits DEF XorCipher
<1>5. \A i \in 1 .. w : XorCipher(u)[i] = v[i]
  <2> TAKE i \in 1 .. w
  <2>1. PICK x \in Bit, k \in Bit : x = v[i] /\ k = CipherKey[i]
    BY <1>1 DEF Bits
  <2>2. (((x + k) % 2) + k) % 2 = x
    BY CipheredTwice
  <2>3. u[i] = (x + k) % 2
    BY <1>3, <2>1
  <2>4. XorCipher(u)[i] = (u[i] + k) % 2
    BY <1>4, <2>1
  <2> QED
    BY <2>1, <2>2, <2>3, <2>4
<1>6. PICK y : y = XorCipher(u)
  OBVIOUS
<1>7. y \in [1 .. w -> Bit] /\ v \in [1 .. w -> Bit]
  BY <1>4, <1>6 DEF Bits
<1>8. y = v
  BY <1>5, <1>6, <1>7
<1> QED
  BY <1>2, <1>6, <1>8

\* Remainders of sums of remainders.
LEMMA SumOfRemainder ==
  ASSUME NEW x \in Nat, NEW y \in Nat
  PROVE  ((x % 251) + y) % 251 = (x + y) % 251
OBVIOUS

\* The same, of two remainders.
LEMMA SumOfRemainders ==
  ASSUME NEW x \in Nat, NEW y \in Nat
  PROVE  ((x % 251) + (y % 251)) % 251 = (x + y) % 251
OBVIOUS

\* One byte, of sums that are remainders of a and b.
LEMMA AdlerNext ==
  ASSUME NEW a \in Nat, NEW b \in Nat, NEW s, s = <<a % 251, b % 251>>, NEW x \in Nat
  PROVE  AdlerByte(s, x) = <<(a + x) % 251, (b + (a + x)) % 251>>
<1>1. ((a % 251) + x) % 251 = (a + x) % 251
  BY SumOfRemainder
<1>2. a + x \in Nat
  OBVIOUS
<1>3. ((b % 251) + ((a + x) % 251)) % 251 = (b + (a + x)) % 251
  BY <1>2, SumOfRemainders
<1>4. AdlerByte(s, x) = <<((a % 251) + x) % 251, ((b % 251) + (((a % 251) + x) % 251)) % 251>>
  BY DEF AdlerByte, MOD
<1> QED
  BY <1>1, <1>3, <1>4

\* The oracle of adler32 is the closed form of the two sums.
LEMMA AdlerDescribed ==
  ASSUME NEW v \in Bytes(4)
  PROVE  Adler(v) = <<(1 + v[1] + v[2] + v[3] + v[4]) % 251,
                      (4 + 4 * v[1] + 3 * v[2] + 2 * v[3] + v[4]) % 251>>
<1>1. PICK a \in Nat, b \in Nat, c \in Nat, d \in Nat :
        a = v[1] /\ b = v[2] /\ c = v[3] /\ d = v[4]
  <2>1. \A i \in 1 .. 4 : v[i] \in Nat
    BY DEF Bytes
  <2>2. v[1] \in Nat /\ v[2] \in Nat /\ v[3] \in Nat /\ v[4] \in Nat
    BY <2>1
  <2> QED
    BY <2>2
<1>2. PICK F : SumsOf(F, 4, v)
  BY SumsExist
<1>3. F[0] = <<1, 0>>
  BY <1>2 DEF SumsOf
<1>4. /\ F[1] = AdlerByte(F[0], a) /\ F[2] = AdlerByte(F[1], b)
      /\ F[3] = AdlerByte(F[2], c) /\ F[4] = AdlerByte(F[3], d)
  <2>1. \A k \in 0 .. 3 : F[k + 1] = AdlerByte(F[k], v[k + 1])
    BY <1>2 DEF SumsOf
  <2>2. F[0 + 1] = AdlerByte(F[0], v[0 + 1])
    BY <2>1
  <2>3. F[1 + 1] = AdlerByte(F[1], v[1 + 1])
    BY <2>1
  <2>4. F[2 + 1] = AdlerByte(F[2], v[2 + 1])
    BY <2>1
  <2>5. F[3 + 1] = AdlerByte(F[3], v[3 + 1])
    BY <2>1
  <2> QED
    BY <1>1, <2>2, <2>3, <2>4, <2>5
<1>5. F[0] = <<1 % 251, 0 % 251>>
  BY <1>3
<1>6. F[1] = <<(1 + a) % 251, (1 + a) % 251>>
  <2>1. AdlerByte(F[0], a) = <<(1 + a) % 251, (0 + (1 + a)) % 251>>
    BY <1>5, AdlerNext
  <2> QED
    BY <1>4, <2>1
<1>7. PICK s1 \in Nat, t1 \in Nat : s1 = 1 + a /\ t1 = 1 + a
  OBVIOUS
<1>8. F[2] = <<(s1 + b) % 251, (t1 + (s1 + b)) % 251>>
  <2>1. F[1] = <<s1 % 251, t1 % 251>>
    BY <1>6, <1>7
  <2> QED
    BY <1>4, <2>1, AdlerNext
<1>9. PICK s2 \in Nat, t2 \in Nat : s2 = s1 + b /\ t2 = t1 + (s1 + b)
  OBVIOUS
<1>10. F[3] = <<(s2 + c) % 251, (t2 + (s2 + c)) % 251>>
  <2>1. F[2] = <<s2 % 251, t2 % 251>>
    BY <1>8, <1>9
  <2> QED
    BY <1>4, <2>1, AdlerNext
<1>11. PICK s3 \in Nat, t3 \in Nat : s3 = s2 + c /\ t3 = t2 + (s2 + c)
  OBVIOUS
<1>12. F[4] = <<(s3 + d) % 251, (t3 + (s3 + d)) % 251>>
  <2>1. F[3] = <<s3 % 251, t3 % 251>>
    BY <1>10, <1>11
  <2> QED
    BY <1>4, <2>1, AdlerNext
<1>13. /\ s3 + d = 1 + a + b + c + d
       /\ t3 + (s3 + d) = 4 + 4 * a + 3 * b + 2 * c + d
  BY <1>7, <1>9, <1>11
<1>14. F[4] = <<(1 + a + b + c + d) % 251, (4 + 4 * a + 3 * b + 2 * c + d) % 251>>
  BY <1>12, <1>13
<1>15. Adler(v) = F[4]
  BY <1>2, SumsOfAll
<1> QED
  BY <1>1, <1>14, <1>15

\* The distance of the index that is k further than last.
LEMMA DistanceOf ==
  \A last \in 0 .. 7, k \in 1 .. 8 : (((last + k) % 8) - last - 1) % 8 = k - 1
OBVIOUS

\* The grant is the request nearest after the last one, or 8 if there is none.
LEMMA GrantDescribed ==
  ASSUME NEW v, ArbiterOperands(v)
  PROVE  /\ (RoundRobin(v) = 8) <=> (v[2] = {})
         /\ v[2] # {} => RoundRobin(v) \in v[2]
         /\ v[2] # {} => \A i \in v[2] :
              (RoundRobin(v) - v[1] - 1) % 8 <= (i - v[1] - 1) % 8
<1>1. v[2] = {} => RoundRobin(v) = 8
  <2>1. v[2] = {} => Wanted(v) = {}
    BY Zenon DEF Wanted
  <2> QED
    BY <2>1, RoundRobinIs, Zenon
<1>2. ASSUME v[2] # {}
      PROVE  /\ RoundRobin(v) \in v[2] /\ RoundRobin(v) # 8
             /\ \A i \in v[2] : (RoundRobin(v) - v[1] - 1) % 8 <= (i - v[1] - 1) % 8
  <2>1. Wanted(v) # {}
    BY <1>2, RequestIsWanted
  <2>2. \A k \in Wanted(v) : k \in 1 .. 8 /\ (v[1] + k) % 8 \in v[2]
    BY Zenon DEF Wanted
  <2>3. Min(Wanted(v)) \in Wanted(v) /\ \A k \in Wanted(v) : Min(Wanted(v)) <= k
    <3>1. Wanted(v) \subseteq Nat
      BY DEF Wanted
    <3> QED
      BY <2>1, <3>1, Least
  <2>4. PICK m : m = Min(Wanted(v))
    OBVIOUS
  <2>5. m \in 1 .. 8 /\ (v[1] + m) % 8 \in v[2]
    BY <2>2, <2>3, <2>4, Zenon
  <2>6. RoundRobin(v) = (v[1] + m) % 8
    BY <2>1, <2>4, RoundRobinIs, Zenon
  <2>7. RoundRobin(v) \in v[2]
    BY <2>5, <2>6, Zenon
  <2>8. RoundRobin(v) # 8
    BY <2>7 DEF ArbiterOperands
  <2>9. PICK last \in 0 .. 7 : last = v[1]
    BY DEF ArbiterOperands
  <2>10. (RoundRobin(v) - v[1] - 1) % 8 = m - 1
    <3>1. (((last + m) % 8) - last - 1) % 8 = m - 1
      BY <2>5, DistanceOf
    <3>2. RoundRobin(v) = (last + m) % 8
      BY <2>6, <2>9
    <3> QED
      BY <2>9, <3>1, <3>2
  <2>11. ASSUME NEW i \in v[2]
         PROVE  m - 1 <= (i - v[1] - 1) % 8
    <3>1. i \in 0 .. 7
      BY DEF ArbiterOperands
    <3>2. PICK k \in 1 .. 8 : (last + k) % 8 = i
      BY <3>1, IndexReached
    <3>3. k \in Wanted(v)
      <4>1. (v[1] + k) % 8 \in v[2]
        BY <2>9, <3>2, Zenon
      <4> QED
        BY <4>1, Zenon DEF Wanted
    <3>4. m <= k
      BY <2>3, <2>4, <3>3
    <3>5. (i - last - 1) % 8 = k - 1
      <4>1. (((last + k) % 8) - last - 1) % 8 = k - 1
        BY DistanceOf
      <4> QED
        BY <3>2, <4>1
    <3>6. (i - v[1] - 1) % 8 = k - 1
      BY <2>9, <3>5
    <3> QED
      BY <2>5, <3>4, <3>6
  <2>12. \A i \in v[2] : (RoundRobin(v) - v[1] - 1) % 8 <= (i - v[1] - 1) % 8
    BY <2>10, <2>11
  <2> QED
    BY <2>7, <2>8, <2>12
<1> QED
  BY <1>1, <1>2

\* What the oracles of tasks.py compute is what the prompts describe, for every
\* word a generator can draw.
THEOREM ReferencesAsDescribed == Spec => []AsDescribed
<1>1. IInv => AsDescribed
  <2> SUFFICES ASSUME IInv, pc = "wait"
               PROVE  Described(data_in, Oracle(design, data_in, width))
    BY Zenon DEF AsDescribed
  <2>1. RunFits /\ case \in Nat /\ case < Len(vectors)
    BY DEF IInv, BenchFits
  <2>2. ValidCase(data_in)
    BY <2>1, CurrentCase
  <2>3. design \in Designs /\ width \in Nat \ {0}
    BY <2>2, Registry, DesignNames DEF ValidCase
  <2>4. PICK v : v = data_in
    OBVIOUS
  <2>5. v \in RandomWords(design, width)
    BY <2>2, <2>4 DEF ValidCase
  <2>6. ASSUME design = "bitrev16" PROVE Described(v, Oracle(design, v, width))
    <3>1. v \in Bits(width) /\ Oracle(design, v, width) = Bitrev(v)
      BY <2>5, <2>6, BitrevIs
    <3>2. Bitrev(v) = [i \in 1 .. width |-> v[width + 1 - i]]
      BY <2>3, <3>1, BitrevIsReverse
    <3>3. \A i \in 1 .. width : Oracle(design, v, width)[i] = v[width + 1 - i]
      BY <3>1, <3>2
    <3> QED
      BY <2>6, <3>3, Zenon DEF Described
  <2>7. ASSUME design = "gcd16" PROVE Described(v, Oracle(design, v, width))
    <3>1. GcdOperands(width, v)
      BY <2>5, <2>7, GcdIs DEF GcdOperands
    <3>2. Oracle(design, v, width) = Gcd(v[1], v[2])
      BY <2>7, GcdIs, Zenon
    <3>3. v[1] \in Nat /\ v[2] \in Nat /\ v[1] # 0
      <4>1. 2 ^ width \in Nat
        BY <2>3, PowNat
      <4> QED
        BY <3>1, <4>1 DEF GcdOperands
    <3>4. Gcd(v[1], v[2]) = Max({n \in 1 .. v[1] : v[1] % n = 0 /\ v[2] % n = 0})
      BY <3>3, GcdIsGreatest
    <3> QED
      BY <2>7, <3>2, <3>4, Zenon DEF Described
  <2>8. ASSUME design = "div16" PROVE Described(v, Oracle(design, v, width))
    <3>1. DivOperands(width, v)
      BY <2>5, <2>8, DivIs DEF DivOperands
    <3>2. Oracle(design, v, width) = Div(v[1], v[2])
      BY <2>8, DivIs, Zenon
    <3>3. /\ v[1] = Div(v[1], v[2])[1] * v[2] + Div(v[1], v[2])[2]
          /\ Div(v[1], v[2])[2] < v[2] /\ Div(v[1], v[2])[1] < 2 ^ width
      BY <2>3, <3>1, DivisionDescribed
    <3> QED
      BY <2>8, <3>2, <3>3, Zenon DEF Described
  <2>9. ASSUME design = "isqrt32" PROVE Described(v, Oracle(design, v, width))
    <3>1. v \in 0 .. 2 ^ (2 * width) - 1
      BY <2>5, <2>9, IsqrtIs, Zenon
    <3>2. Oracle(design, v, width) = Isqrt(v, width)
      BY <2>9, IsqrtIs, Zenon
    <3>3. /\ Isqrt(v, width) * Isqrt(v, width) <= v
          /\ v < (Isqrt(v, width) + 1) * (Isqrt(v, width) + 1)
      BY <2>3, <3>1, RootDescribed
    <3> QED
      BY <2>9, <3>2, <3>3, Zenon DEF Described
  <2>10. ASSUME design = "xor_cipher16" PROVE Described(v, Oracle(design, v, width))
    <3>1. RandomWords(design, width) = Bits(width)
      BY <2>10, Zenon DEF RandomWords
    <3>2. Oracle(design, v, width) = XorCipher(v)
      BY <2>10, Zenon DEF Oracle
    <3>3. width \in 1 .. 16
      BY <2>2, <2>10, Registry DEF ValidCase
    <3>4. XorCipher(XorCipher(v)) = v
      BY <2>5, <3>1, <3>3, CipherDescribed
    <3> QED
      BY <2>10, <3>2, <3>4, Zenon DEF Described
  <2>11. ASSUME design = "adler32" PROVE Described(v, Oracle(design, v, width))
    <3>1. width = 4 /\ v \in Bytes(width)
      BY <2>2, <2>5, <2>11, AdlerIs DEF ValidCase
    <3>2. Oracle(design, v, width) = Adler(v)
      BY <2>11, AdlerIs, Zenon
    <3>3. Adler(v) = <<(1 + v[1] + v[2] + v[3] + v[4]) % 251,
                       (4 + 4 * v[1] + 3 * v[2] + 2 * v[3] + v[4]) % 251>>
      BY <3>1, AdlerDescribed
    <3>4. Adler(v)[1] = (1 + v[1] + v[2] + v[3] + v[4]) % 251
      BY <3>3
    <3>5. Adler(v)[2] = (4 + 4 * v[1] + 3 * v[2] + 2 * v[3] + v[4]) % 251
      BY <3>3
    <3> QED
      BY <2>11, <3>2, <3>4, <3>5, Zenon DEF Described
  <2>12. ASSUME design = "arbiter_rr" PROVE Described(v, Oracle(design, v, width))
    <3>1. ArbiterOperands(v)
      BY <2>5, <2>12, ArbiterIs DEF ArbiterOperands
    <3>2. Oracle(design, v, width) = RoundRobin(v)
      BY <2>12, ArbiterIs, Zenon
    <3> QED
      BY <2>12, <3>1, <3>2, GrantDescribed, Zenon DEF Described
  <2>13. ASSUME design \in {"popcount32", "mul8", "crc8", "matvec_2x2_int4", "ray_hit_2d"}
         PROVE  Described(v, Oracle(design, v, width))
    <3>1. /\ design # "bitrev16" /\ design # "gcd16" /\ design # "div16" /\ design # "isqrt32"
          /\ design # "xor_cipher16" /\ design # "adler32" /\ design # "arbiter_rr"
      BY <2>13
    <3> QED
      BY <3>1, Zenon DEF Described
  <2>14. Described(v, Oracle(design, v, width))
    BY <2>3, <2>6, <2>7, <2>8, <2>9, <2>10, <2>11, <2>12, <2>13, DesignNames
  <2> QED
    BY <2>4, <2>14
<1> QED
  BY <1>1, InductiveInvariant, PTL

-----------------------------------------------------------------------------
\* What the testbench of Harness sees of a run.
LEMMA PassedNext ==
  \A n \in Nat : 0 .. (n + 1) - 1 = (0 .. n - 1) \cup {n}
OBVIOUS

\* An initial state of References is one of Harness.
LEMMA InitDriven == Init => H!Init
<1> SUFFICES ASSUME Init PROVE H!Init
  OBVIOUS
<1>1. /\ pc = "start" /\ case = 0 /\ cycles = 0 /\ total = 0 /\ out = << >> /\ done = FALSE
  BY DEF Init
<1>2. ~Ended
  BY <1>1 DEF Ended
<1>3. 0 .. 0 - 1 = {} /\ 0 + 0 = 0
  OBVIOUS
<1> QED
  BY <1>1, <1>2, <1>3 DEF H!Init, H!NotRead, H!NoResult, H!NoTotal

\* A step of the testbench with a reference design in it is a step of Harness.
LEMMA ReadVectorsDriven == IInv /\ ReadVectors => H!ReadVectors
<1> SUFFICES ASSUME IInv, ReadVectors PROVE H!ReadVectors
  OBVIOUS
<1>1. /\ pc = "start" /\ pc' = "case" /\ UNCHANGED run
      /\ UNCHANGED <<case, cycles, total, out>> /\ UNCHANGED dut
  BY DEF ReadVectors
<1>2. case = 0 /\ done = FALSE
  BY <1>1 DEF IInv, BenchFits, DesignFits
<1>3. <<Len(vectors), max_cycles_per_case>> \in Headers
  <2>1. PICK r \in Runs : design = r[1] /\ width = r[2] /\ vectors = r[3]
    BY DEF IInv, RunFits
  <2>2. <<Len(r[3]), TASK_REGISTRY[r[1]].max_cycles_per_case>>
          = <<Len(vectors), max_cycles_per_case>>
    BY <2>1, Zenon DEF max_cycles_per_case
  <2> QED
    BY <2>2, Zenon DEF Headers
<1>4. vectors' = vectors /\ max_cycles_per_case' = max_cycles_per_case /\ done' = done
  BY <1>1 DEF run, dut, max_cycles_per_case
<1>5. ~Ended /\ ~Ended'
  BY <1>1 DEF Ended
<1> QED
  BY <1>1, <1>2, <1>3, <1>4, <1>5 DEF H!ReadVectors

\* A case is started as there,
LEMMA StartCaseDriven == IInv /\ StartCase => H!StartCase
<1> SUFFICES ASSUME IInv, StartCase PROVE H!StartCase
  OBVIOUS
<1>1. /\ pc = "case" /\ case < Len(vectors) /\ pc' = "wait" /\ cycles' = 1
      /\ UNCHANGED run /\ UNCHANGED <<case, total, out>>
  BY DEF StartCase
<1>2. IInv'
  BY StartCaseIInv
<1>3. done' \in BOOLEAN /\ total \in Nat
  BY <1>2 DEF IInv, BenchFits, DesignFits
<1>4. vectors' = vectors /\ max_cycles_per_case' = max_cycles_per_case
  BY <1>1 DEF run, max_cycles_per_case
<1>5. ~Ended /\ ~Ended'
  BY <1>1 DEF Ended
<1>6. total + 1 = (total + 0) + 1
  BY <1>3
<1> QED
  BY <1>1, <1>3, <1>4, <1>5, <1>6 DEF H!StartCase, H!file

\* a tick is one of those a design may take,
LEMMA TickDriven == IInv /\ Tick => H!Tick
<1> SUFFICES ASSUME IInv, Tick PROVE H!Tick
  OBVIOUS
<1>1. /\ pc = "wait" /\ ~done /\ cycles < max_cycles_per_case /\ cycles' = cycles + 1
      /\ UNCHANGED run /\ UNCHANGED <<pc, case, total, out>>
  BY DEF Tick
<1>2. IInv'
  BY TickIInv
<1>3. done' \in BOOLEAN /\ total' \in Nat /\ cycles' \in Nat
  BY <1>2, LimitType DEF IInv, BenchFits, DesignFits
<1>4. vectors' = vectors /\ max_cycles_per_case' = max_cycles_per_case
  BY <1>1 DEF run, max_cycles_per_case
<1>5. ~Ended /\ ~Ended'
  BY <1>1 DEF Ended
<1>6. total' + cycles' = (total + cycles) + 1
  <2>1. total \in Nat /\ cycles \in Nat
    BY LimitType DEF IInv, BenchFits
  <2> QED
    BY <1>1, <2>1
<1>7. pc' = "wait" /\ case' = case /\ out' = out /\ done # TRUE
  BY <1>1
<1> QED
  BY <1>1, <1>3, <1>4, <1>5, <1>6, <1>7 DEF H!Tick, H!file

\* a case is passed, which IInv says is the only verdict,
LEMMA JudgeDriven == IInv /\ Judge => H!RightOutput
<1> SUFFICES ASSUME IInv, Judge PROVE H!RightOutput
  OBVIOUS
<1>1. /\ pc = "wait" /\ UNCHANGED run /\ cycles' = cycles
  BY DEF Judge
<1>2. RunFits /\ BenchFits /\ DesignFits
  BY DEF IInv
<1>3. case \in Nat /\ total \in Nat /\ cycles \in Nat /\ max_cycles_per_case \in Nat
  BY <1>1, <1>2, LimitType DEF BenchFits
<1>4. /\ done # TRUE => ~(cycles >= max_cycles_per_case)
      /\ done = TRUE => data_out = Oracle(design, data_in, width)
  <2>1. /\ done # TRUE => cycles < max_cycles_per_case
        /\ done = TRUE => state = "idle" /\ data_out = Oracle(design, data_in, width)
    BY <1>1, NeitherLateNorWrong
  <2>2. cycles < max_cycles_per_case => ~(cycles >= max_cycles_per_case)
    BY <1>3
  <2> QED
    BY <2>1, <2>2, Zenon
<1>5. done \in BOOLEAN
  BY <1>2, Zenon DEF DesignFits
<1>6. /\ pc' = "case" /\ case' = case + 1 /\ total' = total + cycles /\ done' = FALSE
      /\ Prints(<<Line("CASE", cycles)>>)
  BY <1>4, <1>5, Zenon DEF Judge
<1>7. done = TRUE
  BY <1>4, <1>5, Zenon DEF Judge
<1>8. vectors' = vectors /\ max_cycles_per_case' = max_cycles_per_case
  BY <1>1 DEF run, max_cycles_per_case
<1>9. ~Ended /\ ~Ended'
  BY <1>1, <1>6 DEF Ended
<1>10. case' > 0 /\ total' + 0 = total + cycles
  BY <1>3, <1>6
<1>11. 0 .. case' - 1 = (0 .. case - 1) \cup {case}
  BY <1>3, <1>6, PassedNext
<1>12. out' = out \o <<[kind |-> "CASE", n |-> cycles]>>
  BY <1>6 DEF Prints, Line
<1> QED
  BY <1>1, <1>6, <1>7, <1>8, <1>9, <1>10, <1>11, <1>12
     DEF H!RightOutput, H!file, H!Prints, H!Line

\* and the summary is printed.
LEMMA AllCasesPassedDriven == IInv /\ AllCasesPassed => H!AllCasesPassed
<1> SUFFICES ASSUME IInv, AllCasesPassed PROVE H!AllCasesPassed
  OBVIOUS
<1>1. /\ pc = "case" /\ case = Len(vectors) /\ pc' = "ok" /\ UNCHANGED run
      /\ UNCHANGED <<case, cycles, total>> /\ UNCHANGED dut
  BY DEF AllCasesPassed
<1>2. out' = out \o <<[kind |-> "TOTAL_CYCLES", n |-> total], [kind |-> "OK", n |-> 0]>>
  BY DEF AllCasesPassed, Prints, Line
<1>3. vectors' = vectors /\ max_cycles_per_case' = max_cycles_per_case /\ done' = done
  BY <1>1 DEF run, dut, max_cycles_per_case
<1>4. ~Ended /\ Ended'
  BY <1>1 DEF Ended
<1> QED
  BY <1>1, <1>2, <1>3, <1>4 DEF H!AllCasesPassed, H!file, H!Prints, H!Line

\* What changes nothing here changes nothing there.
LEMMA StutterDriven == UNCHANGED vars => UNCHANGED H!vars
<1> SUFFICES ASSUME UNCHANGED vars PROVE UNCHANGED H!vars
  OBVIOUS
<1>1. /\ UNCHANGED run /\ UNCHANGED <<pc, case, cycles, total, out>> /\ UNCHANGED dut
  BY DEF vars
<1>2. /\ vectors' = vectors /\ max_cycles_per_case' = max_cycles_per_case /\ done' = done
      /\ Ended' = Ended
  BY <1>1 DEF run, dut, max_cycles_per_case, Ended
<1> QED
  BY <1>1, <1>2 DEF H!vars, H!file

\* The testbench with a reference design in it is a run of the testbench that
\* Harness models with any design in it: what Harness says of accepted
\* simulations is true of the references.
THEOREM ReferencesDriven == Spec => DrivenByHarness
<1>1. Init => H!Init
  BY InitDriven
<1>2. IInv /\ [Next]_vars => [H!Next]_(H!vars)
  <2> SUFFICES ASSUME IInv, [Next]_vars PROVE [H!Next]_(H!vars)
    OBVIOUS
  <2>1. CASE ReadVectors
    BY <2>1, ReadVectorsDriven DEF H!Next, H!Run
  <2>2. CASE StartCase
    BY <2>2, StartCaseDriven DEF H!Next, H!Run
  <2>3. CASE Tick
    BY <2>3, TickDriven DEF H!Next, H!Run
  <2>4. CASE Judge
    BY <2>4, JudgeDriven DEF H!Next, H!Run
  <2>5. CASE AllCasesPassed
    BY <2>5, AllCasesPassedDriven DEF H!Next, H!Run
  <2>6. CASE UNCHANGED vars
    BY <2>6, StutterDriven
  <2> QED
    BY <2>1, <2>2, <2>3, <2>4, <2>5, <2>6 DEF Next
<1> QED
  BY <1>1, <1>2, InductiveInvariant, PTL DEF Spec, DrivenByHarness, H!Spec

==============================================================================
