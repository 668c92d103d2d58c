-------------------------------- MODULE Tasks --------------------------------
(***************************************************************************)
(* The tasks of tasks.py that have a reference design: what a task sets    *)
(* (width, number of vectors, baseline, limit) and its oracle.             *)
(*                                                                         *)
(* A word whose bits matter is the sequence of them, least significant     *)
(* first; operands packed into one word are the tuple of them.  Operands   *)
(* are unsigned as in the word, and the oracles extend their sign.  Every  *)
(* oracle is written for words of any width w.                             *)
(***************************************************************************)
EXTENDS Integers, SequencesExt, FiniteSetsExt

Bit == {0, 1}
Bits(w) == [1 .. w -> Bit]
Zeros(w) == [i \in 1 .. w |-> 0]

Ones(w) == [i \in 1 .. w |-> 1]
Word(n, w) == [i \in 1 .. w |-> (n \div 2 ^ (i - 1)) % 2]
Alternating(first, w) == [i \in 1 .. w |-> (first + i - 1) % 2]
OneAt(pos, w) == [Zeros(w) EXCEPT ![pos] = 1]

\* >> 1 and ^ on words, and what `width` bits of two's complement stand for.
ShiftedRight(x) == Tail(x) \o <<0>>
Xor(a, b) == [i \in DOMAIN a |-> (a[i] + b[i]) % 2]
SignExtended(x, width) == IF 2 * x >= 2 ^ width THEN x - 2 ^ width ELSE x

-----------------------------------------------------------------------------
(***************************************************************************)
(* width is the number of iterations a bit-serial design needs (for        *)
(* adler32: bytes).  The vector set of a seed is the corner cases of the   *)
(* task followed by `random` words drawn from RandomWords.                 *)
(***************************************************************************)
POPCOUNT32 == [width |-> 32, random |-> 26, baseline_cycles |-> 1056, max_cycles_per_case |-> 128]
BITREV16 == [width |-> 16, random |-> 24, baseline_cycles |-> 510, max_cycles_per_case |-> 64]
GCD16 == [width |-> 16, random |-> 20, baseline_cycles |-> 500, max_cycles_per_case |-> 4096]
MUL8 == [width |-> 8, random |-> 24, baseline_cycles |-> 288, max_cycles_per_case |-> 64]
DIV16 == [width |-> 16, random |-> 20, baseline_cycles |-> 450, max_cycles_per_case |-> 128]
ISQRT32 == [width |-> 16, random |-> 24, baseline_cycles |-> 576, max_cycles_per_case |-> 128]
CRC8 == [width |-> 16, random |-> 24, baseline_cycles |-> 540, max_cycles_per_case |-> 96]
XOR_CIPHER16 == [width |-> 16, random |-> 24, baseline_cycles |-> 31, max_cycles_per_case |-> 32]
ADLER32 == [width |-> 4, random |-> 24, baseline_cycles |-> 174, max_cycles_per_case |-> 96]
MATVEC_2X2_INT4 == [width |-> 4, random |-> 28, baseline_cycles |-> 168, max_cycles_per_case |-> 64]
RAY_HIT_2D == [width |-> 8, random |-> 32, baseline_cycles |-> 192, max_cycles_per_case |-> 96]
ARBITER_RR == [width |-> 8, random |-> 26, baseline_cycles |-> 105, max_cycles_per_case |-> 32]

TASK_REGISTRY ==
  [popcount32 |-> POPCOUNT32, bitrev16 |-> BITREV16, gcd16 |-> GCD16, mul8 |-> MUL8,
   div16 |-> DIV16, isqrt32 |-> ISQRT32, crc8 |-> CRC8, xor_cipher16 |-> XOR_CIPHER16,
   adler32 |-> ADLER32, matvec_2x2_int4 |-> MATVEC_2X2_INT4, ray_hit_2d |-> RAY_HIT_2D,
   arbiter_rr |-> ARBITER_RR]

(***************************************************************************)
(* The corner cases.  All ones and the top bit follow the width; the other *)
(* numbers are words of the width of the task.                             *)
(***************************************************************************)
Popcount32Corners(w) ==
  <<Zeros(w), Ones(w), Alternating(1, w), Alternating(0, w), OneAt(1, w), OneAt(w, w)>>
Bitrev16Corners(w) ==
  <<Zeros(w), Ones(w), Alternating(0, w), Alternating(1, w), OneAt(1, w), OneAt(w, w)>>
GcdCorners(w) == <<<<12, 18>>, <<1, 1>>, <<1000, 7>>, <<2 ^ w - 1, 1>>>>
Mul8Corners(w) ==
  LET m == 2 ^ w - 1 IN
  <<<<0, 0>>, <<m, m>>, <<0, 1>>, <<m, 0>>, <<0, m>>, <<1, 1>>, <<m, m - 1>>, <<170, 170>>>>
Div16Corners(w) == <<<<100, 7>>, <<2 ^ w - 1, 1>>, <<1, 1>>, <<1000, 999>>, <<43981, 4660>>>>
Isqrt32Corners(w) == <<0, 1, 4, 100, 10000, 65535, 2 ^ (2 * w) - 1, 2 ^ (2 * w - 1)>>
Crc8Corners(w) ==
  <<Zeros(w), Ones(w), Word(4660, w), Word(43981, w), OneAt(1, w), OneAt(w, w)>>
XorCipher16Corners(w) ==
  <<Zeros(w), Ones(w), Word(42330, w), OneAt(1, w), Word(4660, w), Word(57005, w),
    Word(48879, w)>>
AdlerCorners ==
  <<<<0, 0, 0, 0>>, <<255, 255, 255, 255>>, <<120, 86, 52, 18>>, <<239, 190, 173, 222>>,
    <<1, 1, 1, 1>>>>
RoundRobinCorners ==
  <<<<0, {}>>, <<0, 0 .. 7>>, <<0, {0}>>, <<0, {7}>>, <<3, 0 .. 3>>, <<7, 0 .. 7>>>>

CornerWords(task, w) ==
  CASE task = "popcount32"   -> Popcount32Corners(w)
    [] task = "bitrev16"     -> Bitrev16Corners(w)
    [] task = "gcd16"        -> GcdCorners(w)
    [] task = "mul8"         -> Mul8Corners(w)
    [] task = "div16"        -> Div16Corners(w)
    [] task = "isqrt32"      -> Isqrt32Corners(w)
    [] task = "crc8"         -> Crc8Corners(w)
    [] task = "xor_cipher16" -> XorCipher16Corners(w)
    [] task = "adler32"      -> AdlerCorners
    [] task = "arbiter_rr"   -> RoundRobinCorners
    [] OTHER -> << >>

\* The length of the vector set of a seed; w is only there for CornerWords.
Cases(task, w) == Len(CornerWords(task, w)) + TASK_REGISTRY[task].random

\* What the generators draw from, for words of width w.
RandomWords(task, w) ==
  CASE task \in {"popcount32", "bitrev16", "crc8", "xor_cipher16"} -> Bits(w)
    [] task = "gcd16"   -> (1 .. 2 ^ w - 1) \X (1 .. 2 ^ w - 1)
    [] task = "mul8"    -> (0 .. 2 ^ w - 1) \X (0 .. 2 ^ w - 1)
    [] task = "div16"   -> (0 .. 2 ^ w - 1) \X (1 .. 2 ^ w - 1)
    [] task = "isqrt32" -> 0 .. 2 ^ (2 * w) - 1
    [] task = "adler32" -> [1 .. w -> 0 .. 255]
    [] task = "matvec_2x2_int4" -> [1 .. 6 -> 0 .. 15]
    [] task = "ray_hit_2d" -> (0 .. 255) \X (0 .. 255) \X (0 .. 15) \X (0 .. 15)
    [] task = "arbiter_rr" -> (0 .. 7) \X SUBSET (0 .. 7)

-----------------------------------------------------------------------------
Popcount(x) == Cardinality({i \in DOMAIN x : x[i] = 1})

Bitrev(x) == FoldLeft(LAMBDA out, bit : <<bit>> \o out, << >>, x)

\* The while loop of _gcd.
Euclid[p \in Nat \X Nat] ==
  LET x == p[1]
      y == p[2]
  IN  IF y = 0 THEN x ELSE Euclid[<<y, x % y>>]
Gcd(x, y) == Euclid[<<x, y>>]

Mul(x, y, w) == (x * y) % 2 ^ (2 * w)

Div(x, y) == <<x \div y, x % y>>

\* The while loop of _isqrt32: the root of x is in lo .. hi.
IsqrtIn(x, lower, upper) ==
  LET Search[p \in Nat \X Nat] ==
        LET lo  == p[1]
            hi  == p[2]
            mid == (lo + hi + 1) \div 2
        IN  IF lo >= hi THEN lo
            ELSE IF mid * mid <= x THEN Search[<<mid, hi>>] ELSE Search[<<lo, mid - 1>>]
  IN  Search[<<lower, upper>>]
Isqrt(x, w) == IF x < 2 THEN x ELSE IsqrtIn(x, 0, 2 ^ w) % 2 ^ w

CrcInit == Zeros(8)
CrcPoly == <<0, 0, 1, 1, 0, 0, 0, 1>>   \* 0x8C
CrcBit(crc, bit) ==
  IF crc[1] # bit THEN Xor(ShiftedRight(crc), CrcPoly) ELSE ShiftedRight(crc)
Crc8(x) == FoldLeft(CrcBit, CrcInit, x)

CipherKey == <<0, 1, 0, 1, 1, 0, 1, 0, 1, 0, 1, 0, 0, 1, 0, 1>>   \* 0xA55A
XorCipher(x) == Xor(x, CipherKey)

\* <<s1, s2>> after one more byte.
MOD == 251
AdlerByte(s, byte) ==
  LET s1 == (s[1] + byte) % MOD IN <<s1, (s[2] + s1) % MOD>>
Adler(bytes) == FoldLeft(AdlerByte, <<1, 0>>, bytes)

\* x = <<M00, M01, M10, M11, v0, v1>>
Matvec(x) ==
  LET s == [i \in DOMAIN x |-> SignExtended(x[i], 4)] IN
  <<(s[1] * s[5] + s[2] * s[6]) % 256, (s[3] * s[5] + s[4] * s[6]) % 256>>

\* x = <<ox, oy, dx, dy>>; the circle around the origin has radius 32.
RayHit(x) ==
  LET ox == SignExtended(x[1], 8)
      oy == SignExtended(x[2], 8)
      dx == SignExtended(x[3], 4)
      dy == SignExtended(x[4], 4)
      dd == dx * dx + dy * dy
      od == ox * dx + oy * dy
      oo == ox * ox + oy * oy
  IN  IF dd # 0 /\ od * od - dd * (oo - 32 * 32) >= 0 /\ od < 0 THEN 1 ELSE 0

\* Faulty variant: the search begins with last itself.
RoundRobinFromLast(x) ==
  LET wanted == {k \in 0 .. 7 : (x[1] + k) % 8 \in x[2]} IN
  IF wanted = {} THEN 8 ELSE (x[1] + Min(wanted)) % 8

\* x = <<last, the indices requested>>
RoundRobin(x) ==
  LET wanted == {k \in 1 .. 8 : (x[1] + k) % 8 \in x[2]} IN
  IF wanted = {} THEN 8 ELSE (x[1] + Min(wanted)) % 8

Oracle(task, x, w) ==
  CASE task = "popcount32"      -> Popcount(x)
    [] task = "bitrev16"        -> Bitrev(x)
    [] task = "gcd16"           -> Gcd(x[1], x[2])
    [] task = "mul8"            -> Mul(x[1], x[2], w)
    [] task = "div16"           -> Div(x[1], x[2])
    [] task = "isqrt32"         -> Isqrt(x, w)
    [] task = "crc8"            -> Crc8(x)
    [] task = "xor_cipher16"    -> XorCipher(x)
    [] task = "adler32"         -> Adler(x)
    [] task = "matvec_2x2_int4" -> Matvec(x)
    [] task = "ray_hit_2d"      -> RayHit(x)
    [] task = "arbiter_rr"      -> RoundRobin(x)
=============================================================================
