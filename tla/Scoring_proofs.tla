--------------------------- MODULE Scoring_proofs ---------------------------
(***************************************************************************)
(* Theorems about Scoring for any number of seeds, any measures, baseline, *)
(* bonus and scale.                                                        *)
(*                                                                         *)
(* A fraction compares by its cross products, so most steps multiply an    *)
(* inequality of the sums so far and one of the score that is added by the *)
(* denominators of the other.                                              *)
(***************************************************************************)
EXTENDS Scoring, TLAPS

-----------------------------------------------------------------------------
\* Arithmetic.
LEMMA Times ==
  ASSUME NEW a \in Int, NEW b \in Int, NEW k \in Nat \ {0}
  PROVE  /\ a * k \in Int
         /\ a <= b => a * k <= b * k
         /\ a < b => a * k < b * k
OBVIOUS

LEMMA Positive ==
  ASSUME NEW a \in Nat \ {0}, NEW b \in Nat \ {0}
  PROVE  a * b \in Nat \ {0}
OBVIOUS

\* The cross products of two sums are sums of cross products.
LEMMA CrossProducts ==
  ASSUME NEW a \in Int, NEW b \in Int, NEW c \in Int, NEW d \in Int,
         NEW e \in Int, NEW f \in Int, NEW g \in Int, NEW h \in Int
  PROVE  (a * f + e * b) * (d * h) = (a * d) * (f * h) + (e * h) * (b * d)
<1>1. (a * f + e * b) * (d * h) = (a * f) * (d * h) + (e * b) * (d * h)
  OBVIOUS
<1>2. (a * f) * (d * h) = (a * d) * (f * h)
  OBVIOUS
<1>3. (e * b) * (d * h) = (e * h) * (b * d)
  OBVIOUS
<1> QED
  BY <1>1, <1>2, <1>3

LEMMA SumType ==
  ASSUME NEW x \in Fraction, NEW y \in Fraction
  PROVE  x \oplus y \in Fraction
<1>1. x.den * y.den \in Nat \ {0}
  BY Positive DEF Fraction
<1>2. x.num * y.den + y.num * x.den \in Int
  BY DEF Fraction
<1> QED
  BY <1>1, <1>2 DEF \oplus, Frac, Fraction

\* Sums keep the order, and equality, of what is added.
LEMMA SumOrder ==
  ASSUME NEW x \in Fraction, NEW y \in Fraction, NEW u \in Fraction, NEW v \in Fraction
  PROVE  /\ x \preceq y /\ u \preceq v => (x \oplus u) \preceq (y \oplus v)
         /\ x \prec y /\ u \preceq v => (x \oplus u) \prec (y \oplus v)
         /\ x \preceq y /\ u \prec v => (x \oplus u) \prec (y \oplus v)
         /\ x \approx y /\ u \approx v => (x \oplus u) \approx (y \oplus v)
<1> DEFINE xy == x.num * y.den
           yx == y.num * x.den
           uv == u.num * v.den
           vu == v.num * u.den
           ku == u.den * v.den
           kx == x.den * y.den
<1>1. /\ x.num \in Int /\ y.num \in Int /\ u.num \in Int /\ v.num \in Int
      /\ x.den \in Nat \ {0} /\ y.den \in Nat \ {0}
      /\ u.den \in Nat \ {0} /\ v.den \in Nat \ {0}
  BY DEF Fraction
<1>2. xy \in Int /\ yx \in Int /\ uv \in Int /\ vu \in Int
  BY <1>1
<1>3. ku \in Nat \ {0} /\ kx \in Nat \ {0}
  BY <1>1, Positive
<1>4. (x \oplus u).num * (y \oplus v).den = xy * ku + uv * kx
  BY <1>1, CrossProducts DEF \oplus, Frac
<1>5. (y \oplus v).num * (x \oplus u).den = yx * ku + vu * kx
  <2>1. (y \oplus v).num * (x \oplus u).den = yx * (v.den * u.den) + vu * (y.den * x.den)
    BY <1>1, CrossProducts DEF \oplus, Frac
  <2>2. v.den * u.den = ku /\ y.den * x.den = kx
    BY <1>1
  <2> QED
    BY <2>1, <2>2
<1>6. /\ x \preceq y <=> xy <= yx
      /\ x \prec y <=> xy < yx
      /\ x \approx y <=> xy = yx
      /\ u \preceq v <=> uv <= vu
      /\ u \prec v <=> uv < vu
      /\ u \approx v <=> uv = vu
  BY DEF \preceq, \prec, \approx
<1> HIDE DEF xy, yx, uv, vu, ku, kx
<1>7. /\ xy <= yx => xy * ku <= yx * ku
      /\ xy < yx => xy * ku < yx * ku
      /\ uv <= vu => uv * kx <= vu * kx
      /\ uv < vu => uv * kx < vu * kx
      /\ xy * ku \in Int /\ yx * ku \in Int /\ uv * kx \in Int /\ vu * kx \in Int
  BY <1>2, <1>3, Times
<1> QED
  BY <1>2, <1>4, <1>5, <1>6, <1>7 DEF \preceq, \prec, \approx

-----------------------------------------------------------------------------
\* speed_score: with a baseline, the share of it, which neither clamp changes;
\* without one, the floor.
LEMMA ShareOfBaseline ==
  ASSUME NEW c \in Nat, NEW b \in Int, b > 0
  PROVE  /\ SpeedScore(c, b) = Frac(b, b + c)
         /\ b + c \in Nat \ {0}
<1> DEFINE share == Frac(b, b + c)
<1>1. share.num = b /\ share.den = b + c
  BY DEF Frac
<1>2. share \preceq One
  BY <1>1 DEF \preceq, One, Frac
<1>3. Zero \preceq share
  BY <1>1 DEF \preceq, Zero, Frac
<1> HIDE DEF share
<1>4. AtMost(Ceiling, share) = share
  BY <1>2 DEF AtMost, Ceiling
<1>5. AtLeast(Floor, share) = share
  BY <1>3 DEF AtLeast, Floor
<1> QED
  BY <1>4, <1>5 DEF SpeedScore, share

LEMMA ShareParts ==
  ASSUME NEW c \in Nat, NEW b \in Int, b > 0
  PROVE  SpeedScore(c, b).num = b /\ SpeedScore(c, b).den = b + c
<1>1. SpeedScore(c, b) = Frac(b, b + c)
  BY ShareOfBaseline
<1> QED
  BY <1>1 DEF Frac

LEMMA NoBaseline ==
  ASSUME NEW c \in Nat, NEW b \in Int, ~(b > 0)
  PROVE  SpeedScore(c, b) = Zero
BY DEF SpeedScore, Floor

LEMMA ZeroType == Zero \in Fraction /\ Zero.num = 0 /\ Zero.den = 1
BY DEF Zero, Frac, Fraction

\* A seed score is a fraction between 0 and 1.
LEMMA SpeedScoreType ==
  ASSUME NEW c \in Nat, NEW b \in Int
  PROVE  /\ SpeedScore(c, b) \in Fraction
         /\ 0 <= SpeedScore(c, b).num /\ SpeedScore(c, b).num <= SpeedScore(c, b).den
<1>1. CASE b > 0
  <2>1. SpeedScore(c, b) = Frac(b, b + c) /\ b + c \in Nat \ {0}
    BY <1>1, ShareOfBaseline
  <2> QED
    BY <1>1, <2>1 DEF Frac, Fraction
<1>2. CASE ~(b > 0)
  BY <1>2, NoBaseline, ZeroType
<1> QED
  BY <1>1, <1>2

\* Fewer cycles score at least as much, and more if there is a baseline.
LEMMA FewerScoreMore ==
  ASSUME NEW c \in Nat, NEW d \in Nat, NEW b \in Int, c <= d
  PROVE  /\ SpeedScore(d, b) \preceq SpeedScore(c, b)
         /\ b > 0 /\ c < d => SpeedScore(d, b) \prec SpeedScore(c, b)
<1>1. CASE b > 0
  <2>1. /\ SpeedScore(c, b).num = b /\ SpeedScore(c, b).den = b + c
        /\ SpeedScore(d, b).num = b /\ SpeedScore(d, b).den = b + d
    BY <1>1, ShareParts
  <2>2. (b + c) * b <= (b + d) * b /\ (c < d => (b + c) * b < (b + d) * b)
    BY <1>1, Times
  <2>3. (b + c) * b = b * (b + c) /\ (b + d) * b = b * (b + d)
    OBVIOUS
  <2> QED
    BY <2>1, <2>2, <2>3 DEF \preceq, \prec
<1>2. CASE ~(b > 0)
  BY <1>2, NoBaseline, ZeroType DEF \preceq
<1> QED
  BY <1>1, <1>2

\* The score sees the ratio of measure and baseline only.
LEMMA ScaledScore ==
  ASSUME NEW c \in Nat, NEW b \in Int, NEW k \in Nat \ {0}
  PROVE  SpeedScore(k * c, k * b) \approx SpeedScore(c, b)
<1>0. k * c \in Nat /\ k * b \in Int
  OBVIOUS
<1>1. CASE b > 0
  <2>1. k * b > 0
    BY <1>1
  <2>2. /\ SpeedScore(c, b).num = b /\ SpeedScore(c, b).den = b + c
        /\ SpeedScore(k * c, k * b).num = k * b
        /\ SpeedScore(k * c, k * b).den = k * b + k * c
    BY <1>0, <1>1, <2>1, ShareParts
  <2>3. (k * b) * (b + c) = b * (k * b + k * c)
    OBVIOUS
  <2> QED
    BY <2>2, <2>3 DEF \approx
<1>2. CASE ~(b > 0)
  <2>1. ~(k * b > 0)
    BY <1>2
  <2> QED
    BY <1>0, <1>2, <2>1, NoBaseline, ZeroType DEF \approx
<1> QED
  BY <1>1, <1>2

-----------------------------------------------------------------------------
\* A sum over n seeds is at most n.
UpTo(sum, n) == 0 <= sum.num /\ sum.num <= n * sum.den

IInv ==
  /\ TypeOK
  /\ UpTo(mine, graded)
  /\ scaled \approx mine
  /\ order = "same" => mine = other
  /\ order = "faster" => other \preceq mine /\ (Baseline > 0 => other \prec mine)

LEMMA OneMoreTime ==
  ASSUME NEW a \in Int, NEW b \in Int, NEW n \in Int
  PROVE  (n + 1) * (a * b) = (n * a) * b + b * a
<1>1. (n + 1) * (a * b) = n * (a * b) + a * b
  OBVIOUS
<1>2. n * (a * b) = (n * a) * b /\ a * b = b * a
  OBVIOUS
<1> QED
  BY <1>1, <1>2

LEMMA UpToOneMore ==
  ASSUME NEW x \in Fraction, NEW n \in Nat, UpTo(x, n),
         NEW y \in Fraction, 0 <= y.num, y.num <= y.den
  PROVE  UpTo(x \oplus y, n + 1)
<1>1. x.num \in Int /\ y.num \in Int /\ x.den \in Nat \ {0} /\ y.den \in Nat \ {0}
  BY DEF Fraction
<1>2. n * x.den \in Int /\ x.num <= n * x.den /\ 0 <= x.num
  BY <1>1 DEF UpTo
<1>3. 0 * y.den <= x.num * y.den /\ x.num * y.den <= (n * x.den) * y.den
  BY <1>1, <1>2, Times
<1>4. 0 * x.den <= y.num * x.den /\ y.num * x.den <= y.den * x.den
  BY <1>1, Times
<1>5. (n + 1) * (x.den * y.den) = (n * x.den) * y.den + y.den * x.den
  <2>1. x.den \in Int /\ y.den \in Int /\ n \in Int
    BY <1>1
  <2> QED
    BY <2>1, OneMoreTime, ZenonT(20)
<1>6. (x \oplus y).num = x.num * y.den + y.num * x.den /\ (x \oplus y).den = x.den * y.den
  BY DEF \oplus, Frac
<1>7. /\ x.num * y.den \in Int /\ y.num * x.den \in Int
      /\ (n * x.den) * y.den \in Int /\ y.den * x.den \in Int
  BY <1>1
<1> QED
  BY <1>1, <1>3, <1>4, <1>5, <1>6, <1>7 DEF UpTo

LEMMA GradeSeedStep ==
  ASSUME IInv, NEW c \in Measures, NEW d \in Measures, GradeSeed(c, d)
  PROVE  IInv'
<1> DEFINE mc == SpeedScore(c, Baseline)
           od == SpeedScore(d, Baseline)
           sc == SpeedScore(Scale * c, Scale * Baseline)
<1>1. /\ c \in Nat /\ d \in Nat /\ Baseline \in Int
      /\ Scale \in Nat \ {0} /\ Scale * c \in Nat /\ Scale * Baseline \in Int
  BY ScoringAssumption
<1>2. /\ mc \in Fraction /\ od \in Fraction /\ sc \in Fraction
      /\ 0 <= mc.num /\ mc.num <= mc.den
  BY <1>1, SpeedScoreType
<1>3. sc \approx mc
  BY <1>1, ScaledScore
<1>4. /\ c <= d => od \preceq mc
      /\ c < d /\ Baseline > 0 => od \prec mc
      /\ c = d => od = mc
  BY <1>1, FewerScoreMore
<1>5. /\ mine' = mine \oplus mc /\ other' = other \oplus od /\ scaled' = scaled \oplus sc
      /\ graded' = graded + 1 /\ graded < NSeeds /\ order' = Compare(c, d)
  BY DEF GradeSeed
<1>6. /\ mine \in Fraction /\ other \in Fraction /\ scaled \in Fraction
      /\ graded \in Nat /\ order \in {"same", "faster", "mixed"} /\ NSeeds \in Nat
      /\ UpTo(mine, graded) /\ scaled \approx mine
      /\ graded \in 0 .. NSeeds
  BY ScoringAssumption DEF IInv, TypeOK
<1> HIDE DEF mc, od, sc
<1>7. TypeOK'
  <2>1. mine' \in Fraction /\ other' \in Fraction /\ scaled' \in Fraction
    BY <1>2, <1>5, <1>6, SumType
  <2>2. graded' \in 0 .. NSeeds
    BY <1>5, <1>6
  <2>3. order' \in {"same", "faster", "mixed"}
    BY <1>5, <1>6 DEF Compare
  <2> QED
    BY <2>1, <2>2, <2>3 DEF TypeOK
<1>8. UpTo(mine', graded')
  BY <1>2, <1>5, <1>6, UpToOneMore
<1>9. scaled' \approx mine'
  BY <1>2, <1>3, <1>5, <1>6, SumOrder
<1>10. order' = "same" => mine' = other'
  BY <1>4, <1>5, <1>6 DEF Compare, IInv
<1>11. ASSUME order' = "faster"
       PROVE  other' \preceq mine' /\ (Baseline > 0 => other' \prec mine')
  <2>1. CASE order = "same"
    <3>1. c < d /\ mine = other
      BY <1>5, <1>11, <2>1, <1>1 DEF Compare, IInv
    <3>2. other \preceq mine
      BY <1>6, <3>1 DEF \preceq, Fraction
    <3> QED
      BY <1>1, <1>2, <1>4, <1>5, <1>6, <3>1, <3>2, SumOrder
  <2>2. CASE order = "faster"
    <3>1. c <= d
      BY <1>5, <1>11, <2>2 DEF Compare
    <3>2. other \preceq mine /\ (Baseline > 0 => other \prec mine)
      BY <2>2 DEF IInv
    <3> QED
      BY <1>1, <1>2, <1>4, <1>5, <1>6, <3>1, <3>2, SumOrder
  <2>3. CASE order = "mixed"
    BY <1>5, <1>11, <2>3 DEF Compare
  <2> QED
    BY <1>6, <2>1, <2>2, <2>3
<1> QED
  BY <1>7, <1>8, <1>9, <1>10, <1>11 DEF IInv

-----------------------------------------------------------------------------
\* The sums of the seed scores, and how they compare.
THEOREM Invariant == Spec => []IInv
<1>1. Init => IInv
  <2> SUFFICES ASSUME Init PROVE IInv
    OBVIOUS
  <2>1. TypeOK
    BY ZeroType, ScoringAssumption DEF Init, TypeOK
  <2>2. UpTo(mine, graded) /\ scaled \approx mine
    BY ZeroType DEF Init, UpTo, \approx
  <2> QED
    BY <2>1, <2>2 DEF Init, IInv
<1>2. IInv /\ [Next]_vars => IInv'
  <2> SUFFICES ASSUME IInv, [Next]_vars PROVE IInv'
    OBVIOUS
  <2>1. CASE Next
    BY <2>1, GradeSeedStep DEF Next
  <2>2. CASE UNCHANGED vars
    BY <2>2 DEF vars, IInv, TypeOK
  <2> QED
    BY <2>1, <2>2
<1> QED
  BY <1>1, <1>2, PTL DEF Spec

\* The sums are fractions.
THEOREM TypeCorrect == Spec => []TypeOK
<1>1. IInv => TypeOK
  BY DEF IInv
<1> QED
  BY <1>1, Invariant, PTL

\* The clamp of step never changes a score, with the bonus or without.
THEOREM ClampIsAlwaysIdle == Spec => []ClampIsIdle
<1>1. IInv => ClampIsIdle
  <2> SUFFICES ASSUME IInv, Graded PROVE \A s \in {Mean(mine), WithBonus(Mean(mine))} :
                                           InRange(s) /\ Reported(s) = s
    BY DEF ClampIsIdle
  <2> DEFINE m == Mean(mine)
  <2>1. /\ mine.num \in Int /\ mine.den \in Nat \ {0} /\ NSeeds \in Nat \ {0}
        /\ 0 <= mine.num /\ mine.num <= NSeeds * mine.den
    BY ScoringAssumption DEF IInv, TypeOK, Fraction, UpTo, Graded
  <2>2. m.num = mine.num /\ m.den = mine.den * NSeeds /\ m.den \in Nat \ {0}
    BY <2>1, Positive DEF Mean, Frac
  <2>3. m \in Fraction
    BY <2>1, <2>2 DEF Mean, Frac, Fraction
  <2>4. NSeeds * mine.den = mine.den * NSeeds
    BY <2>1
  <2>5. InRange(m)
    BY <2>1, <2>2, <2>4 DEF InRange, \preceq, Zero, One, Frac
  <2> HIDE DEF m
  <2>6. InRange(WithBonus(m))
    <3> DEFINE b == m \oplus Bonus
    <3>1. Bonus.num \in Nat /\ Bonus.den \in Nat \ {0} /\ m.num \in Nat
      BY ScoringAssumption, <2>1, <2>2 DEF Fraction
    <3>2. b.num = m.num * Bonus.den + Bonus.num * m.den /\ b.den = m.den * Bonus.den
      BY DEF \oplus, Frac
    <3>3. b.num \in Nat /\ b.den \in Nat \ {0}
      BY <2>2, <3>1, <3>2, Positive
    <3> HIDE DEF b
    <3>4. Zero \preceq b
      BY <3>3 DEF \preceq, Zero, Frac
    <3>5. Zero \preceq One /\ One \preceq One
      BY DEF \preceq, Zero, One, Frac
    <3>6. WithBonus(m) = AtMost(One, b)
      BY DEF WithBonus, b
    <3> QED
      BY <3>4, <3>5, <3>6 DEF InRange, AtMost
  <2>7. ASSUME NEW s, InRange(s) PROVE Reported(s) = s
    BY <2>7 DEF InRange, Reported, AtMost, AtLeast
  <2> QED
    BY <2>5, <2>6, <2>7 DEF m
<1> QED
  BY <1>1, Invariant, PTL

\* The mean does not depend on the scale of the task.
THEOREM AlwaysScaleInvariant == Spec => []ScaleInvariant
<1>1. IInv => ScaleInvariant
  <2> SUFFICES ASSUME IInv PROVE Mean(scaled) \approx Mean(mine)
    BY DEF ScaleInvariant
  <2>1. /\ mine.num \in Int /\ mine.den \in Int /\ scaled.num \in Int /\ scaled.den \in Int
        /\ NSeeds \in Int
    BY ScoringAssumption DEF IInv, TypeOK, Fraction
  <2>2. scaled.num * mine.den = mine.num * scaled.den
    BY DEF IInv, \approx
  <2>3. /\ scaled.num * (mine.den * NSeeds) = (scaled.num * mine.den) * NSeeds
        /\ mine.num * (scaled.den * NSeeds) = (mine.num * scaled.den) * NSeeds
    BY <2>1
  <2>4. /\ Mean(scaled).num = scaled.num /\ Mean(scaled).den = scaled.den * NSeeds
        /\ Mean(mine).num = mine.num /\ Mean(mine).den = mine.den * NSeeds
    BY DEF Mean, Frac
  <2> QED
    BY <2>2, <2>3, <2>4 DEF \approx
<1> QED
  BY <1>1, Invariant, PTL

\* The cap at One keeps the order.
LEMMA CapOrder ==
  ASSUME NEW x \in Fraction, NEW y \in Fraction, x \preceq y
  PROVE  AtMost(One, x) \preceq AtMost(One, y)
<1>1. /\ x.num \in Int /\ y.num \in Int /\ x.den \in Nat \ {0} /\ y.den \in Nat \ {0}
  BY DEF Fraction
<1>2. /\ x \preceq One <=> x.num <= x.den
      /\ y \preceq One <=> y.num <= y.den
      /\ One \preceq One
  BY <1>1 DEF \preceq, One, Frac
<1>3. CASE x \preceq One
  BY <1>2, <1>3 DEF AtMost
<1>4. CASE ~(x \preceq One)
  <2>1. x.den * y.den < x.num * y.den
    BY <1>1, <1>2, <1>4, Times
  <2>2. x.num * y.den <= y.num * x.den
    BY DEF \preceq
  <2>3. y.num <= y.den => y.num * x.den <= y.den * x.den
    BY <1>1, Times
  <2>4. /\ x.num * y.den \in Int /\ y.num * x.den \in Int
        /\ x.den * y.den \in Int /\ y.den * x.den = x.den * y.den
    BY <1>1
  <2>5. ~(y \preceq One)
    BY <1>1, <1>2, <2>1, <2>2, <2>3, <2>4
  <2> QED
    BY <1>2, <1>4, <2>5 DEF AtMost
<1> QED
  BY <1>3, <1>4

\* A submission at least as fast on every seed and faster on one scores higher,
\* and the bonus never turns that around, on every task that has a baseline.
THEOREM FasterAlwaysScoresHigher ==
  ASSUME Baseline > 0
  PROVE  Spec => []FasterScoresHigher
<1>1. IInv => FasterScoresHigher
  <2> SUFFICES ASSUME IInv, order = "faster"
               PROVE  /\ Mean(other) \prec Mean(mine)
                      /\ WithBonus(Mean(other)) \preceq WithBonus(Mean(mine))
    BY DEF FasterScoresHigher
  <2>1. /\ mine.num \in Int /\ mine.den \in Nat \ {0}
        /\ other.num \in Int /\ other.den \in Nat \ {0} /\ NSeeds \in Nat \ {0}
    BY ScoringAssumption DEF IInv, TypeOK, Fraction
  <2>2. other.num * mine.den < mine.num * other.den
    BY DEF IInv, \prec
  <2>3. other.num * mine.den \in Int /\ mine.num * other.den \in Int
    BY <2>1
  <2>4. (other.num * mine.den) * NSeeds < (mine.num * other.den) * NSeeds
    BY <2>1, <2>2, <2>3, Times
  <2>5. /\ other.num * (mine.den * NSeeds) = (other.num * mine.den) * NSeeds
        /\ mine.num * (other.den * NSeeds) = (mine.num * other.den) * NSeeds
    BY <2>1
  <2>6. /\ Mean(other).num = other.num /\ Mean(other).den = other.den * NSeeds
        /\ Mean(mine).num = mine.num /\ Mean(mine).den = mine.den * NSeeds
    BY DEF Mean, Frac
  <2>7. Mean(other) \prec Mean(mine)
    BY <2>4, <2>5, <2>6 DEF \prec
  <2>8. Mean(other) \in Fraction /\ Mean(mine) \in Fraction
    BY <2>1, Positive DEF Mean, Frac, Fraction
  <2>9. Mean(other) \preceq Mean(mine)
    <3>1. /\ Mean(other).num * Mean(mine).den \in Int
          /\ Mean(mine).num * Mean(other).den \in Int
      BY <2>8 DEF Fraction
    <3> QED
      BY <2>7, <3>1 DEF \preceq, \prec
  <2>10. Bonus \preceq Bonus /\ Bonus \in Fraction
    BY ScoringAssumption DEF \preceq, Fraction
  <2>11. (Mean(other) \oplus Bonus) \preceq (Mean(mine) \oplus Bonus)
    BY <2>8, <2>9, <2>10, SumOrder
  <2>12. WithBonus(Mean(other)) \preceq WithBonus(Mean(mine))
    BY <2>8, <2>10, <2>11, SumType, CapOrder DEF WithBonus
  <2> QED
    BY <2>7, <2>12
<1> QED
  BY <1>1, Invariant, PTL
=============================================================================
