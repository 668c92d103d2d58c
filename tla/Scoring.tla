------------------------------- MODULE Scoring -------------------------------
(***************************************************************************)
(* The number a grading is: speed_score of the cycles of each seed, their  *)
(* mean, the format bonus, the clamp of step.  Scores are exact fractions  *)
(* here; the code computes them in floating point.                         *)
(*                                                                         *)
(* What is promised of the score compares gradings, so three submissions   *)
(* are graded side by side, seed by seed: mine and other on the same task, *)
(* and mine again on a task whose cycles and baseline are Scale times as   *)
(* many.                                                                   *)
(***************************************************************************)
EXTENDS Integers

CONSTANTS
  Baseline,  \* baseline_cycles of the task
  Measures,  \* total_cycles a simulation may report
  NSeeds,    \* seeds of an episode
  Bonus,     \* format_bonus
  Scale

\* A fraction; den is positive.
Frac(num, den) == [num |-> num, den |-> den]
Fraction == [num : Int, den : Nat \ {0}]

ASSUME ScoringAssumption ==
  /\ Baseline \in Int
  /\ Measures \subseteq Nat
  /\ NSeeds \in Nat \ {0} /\ Scale \in Nat \ {0}
  /\ Bonus \in Fraction /\ Bonus.num >= 0

a \preceq b == a.num * b.den <= b.num * a.den
a \prec b   == a.num * b.den < b.num * a.den
a \approx b == a.num * b.den = b.num * a.den
a \oplus b  == Frac(a.num * b.den + b.num * a.den, a.den * b.den)

Zero == Frac(0, 1)
One  == Frac(1, 1)

AtMost(bound, a)  == IF a \preceq bound THEN a ELSE bound
AtLeast(bound, a) == IF bound \preceq a THEN a ELSE bound

\* The ScoringConfig the environment uses: floor 0.0, ceiling 1.0.
Floor   == Zero
Ceiling == One

\* Faulty variants: the speedup; the other share; smoothed against a zero.
Speedup(current, baseline)       == Frac(baseline, current)
OtherShare(current, baseline)    == Frac(current, baseline + current)
SmoothedScore(current, baseline) == Frac(baseline, baseline + current + 1)

SpeedScore(current, baseline) ==
  IF current < 0 \/ baseline <= 0
  THEN Floor
  ELSE AtLeast(Floor, AtMost(Ceiling, Frac(baseline, baseline + current)))

Mean(sum) == Frac(sum.num, sum.den * NSeeds)

\* Faulty variant: no cap.
WithBonusUncapped(score) == score \oplus Bonus

WithBonus(score) == AtMost(One, score \oplus Bonus)

Reported(score) == AtLeast(Zero, AtMost(One, score))

-----------------------------------------------------------------------------
VARIABLES
  graded,        \* seeds graded
  mine, other,   \* the sums of seed_scores of the two submissions
  scaled,        \* the same for mine on the scaled task
  order          \* how mine compares with other on the seeds so far

vars == <<graded, mine, other, scaled, order>>

Init ==
  /\ graded = 0
  /\ mine = Zero /\ other = Zero /\ scaled = Zero
  /\ order = "same"

Compare(c, d) ==
  CASE order = "same"   -> IF c = d THEN "same" ELSE IF c < d THEN "faster" ELSE "mixed"
    [] order = "faster" -> IF c <= d THEN "faster" ELSE "mixed"
    [] order = "mixed"  -> "mixed"

GradeSeed(c, d) ==
  /\ graded < NSeeds
  /\ graded' = graded + 1
  /\ mine' = mine \oplus SpeedScore(c, Baseline)
  /\ other' = other \oplus SpeedScore(d, Baseline)
  /\ scaled' = scaled \oplus SpeedScore(Scale * c, Scale * Baseline)
  /\ order' = Compare(c, d)

Next == \E c, d \in Measures : GradeSeed(c, d)

Spec == Init /\ [][Next]_vars

-----------------------------------------------------------------------------
TypeOK ==
  /\ graded \in 0 .. NSeeds
  /\ mine \in Fraction /\ other \in Fraction /\ scaled \in Fraction
  /\ order \in {"same", "faster", "mixed"}

Graded == graded = NSeeds

(***************************************************************************)
(* A mean of seed scores lies between 0 and 1, and so does what the bonus  *)
(* makes of it: the clamp in step never changes a score it is given        *)
(* (base_env.py, "if the env miscalculated").                              *)
(***************************************************************************)
InRange(score) == Zero \preceq score /\ score \preceq One

ClampIsIdle ==
  Graded => \A s \in {Mean(mine), WithBonus(Mean(mine))} : InRange(s) /\ Reported(s) = s

(***************************************************************************)
(* "lower is better": a submission that is at least as fast on every seed, *)
(* and faster on one, scores higher, and the bonus, granted to both, never *)
(* turns that around.                                                      *)
(***************************************************************************)
FasterScoresHigher ==
  (Graded /\ order = "faster") =>
    /\ Mean(other) \prec Mean(mine)
    /\ WithBonus(Mean(other)) \preceq WithBonus(Mean(mine))

(***************************************************************************)
(* "only the ratio measured/baseline matters, not the absolute cycle       *)
(* count" (README, Key properties), for the mean over the seeds too.       *)
(***************************************************************************)
ScaleInvariant == Graded => Mean(scaled) \approx Mean(mine)
=============================================================================
