\* Two seeds; measures on both sides of the baseline, up to twice it.
CONSTANTS
  Baseline = 4
  Measures <- MCMeasures
  NSeeds = 2
  Bonus <- MCBonus
  Scale = 3
SPECIFICATION Spec
INVARIANTS
  TypeOK
  ClampIsIdle
  FasterScoresHigher
  ScaleInvariant
CHECK_DEADLOCK FALSE
