\* The corner cases of every task, every word of a small width, samples of the
\* packed words.
CONSTANT Runs <- MCRuns
SPECIFICATION Spec
INVARIANTS
  TypeOK
  Correct
  LoopInv
  ChargedAsBaseline
  AsDescribed
PROPERTY DrivenByHarness
CHECK_DEADLOCK FALSE
