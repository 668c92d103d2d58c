\* A design that prints lines of its own, with the prefix or without.
CONSTANTS
  NValidationSeeds = 0
  FormatBonus = FALSE
  Submissions <- MCNone
  StageResults <- MCNone
  SimResults <- MCNone
  VectorSets <- MCVectorSets
  MaxOutputLines = 6
  DesignLines <- MCDesignLines
  MaxDisplays = 1
SPECIFICATION Spec
INVARIANT OnlyHarnessLinesCount
CHECK_DEADLOCK FALSE
