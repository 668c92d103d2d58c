\* The lines of a run that passes fit into what the sandbox keeps, unless the
\* design prints two of its own.
CONSTANTS
  NValidationSeeds = 0
  FormatBonus = FALSE
  Submissions <- MCNone
  StageResults <- MCNone
  SimResults <- MCNone
  VectorSets <- MCVectorSets
  MaxOutputLines = 6
  DesignLines <- MCDesignLines
  MaxDisplays = 2
SPECIFICATION FairSpec
INVARIANTS
  TypeOK
  AcceptedIsEarned
  FailureIsFinal
  MeasureInRange
  EarnedIsAccepted
PROPERTY Ends
CHECK_DEADLOCK FALSE
