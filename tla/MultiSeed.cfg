\* Two validation seeds, as tests/llm_vibe/run.py configures the environment.
CONSTANTS
  NValidationSeeds = 2
  FormatBonus = FALSE
  Submissions <- MCNone
  StageResults <- MCNone
  SimResults <- MCSimResults
  Crash = Crash
SPECIFICATION Spec
INVARIANTS
  TypeOK
  DriversAgree
  OnlyAsyncRaises
  DriverInv
CHECK_DEADLOCK FALSE
