\* One session, its own environment, three seeds per grading, everything the
\* sandbox can return and every kind of submission.
CONSTANTS
  s1 = s1  s2 = s2  e1 = e1  e2 = e2
  Session = {s1}
  Env = {e1}
  EnvOf <- MCOwnEnv
  Task = {"popcount32"}
  DefaultTask = "popcount32"
  UnknownTask = "nosuch"
  Seeds = {4}
  None = None
  Pending = Pending
  NValidationSeeds = 2
  FormatBonus = TRUE
  StageResults <- MCStageResults
  Submissions <- MCSubmissions
  SimResults <- MCSimResults
  MaxEpisodes = 2
  MaxSteps = 2
SPECIFICATION FairSpec
INVARIANTS
  RewardIffCorrect
  CallInv
PROPERTY CallEnds
CHECK_DEADLOCK FALSE
