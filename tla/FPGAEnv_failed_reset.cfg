\* One session, its own environment.
CONSTANTS
  s1 = s1  s2 = s2  e1 = e1  e2 = e2
  Session = {s1}
  Env = {e1}
  EnvOf <- MCOwnEnv
  Task = {"popcount32", "gcd16"}
  DefaultTask = "popcount32"
  UnknownTask = "nosuch"
  Seeds = {4}
  None = None
  Pending = Pending
  NValidationSeeds = 0
  FormatBonus = TRUE
  StageResults <- MCStageResults
  Submissions <- MCSubmissions
  SimResults <- MCSimResults
  MaxEpisodes = 2
  MaxSteps = 2
SPECIFICATION Spec
INVARIANT GradedTaskIsStateTask
CHECK_DEADLOCK FALSE
