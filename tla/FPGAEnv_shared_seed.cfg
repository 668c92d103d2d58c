\* Two sessions, on one shared environment.
CONSTANTS
  s1 = s1  s2 = s2  e1 = e1  e2 = e2
  Session = {s1, s2}
  Env = {e1}
  EnvOf <- MCSharedEnv
  Task = {"popcount32", "gcd16"}
  DefaultTask = "popcount32"
  UnknownTask = "nosuch"
  Seeds = {4}
  None = None
  Pending = Pending
  NValidationSeeds = 1
  FormatBonus = TRUE
  StageResults <- MCFewStageResults
  Submissions <- MCFewSubmissions
  SimResults <- MCFewSimResults
  MaxEpisodes = 2
  MaxSteps = 1
SPECIFICATION Spec
INVARIANT GradedOnEpisode
CHECK_DEADLOCK FALSE
