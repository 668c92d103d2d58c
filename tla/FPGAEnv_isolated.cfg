\* Two sessions, each with an environment of its own.
CONSTANTS
  s1 = s1  s2 = s2  e1 = e1  e2 = e2
  Session = {s1, s2}
  Env = {e1, e2}
  EnvOf <- MCOwnEnv
  Task = {"popcount32", "gcd16"}
  DefaultTask = "popcount32"
  UnknownTask = "nosuch"
  Seeds = {4}
  None = None
  Pending = Pending
  NValidationSeeds = 1
  FormatBonus = TRUE
  StageResults <- MCFewStageResults
  Submissions <- MCFewSubmissions
  SimResults <- MCFewSimResults
  MaxEpisodes = 3
  MaxSteps = 1
SPECIFICATION Spec
INVARIANTS
  TypeOK
  ObservationOfEpisode
  GradedOnEpisode
  GradedImpliesStepped
  IsolationInv
PROPERTY AtomicGrading
CHECK_DEADLOCK FALSE
