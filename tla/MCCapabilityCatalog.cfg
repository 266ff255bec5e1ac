SPECIFICATION Spec
CONSTANTS
  s1 = s1
  s2 = s2
  None = None
  Sessions = {s1, s2}
  MaxVersions = 2
  MaxAsks = 3
  Warned = {1, 2}
  Sensitive = {2}
  Env = {"fails"}
INVARIANT
  InstalledAsReviewed
PROPERTIES
  OwnAnswerSurvives
  FreshIsTrue
CHECK_DEADLOCK FALSE
