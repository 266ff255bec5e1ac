SPECIFICATION Spec
CONSTANTS
  c1 = c1
  MaxRuns = 1
  MaxKids = 2
  MaxSessions = 2
  MaxSteps = 1
  Clicks = {c1}
  Commands = {"manual", "add", "close"}
  Env = {"queues", "spawn_lost", "archive_fails", "list_fails", "timeout"}
INVARIANTS
  TypeOK
  TruthfulSuccess
  ClosedIsArchived
CHECK_DEADLOCK FALSE
