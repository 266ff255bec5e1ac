SPECIFICATION FairSpec
CONSTANTS
  c1 = c1
  MaxRuns = 1
  MaxKids = 2
  MaxSessions = 1
  MaxSteps = 2
  Clicks = {c1}
  Commands = {"plan", "add", "cancel", "close", "interrupt"}
  Env = {"spawn_refused", "spawn_lost"}
INVARIANTS
  QuietIsSettled
  NoRunawayWork
  OutcomeTellsChildren
PROPERTIES
  RunsEnd
  CloseHonoured
CHECK_DEADLOCK FALSE
