SPECIFICATION FairSpec
CONSTANTS
  Texts = {"a", "b"}
  MaxQueries = 2
  MaxTurns = 3
  MaxQueue = 1
  Env = {}
INVARIANTS
  NewerTurnInvalidates
  NoStaleSpeech
  QuietIsIdle
  WatchdogComesFirst
PROPERTY
  QueriesEnd
CHECK_DEADLOCK FALSE
