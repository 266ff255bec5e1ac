SPECIFICATION MemorySpec
CONSTANTS
  Values = {a, b}
  ChunkSize = 2
  MaxTurns = 3
  MaxThreads = 2
  Boots = {"recall"}
  MaxCrashes = 1
INVARIANTS
  CardsFollowAudit
  StagesNeedGrounds
  SavedIsArchived
SYMMETRY Symmetry
CHECK_DEADLOCK FALSE
