SPECIFICATION FairSpec
CONSTANTS
  Plans <- SmallPlans
  MaxAsks = 3
  MaxIds = 5
  MaxDrops = 1
INVARIANTS
  SuccessIsReal
  QuietIsClean
  ResultsAreOfQuery
PROPERTIES
  PlansEnd
CHECK_DEADLOCK FALSE
