SPECIFICATION FairSpec
CONSTANTS
  a1 = a1
  a2 = a2
  t1 = t1
  t2 = t2
  None = None
  Approaches <- MCApproaches
  Size <- MCSize
  Mode <- MCMode
  MaxPlans = 2
  Tasks = {t1, t2}
  Env = {"manual", "query_fails", "query_raises", "organizer_fails", "cancel_fails"}
INVARIANTS
  TypeOK
  SuccessWasWorked
  TasksTellSteps
PROPERTY
  InterruptHonoured
CHECK_DEADLOCK FALSE
