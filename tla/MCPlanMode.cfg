SPECIFICATION Spec
CONSTANTS
  a1 = a1
  a2 = a2
  None = None
  Approaches <- MCApproaches
  Size <- MCSize
  Mode <- MCMode
  MaxPlans = 2
INVARIANTS
  TypeOK
  StatusTellsSteps
  StartedInOrder
PROPERTY
  OutcomesAreFinal
CHECK_DEADLOCK FALSE
