SPECIFICATION FairSpec
CONSTANTS
  c1 = c1
  c2 = c2
  s1 = s1
  Calls = {c1, c2}
  Stops = {s1}
  MaxBridges = 2
PROPERTY
  ImplementsRPCCalls
CHECK_DEADLOCK FALSE
