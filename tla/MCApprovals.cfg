SPECIFICATION Spec
CONSTANTS
  Asked = {1, 2}
  MaxStreams = 3
  Env = {"rpc_down"}
INVARIANTS
  OwnerDecides
  NoDeadCard
CHECK_DEADLOCK FALSE
