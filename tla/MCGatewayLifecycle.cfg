SPECIFICATION Spec
CONSTANTS
  u1 = u1
  u2 = u2
  Users = {u1}
  MaxGateways = 3
  MaxFaults = 1
  Migrations = 1
  Env = {"lost_record", "cancel", "slow_health"}
INVARIANT
  OneGateway
PROPERTY
  LeaseIsKept
CHECK_DEADLOCK FALSE
