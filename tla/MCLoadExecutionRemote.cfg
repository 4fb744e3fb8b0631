SPECIFICATION Spec
CONSTANTS
  Rows <- RemoteRows
  Situations <- RemoteSituations
  BatchRows = 2
  Policies = {"STOP", "CONTINUE"}
  ConsecutiveLimit = 2
  IsolationLimit = 3
  LateCalls = TRUE
INVARIANTS
  ReceiptsHold
  PlanCarries
CHECK_DEADLOCK FALSE
