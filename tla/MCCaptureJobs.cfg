SPECIFICATION Spec
CONSTANTS
  w1 = w1
  w2 = w2
  r1 = r1
  m1 = m1
  m2 = m2
  c1 = c1
  c2 = c2
  None = None
  Workspaces = {w1, w2}
  Requests = {r1}
  Models = {m1, m2}
  Contents = {c1, c2}
  MaxJobs = 2
  MaxPlans = 1
  MaxCrashes = 1
  MaxFaults = 1
INVARIANTS
  FilesMatch
  CancelledIsClean
  SuccessIsAccepted
  ActiveIsOwned
\* Every capture may be over and every budget spent.
CHECK_DEADLOCK FALSE
