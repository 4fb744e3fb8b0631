\* Every comparison may be over and every budget spent.
CONSTANTS
  o1 = o1
  o2 = o2
  w1 = w1
  r1 = r1
  r2 = r2
  None = None
  Operations = {o1, o2}
  Workspaces = {w1}
  WorkspaceOf <- MCWorkspaceOf
  Requests = {r1, r2}
  MaxSubmits = 3
  MaxEdits = 1
  MaxCrashes = 1
  MaxFaults = 1
SPECIFICATION FairSpec
CHECK_DEADLOCK FALSE
INVARIANTS
  CurrentReportIsFresh
  WorkIsOwned
  OutcomeIsTrue
PROPERTIES
  ImplementsOutcome
  Ends
