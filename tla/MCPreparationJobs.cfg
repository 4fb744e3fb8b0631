SPECIFICATION Spec
CONSTANTS
  MaxJobs = 3
  Workspaces = {w1}
  Bounded = {w1}
  Duplicated = {}
  Requests = {r1}
  MaxWorkers = 2
  LaunchFailures = {"process"}
  LateRequests = FALSE
  UnreadResults = FALSE
  MaxDeaths = 0
  MaxRemaps = 1
  MaxRestarts = 0
INVARIANTS
  ChildrenAreSupervised
  CompleteIsCurrent
  OutcomeIsTrue
CHECK_DEADLOCK FALSE
