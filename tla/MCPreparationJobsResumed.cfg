SPECIFICATION Spec
CONSTANTS
  MaxJobs = 3
  Workspaces = {w1}
  Bounded = {}
  Duplicated = {w1}
  Requests = {r1, r2}
  MaxWorkers = 1
  LaunchFailures = {"resources"}
  LateRequests = TRUE
  UnreadResults = TRUE
  MaxDeaths = 1
  MaxRemaps = 0
  MaxRestarts = 0
INVARIANTS
  SuccessIsSaved
PROPERTIES
  OutcomeIsRetained
SYMMETRY AlikeRequests
CHECK_DEADLOCK FALSE
