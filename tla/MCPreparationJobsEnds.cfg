SPECIFICATION FairSpec
CONSTANTS
  MaxJobs = 2
  Workspaces = {w1, w2}
  Bounded = {}
  Duplicated = {}
  Requests = {r1}
  MaxWorkers = 1
  LaunchFailures = {"process", "supervisor"}
  LateRequests = FALSE
  UnreadResults = FALSE
  MaxDeaths = 1
  MaxRemaps = 0
  MaxRestarts = 1
PROPERTIES
  Ends
CHECK_DEADLOCK FALSE
