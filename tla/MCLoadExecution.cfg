SPECIFICATION FairSpec
CONSTANTS
  Rows <- ExecutionRows
  Situations <- ExecutionSituations
  BatchRows = 3
  Policies = {"STOP", "CONTINUE"}
  ConsecutiveLimit = 2
  IsolationLimit = 3
  LateCalls = FALSE
INVARIANTS
  JournalIsTrue
  CreatedOnce
  BudgetPauses
  EndIsTrue
PROPERTIES
  NothingSentAfter
  Ends
  ImplementsRowsOnce
CHECK_DEADLOCK FALSE
