\* Every operation may be settled and every worker idle.
CONSTANTS
  Workers = {w1, w2}
  Operations = {1, 2, 3}
  wsA = wsA
  wsB = wsB
  fileA = fileA
  fileB = fileB
  Workspaces = {wsA, wsB}
  Artifacts = {fileA, fileB}
  WorkspaceOf <- MCWorkspaceOf
  ArtifactOf <- MCArtifactOf
  LeaseDuration = 1
  MaxTime = 2
  MaxStops = 1
SPECIFICATION Spec
SYMMETRY WorkerSymmetry
INVARIANTS TypeOK EvidenceIsCommitted SuccessIsWhole TokensOrder ExecutedOnce ReviewIsFinalLoss
PROPERTY ImplementsOutcome
CHECK_DEADLOCK FALSE
