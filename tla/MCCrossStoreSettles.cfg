\* Two operations on one Workspace; no symmetry, for liveness.
CONSTANTS
  Workers = {w1, w2}
  Operations = {1, 2}
  wsA = wsA
  wsB = wsB
  fileA = fileA
  fileB = fileB
  Workspaces = {wsA, wsB}
  Artifacts = {fileA, fileB}
  WorkspaceOf <- MCWorkspaceOf
  ArtifactOf <- MCArtifactOf
  LeaseDuration = 1
  MaxTime = 1
  MaxStops = 1
SPECIFICATION FairSpec
PROPERTY Settles
CHECK_DEADLOCK FALSE
