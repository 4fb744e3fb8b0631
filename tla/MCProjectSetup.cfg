\* Every call may have ended and the form not be sent again.
CONSTANTS
  Forms = {"authoring", "test", "production"}
  Callers = {c1, c2}
  Others = {"project", "data_version", "run"}
  StopAt = {"insert", "store", "open", "init", "finish", "connect", "tables", "answer"}
  MaxAsks = 3
  MaxFaults = 1
SPECIFICATION Spec
SYMMETRY Symmetry
CHECK_DEADLOCK FALSE
INVARIANTS
  RegistryIsSound
  LineageIsWhole
  SuccessIsWhole
