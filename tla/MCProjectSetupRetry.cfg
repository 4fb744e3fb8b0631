\* One thread; the call is cut short once, behind a reservation or behind the
\* commit of a row; the form is sent again until it is answered.
CONSTANTS
  Forms = {"test", "production"}
  Callers = {c1}
  Others = {}
  StopAt = {"insert", "finish"}
  MaxAsks = 0
  MaxFaults = 1
SPECIFICATION FairSpec
PROPERTY Completes
CHECK_DEADLOCK FALSE
