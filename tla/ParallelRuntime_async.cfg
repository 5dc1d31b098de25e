CONSTANTS
  StageCount = 2
  ComponentOf <- TaskPlan2
  Bridges = {}
  NBCL = 3
  KeyframeInterval = 2
  RateLimited = TRUE
  AsyncIO = TRUE
  Outcomes = {"Continue", "Err"}
  LogMayFail = TRUE
  MonitorMayFail = TRUE
  MaxClid = 5
SPECIFICATION Spec
INVARIANT BoxesConserved
INVARIANT StopLatency
CHECK_DEADLOCK FALSE
