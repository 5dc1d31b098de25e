CONSTANTS
  StageCount = 2
  ComponentOf <- TaskPlan2
  Bridges = {}
  NBCL = 2
  KeyframeInterval = 2
  RateLimited = TRUE
  AsyncIO = FALSE
  Outcomes = {"Continue"}
  LogMayFail = FALSE
  MonitorMayFail = FALSE
  MaxClid = 3
SPECIFICATION FairSpec
PROPERTY StopTerminates
CHECK_DEADLOCK FALSE
