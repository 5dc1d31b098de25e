CONSTANTS
  StageCount = 2
  ComponentOf <- TaskPlan2
  Bridges = {}
  NBCL = 2
  KeyframeInterval = 2
  RateLimited = FALSE
  AsyncIO = TRUE
  Outcomes = {"Continue"}
  LogMayFail = FALSE
  MonitorMayFail = FALSE
  MaxClid = 4
SPECIFICATION FairSpec
PROPERTY StopTerminates
CHECK_DEADLOCK FALSE
