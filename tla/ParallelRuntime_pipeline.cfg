CONSTANTS
  StageCount = 3
  ComponentOf <- SendPlan3
  Bridges = {"bridge"}
  NBCL = 3
  KeyframeInterval = 2
  RateLimited = FALSE
  AsyncIO = FALSE
  Outcomes = {"Continue", "Abort", "Err", "Panic"}
  LogMayFail = TRUE
  MonitorMayFail = FALSE
  MaxClid = 4
SPECIFICATION FairSpec
INVARIANT AnsweredOnce
INVARIANT NeverBlocked
INVARIANT KeyframeIsPrefix
INVARIANT KeyframeRestorable
INVARIANT IdleOnlyForClock
INVARIANT FailureCutsLog
PROPERTY ImplementsOrderedCommit
PROPERTY StopTerminates
