CONSTANTS
  Period = 2
  MaxTime = 4
  TaskCount = 2
  PoolThreads = 1
  MaxRuns = 2
  Lead = 1
  MaxCalls = 2
SPECIFICATION FairSpec
INVARIANT OneRunAtATime
INVARIANT PollNeverWaits
INVARIANT NoDriftNoBurst
PROPERTY ImplementsOneSlot
PROPERTY RunsEnd
CHECK_DEADLOCK FALSE
