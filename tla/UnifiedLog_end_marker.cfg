CONSTANTS
  Stream = {"text", "lists"}
  SectionSize <- Sizes
  SlabSize = 8
  Page = 2
  MaxEntries = 2
  MaxSlab = 2
  MaxRuns = 1
SPECIFICATION Spec
INVARIANT MarkerEndsLog
CHECK_DEADLOCK FALSE
