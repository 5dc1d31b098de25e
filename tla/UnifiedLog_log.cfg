CONSTANTS
  Stream = {"text", "lists"}
  SectionSize <- Sizes
  SlabSize = 8
  Page = 2
  MaxEntries = 2
  MaxSlab = 2
  MaxRuns = 2
SPECIFICATION Spec
INVARIANTS TypeOK ClosedIsFlushed ReaderReachesMarker
PROPERTY ImplementsAppendLog
CHECK_DEADLOCK FALSE
