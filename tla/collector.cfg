SPECIFICATION CollectorSpec
CONSTANTS
  Thread <- Threads3
  Loc = {"x", "y"}
  Programs <- LongPrograms
  TraceMinSize = 2
  CheckThreshold = 3
CHECK_DEADLOCK FALSE
INVARIANTS
  
  CollectedConsistent
  CollectedHbExact
PROPERTY ChoicesKept
