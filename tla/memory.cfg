CONSTANTS
  Thread <- Threads3
  Loc = {"x", "y"}
  Programs <- OrderPrograms
SPECIFICATION Spec
CHECK_DEADLOCK FALSE
INVARIANTS
  Consistent
  ReachabilityExact
  NothingBetweenRMW
  SeqCstReadsLast
  ReadAlwaysFeasible
