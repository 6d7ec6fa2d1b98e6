CONSTANTS
  Thread <- Threads4
  Loc = {"x", "y"}
  Programs <- SyncAndMixed
SPECIFICATION Spec
CHECK_DEADLOCK FALSE
INVARIANTS
  HappensBeforeExact
PROPERTY OrderingKept
