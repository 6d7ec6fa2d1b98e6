CONSTANTS
  Thread <- Threads4
  Loc = {"x", "y"}
  Programs <- StoresAndRMW
SPECIFICATION Spec
CHECK_DEADLOCK FALSE
INVARIANTS
  GraphAcyclic
