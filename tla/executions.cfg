SPECIFICATION Spec
CONSTANTS
  MaxExecutions = {0, 1, 3}
  Threshold = 2
  MaxActions = 4
  MaxKills = 2
  MaxTotal = 5
INVARIANT Accounted
INVARIANT AllExecuted
PROPERTY ToolEnds
CHECK_DEADLOCK FALSE
