SPECIFICATION Spec
CONSTANTS
  Programs <- AllPrograms
  Mutexes = {"m", "n", "r"}
  CondVars = {"c"}
  Recursive = {"r"}
INVARIANT PickedCanStep
INVARIANT UnlockedByHolder
INVARIANT BlockedForAReason
INVARIANT RMWNotSplit
INVARIANT EndIsJudged
PROPERTY ExecutionsEnd
