SPECIFICATION Spec
CONSTANTS
  Programs <- AllPrograms
  Values = {0, 1}
  MaxExecutions = 2
  MaxTurns = 8
INVARIANT ReadsOwn
INVARIANT MayEqualExact
 
CHECK_DEADLOCK FALSE
