CONSTANTS
  Thread <- MCThread
  Node <- MCNode
  NodeTid <- MCNodeTid
  NodeSeq <- MCNodeSeq
  NoNode = 0
  SelfRMW = FALSE
SPECIFICATION FairSpec
INVARIANTS
  ClockSound
  ClockComplete
PROPERTIES
  PropagationEnds
CHECK_DEADLOCK FALSE
