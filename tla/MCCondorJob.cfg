SPECIFICATION CondorFairSpec
CONSTANTS
  g = g
  a = a
  f = f
  p = p
  Node <- Nodes
  Parents <- Dag
  Generation = g
  Plot = p
  MaxEvictions = 2
  MaxAborts = 1
INVARIANTS CompletedDagIsReal 
PROPERTIES DagIsJudged EventuallyDagReported
CHECK_DEADLOCK FALSE
