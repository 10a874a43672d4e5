SPECIFICATION FairSpec
CONSTANTS
  p1 = p1
  p2 = p2
  n1 = n1
  n2 = n2
  Procs = {p1}
  Nodes = {n1}
  Included = {{}, {n1}}
  Kubernetes = {TRUE, FALSE}
  MaxRuns = 1
  Faults = 1
  NodeFails = 1
INVARIANTS CancelledLeavesServices
PROPERTIES EveryRunEnds
CHECK_DEADLOCK FALSE
