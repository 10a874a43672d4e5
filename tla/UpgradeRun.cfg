SPECIFICATION Spec
CONSTANTS
  p1 = p1
  p2 = p2
  n1 = n1
  n2 = n2
  Procs = {p1, p2}
  Nodes = {n1}
  Included = {{n1}}
  Kubernetes = {TRUE, FALSE}
  MaxRuns = 1
  Faults = 1
  NodeFails = 0
SYMMETRY Symmetry
INVARIANTS TypeOK SucceededIsDone
PROPERTIES NodesFirst KeepsRunLife
CHECK_DEADLOCK FALSE
