\* Two operations, two processes of which one may die.
CONSTANTS
  p1 = p1
  p2 = p2
  Procs = {p1, p2}
  NoProc = NoProc
  MaxOps = 2
  Kinds = {"shrink", "retained", "revert"}
  MaxResumes = 1
  Budget <- Daily
SYMMETRY Symmetry
SPECIFICATION Spec
INVARIANTS TypeOK NeverStranded OneOperation
PROPERTIES DeletesStopped
CONSTRAINT Explored
CHECK_DEADLOCK FALSE
