\* One operation of any kind, three processes of which two may die.
CONSTANTS
  p1 = p1
  p2 = p2
  p3 = p3
  Procs = {p1, p2, p3}
  NoProc = NoProc
  MaxOps = 1
  Kinds = {"shrink", "retained", "revert", "archive"}
  MaxResumes = 1
  Budget <- Hard
SPECIFICATION FairSpec
INVARIANTS FirstRunHoldsWorkloads
PROPERTIES SuccessKeepsFiles EveryOperationEnds
CHECK_DEADLOCK FALSE
