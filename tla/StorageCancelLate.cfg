\* Two restores of a retained volume, one after the other, and one cancel.
CONSTANTS
  p1 = p1
  Procs = {p1}
  NoProc = NoProc
  MaxOps = 2
  Kinds = {"retained"}
  MaxResumes = 1
  Budget <- CancelOnly
SPECIFICATION Spec
PROPERTIES NeverDeletesRunning
CHECK_DEADLOCK FALSE
