\* Three bundles, caps of one and two or none; a heartbeat a minute, stale after five: three in a row may be lost.
CONSTANTS
  c1 = c1
  c2 = c2
  c3 = c3
  Callers = {c1, c2, c3}
  Keys = {c1, c2, c3}
  Key <- ThreeBundles
  Caps = {0, 1, 2}
  Beat = 1
  Stale = 5
  MaxMisses = 3
SPECIFICATION FairSpec
INVARIANTS TypeOK
PROPERTIES AdmitsUnderCap SlotsComeBack
