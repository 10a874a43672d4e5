\* A sticky job; p1 has every trouble, and may live on without ticking.
CONSTANTS
  p1 = p1
  p2 = p2
  Procs = {p1, p2}
  NoHolder = NoHolder
  Ttl = 2
  Liveness = 1
  Release = FALSE
  Laggards = {p1}
  Survivors = {p2}
  Wedged = {p1}
SPECIFICATION FairSpec
INVARIANTS TypeOK RunKeepsItsLease
PROPERTIES NoWriteBack JobKeepsRunning
