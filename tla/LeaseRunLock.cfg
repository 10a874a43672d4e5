\* A run lock; both replicas may lag and die.
CONSTANTS
  p1 = p1
  p2 = p2
  Procs = {p1, p2}
  NoHolder = NoHolder
  Ttl = 2
  Liveness = 1
  Release = TRUE
  Laggards = {p1, p2}
  Survivors = {}
  Wedged = {}
SPECIFICATION Spec
SYMMETRY Replicas
PROPERTIES KeepsRunLock
