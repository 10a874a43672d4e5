\* A rollout: p1 may die or be stopped at any moment, p2 lives on.
CONSTANTS
  p1 = p1
  p2 = p2
  Procs = {p1, p2}
  NoHolder = NoHolder
  Ttl = 2
  Liveness = 1
  Release = FALSE
  Laggards = {}
  Survivors = {p2}
  Wedged = {}
  StartupMinTtl = 1
  StartupDelay = 1
  StartupLastTry = 2
SPECIFICATION StartupSpec
INVARIANTS Exclusion
PROPERTIES LastTryOutlivesDeadHolder
