\* One tenant, a batch beside single recoveries, enrolled or at once, and an operator who executes any cart.
SPECIFICATION FairSpec
CONSTANTS
  t1 = t1
  t2 = t2
  Tenants = {t1}
  Targets <- OneTenant
  Home = t1
  NItems = 1
  StaleAfter = 2
  MaxMisses = 1
  MaxRecs = 2
  MaxBatches = 1
  Troubles = 1
INVARIANTS TypeOK OneAtATime SucceededIsApplied BatchRecoveredAll
PROPERTIES NotOnTopOfARestore EveryRowEnds RefusedOnce
CHECK_DEADLOCK FALSE
