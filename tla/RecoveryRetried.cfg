\* An operator executes the cart of a recovery once more.
SPECIFICATION Spec
CONSTANTS
  t1 = t1
  t2 = t2
  Tenants = {t1}
  Targets <- OneTenant
  Home = t1
  NItems = 1
  StaleAfter = 2
  MaxMisses = 1
  MaxRecs = 2
  MaxBatches = 0
  Troubles = 1
PROPERTIES NeverOnTopOfARestore
CHECK_DEADLOCK FALSE
