\* A car reaches the exit before the manager thread waits there.
SPECIFICATION FairSpec
CONSTANTS
  None = None
  mgr = mgr
  sim = sim
  opener = opener
  ManagerFirst = FALSE
  Cars = {a, b}
PROPERTY EveryCarLeaves
CHECK_DEADLOCK FALSE
