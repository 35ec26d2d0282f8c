\* Does an alarm open the gate?
SPECIFICATION FairSpec
CONSTANTS
  None = None
  mgr = mgr
  sim = sim
  opener = opener
  ManagerFirst = TRUE
  Cars = {a, b}
PROPERTY AlarmOpensGate
CHECK_DEADLOCK FALSE
