\* Two cars, and an alarm at any time.
SPECIFICATION SpecWithAlarm
CONSTANTS
  None = None
  e_mgr = e_mgr
  e_sim = e_sim
  e_opener = e_opener
  evacuation = evacuation
  x_mgr = x_mgr
  x_sim = x_sim
  x_opener = x_opener
  Cars = {a, b}
INVARIANT NeverAborts
CHECK_DEADLOCK FALSE
