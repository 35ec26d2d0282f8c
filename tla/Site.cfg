\* Three cars that come and go.
SPECIFICATION FairGates
CONSTANTS
  None = None
  e_mgr = e_mgr
  e_sim = e_sim
  e_opener = e_opener
  evacuation = evacuation
  x_mgr = x_mgr
  x_sim = x_sim
  x_opener = x_opener
  a = a
  b = b
  c = c
  Cars = {a, b, c}
INVARIANTS
  ProcessesAgree
  AssertionsHold
  NeverStuck
PROPERTIES
  GateCycle
  ImplementsGates
  EntranceServes
  EveryStayEnds
\* After an alarm every thread of an exit may be left waiting.
CHECK_DEADLOCK FALSE
