\* Two entrances pass the unlocked test of free_spots with one park left.
SPECIFICATION Spec
CONSTANTS
  LEVELS = 2
  LEVEL_CAPACITY = 1
  SizeMax = 7
  None = None
  e1 = e1
  e2 = e2
  x1 = x1
  a = a
  b = b
  c = c
  Entrances = {e1, e2}
  Exits = {x1}
  AllowList = {a, b, c}
  Regos = {a, b, c}
SYMMETRY Interchangeable
INVARIANT AssertLevelFound
CHECK_DEADLOCK FALSE
