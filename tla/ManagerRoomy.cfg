\* As many plates on the allow list as parks, one car that is not on it, and
\* the display.
SPECIFICATION FairSpecDisplayed
CONSTANTS
  LEVELS = 2
  LEVEL_CAPACITY = 1
  SizeMax = 7
  None = None
  display = display
  e1 = e1
  e2 = e2
  x1 = x1
  a = a
  b = b
  stranger = stranger
  Entrances = {e1, e2}
  Exits = {x1}
  AllowList = {a, b}
  Regos = {a, b, stranger}
INVARIANTS
  RoomForAllIsSafe
  ReadsWholeTable
PROPERTIES
  ImplementsCarPark
  DisplayOnlyReads
  LockReleasedByAll
