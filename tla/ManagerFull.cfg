\* Three allowed cars compete for two parks at two entrances.
SPECIFICATION Spec
CONSTANTS
  LEVELS = 2
  LEVEL_CAPACITY = 1
  SizeMax = 7
  None = None
  e1 = e1
  e2 = e2
  x1 = x1
  a = a
  b = b
  c = c
  Entrances = {e1, e2}
  Exits = {x1}
  AllowList = {a, b, c}
  Regos = {a, b, c}
SYMMETRY Interchangeable
INVARIANTS
  TypeOK
  LevelSectionsExclusive
  NeverAllStuck
  SpotsConserved
  OneParkPerCar
  BillsMatchStays
  OnlyOverbookingAborts
PROPERTY CarParkUntilStolen
\* A failed assertion aborts the manager.
CHECK_DEADLOCK FALSE
