\* Three allowed plates and one that is not, two entrances, two exits.
SPECIFICATION FairSpec
CONSTANTS
  None = None
  e1 = e1
  e2 = e2
  x1 = x1
  x2 = x2
  a = a
  b = b
  c = c
  d = d
  Entrances = {e1, e2}
  Exits = {x1, x2}
  Plates = {a, b, c, d}
  AllowList = {a, b, c}
INVARIANTS
  EveryPlateOnce
  MapsSound
  AllowedCarsCirculate
PROPERTIES
  EveryCarComesOut
  ImplementsTrips
