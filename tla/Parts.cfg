\* One part of the system after the other.
SPECIFICATION FairSpec
CONSTANTS
  None = None
  mgr = mgr
  NL = NL
\* Hashes 0, 2, 4 and 1.
  Keys = {0, 4, 8, 2}
  KeysPerHash = 2
  initial_size = 1
  Regos = {p1, p2}
  Nodes = {n1, n2, n3}
  REGO = 2
  MaxLength = 7
\* Two seconds of three milliseconds, two nanoseconds each.
  MS_PER_SEC = 3
  NS_PER_MS = 2
  CENTS_PER_MS = 5
  CENTS_PER_DOLLAR = 10
  UINT_RANGE = 64
  MaxTime = 14
  MaxLines = 2
  Visitors = {p1, p2, p3}
  LEVELS = 3
  LEVEL_CAPACITY = 2
  MutexCond = 88
INVARIANTS
  MapSound
  ListSound
  PlatesLoaded
  FileExplainsTotal
  VisitsSound
  SameBytesSameObject
  ScanFindsMostFree
PROPERTIES
  ImplementsMap
  ImplementsFifo
  HandlesTheCarAtTheReader
  EveryVisitEnds
\* Reading plates ends, the clock is bounded, and the map may end the program.
CHECK_DEADLOCK FALSE
