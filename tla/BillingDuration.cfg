\* A stay that spans the turn of a second.
SPECIFICATION Spec
CONSTANTS
  None = None
  Cars = {a, b}
  MS_PER_SEC = 3
  NS_PER_MS = 2
  CENTS_PER_MS = 5
  CENTS_PER_DOLLAR = 10
  UINT_RANGE = 64
  MaxTime = 14
  MaxLines = 2
INVARIANT DurationExact
CHECK_DEADLOCK FALSE
