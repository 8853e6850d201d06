\* A lost connection, with the backfill racing the new connection.
CONSTANTS
  ContentCount = 3
  MaxOccurrences = 3
  Rows <- TwoThenOne
  Tracked = {1, 2, 3}
  Capacity = 3
  Limit = 4
  Skew = 0
  Lag = 0
  Faults = {}
  MaxDrops = 2
  MaxCrashes = 1
  None = None
SPECIFICATION Spec
INVARIANT AtMostOnce
CHECK_DEADLOCK FALSE
