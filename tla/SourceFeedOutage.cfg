\* An outage longer than the retention window of the dedup index.
CONSTANTS
  ContentCount = 3
  MaxOccurrences = 3
  Rows <- TwoThenOne
  Tracked = {1, 2, 3}
  Capacity = 3
  Limit = 4
  Skew = 0
  Lag = 0
  Faults = {"time"}
  MaxDrops = 2
  MaxCrashes = 1
  None = None
SPECIFICATION Spec
INVARIANT CopiedOnce
CHECK_DEADLOCK FALSE
