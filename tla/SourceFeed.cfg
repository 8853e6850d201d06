\* Three contents, the first with two identical rows, the second of a wallet
\* that is not followed; two lost connections and a crash.
CONSTANTS
  ContentCount = 3
  MaxOccurrences = 3
  Rows <- TwoThenOne
  Tracked = {1, 3}
  Capacity = 2
  Limit = 2
  Skew = 0
  Lag = 1
  Faults = {"fetch", "parse", "store", "time", "crash"}
  MaxDrops = 2
  MaxCrashes = 1
  None = None
SPECIFICATION FairSpec
INVARIANTS
  TypeOK
  NoExtraCopies
  MissedOnlyIfUnowed
PROPERTIES
  CopyOnceSpec
  BackfillCompletes
CHECK_DEADLOCK FALSE
